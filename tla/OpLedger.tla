------------------------------ MODULE OpLedger ------------------------------
(***************************************************************************)
(* What /v1/sync/push promises its clients, without transactions, locks or *)
(* connections: every operation id is settled at most once and for ever,   *)
(* and the change log holds exactly one event for an operation settled as  *)
(* applied and none for any other.  The log only grows, under fresh ids.   *)
(* SyncServer is the implementation; it refines this module with           *)
(* verdict <- idem.                                                        *)
(***************************************************************************)
CONSTANTS Ops      \* the operations clients may push, one per opId

VARIABLES verdict, \* idempotency_keys: what was decided about an operation
          events   \* sync_events: the change log, a set of [id, op, ...]

ledgerVars == <<verdict, events>>

Undecided == "none"

Init ==
    /\ verdict = [o \in Ops |-> Undecided]
    /\ events = {}

NewEvents == events' \ events

\* Some undecided operations are settled together; each one settled as
\* applied brings exactly one event, and no other operation brings any.
\* With no operation settled this is the server recording a change of its own.
Settle ==
    /\ events \subseteq events'
    /\ \A e \in NewEvents, d \in events' : d.id = e.id => d = e
    /\ \A o \in Ops : verdict[o] # Undecided => verdict'[o] = verdict[o]
    /\ \A o \in Ops :
           (\E e \in NewEvents : e.op = o)
               <=> (verdict[o] = Undecided /\ verdict'[o] = "applied")
    /\ \A d, e \in NewEvents : (d.op = e.op /\ d.op \in Ops) => d = e

Spec == Init /\ [][Settle]_ledgerVars
=============================================================================
