--------------------------- MODULE GracefulSwitch ---------------------------
(***************************************************************************)
(* The graceful switch policy (load_balancing/graceful_switch.rs) and the  *)
(* Child wrapper it is built from (load_balancing/child_manager.rs).       *)
(*                                                                         *)
(* A child policy is what it shows its parent: a name, the handle that     *)
(* routes its work items, the state of its last picker, and whether its    *)
(* resolution requests are suppressed.  The operators below give the       *)
(* outcome of one call into the policy: the children afterwards, and the   *)
(* picker published to the channel, if any.                                *)
(***************************************************************************)
CONSTANTS Name,      \* names of child policy types
          Handle,    \* identities of children, never used twice
          NoChild    \* no such child

VARIABLES active, pending

ConnectivityStates == {"IDLE", "CONNECTING", "READY", "TRANSIENT_FAILURE"}

Child == [name : Name, handle : Handle, state : ConnectivityStates, suppress : BOOLEAN]

ASSUME NoChildAssumption == NoChild \notin Handle /\ NoChild \notin Child

Children == {c \in {active, pending} : c # NoChild}

\* Child::new: LbState::initial is CONNECTING with a queuing picker.
NewChild(n, h) == [name |-> n, handle |-> h, state |-> "CONNECTING", suppress |-> FALSE]

Picker(c) == [state |-> c.state, handle |-> c.handle]

\* Mutant: the picker of a pending policy is published before it is promoted.
ReconcileEagerly(act, pend, actUpdated, pendUpdated) ==
    LET swap == pend # NoChild /\ (pend.state # "CONNECTING" \/ act.state # "READY")
    IN  [active |-> IF swap THEN pend ELSE act,
         pending |-> IF swap THEN NoChild ELSE pend,
         publish |-> IF pendUpdated THEN {Picker(pend)}
                     ELSE IF actUpdated THEN {Picker(act)} ELSE {}]

\* Mutant: only a pending policy that left CONNECTING is promoted.
ReconcileOnPendingOnly(act, pend, actUpdated, pendUpdated) ==
    LET swap == pend # NoChild /\ pend.state # "CONNECTING"
        new == IF swap THEN pend ELSE act
    IN  [active |-> new,
         pending |-> IF swap THEN NoChild ELSE pend,
         publish |-> IF swap \/ actUpdated THEN {Picker(new)} ELSE {}]

\* reconcile, after every call into a child.
Reconcile(act, pend, actUpdated, pendUpdated) ==
    LET swap == /\ actUpdated \/ pendUpdated
                /\ pend # NoChild
                /\ pend.state # "CONNECTING" \/ act.state # "READY"
        new == IF swap THEN pend ELSE act
    IN  [active |-> new,
         pending |-> IF swap THEN NoChild ELSE pend,
         publish |-> IF swap \/ actUpdated THEN {Picker(new)} ELSE {}]

\* Mutant: a switch that is called off leaves the active policy suppressed.
ChooseKeepingSuppressed(n, h) ==
    CASE active = NoChild ->
            [active |-> NewChild(n, h), pending |-> NoChild]
      [] active # NoChild /\ active.name = n ->
            [active |-> active, pending |-> NoChild]
      [] active # NoChild /\ active.name # n
         /\ pending # NoChild /\ pending.name = n ->
            [active |-> active, pending |-> pending]
      [] OTHER ->
            [active |-> [active EXCEPT !.suppress = TRUE], pending |-> NewChild(n, h)]

\* The child that gets resolver updates, after config n has been looked at: the
\* first policy, the active one again, the pending one again, or a new pending.
Choose(n, h) ==
    CASE active = NoChild ->
            [active |-> NewChild(n, h), pending |-> NoChild]
      [] active # NoChild /\ active.name = n ->
            [active |-> [active EXCEPT !.suppress = FALSE], pending |-> NoChild]
      [] active # NoChild /\ active.name # n
         /\ pending # NoChild /\ pending.name = n ->
            [active |-> active, pending |-> pending]
      [] OTHER ->
            [active |-> [active EXCEPT !.suppress = TRUE], pending |-> NewChild(n, h)]

\* resolver_update: the latest child handles the update, and its picker moves to
\* state s if it publishes one.
ResolverUpdateOutcome(n, h, publishes, s) ==
    LET chosen == Choose(n, h)
        toPending == chosen.pending # NoChild
        upd(c) == IF publishes THEN [c EXCEPT !.state = s] ELSE c
    IN  IF toPending
        THEN Reconcile(chosen.active, upd(chosen.pending), FALSE, publishes)
        ELSE Reconcile(upd(chosen.active), NoChild, publishes, FALSE)

\* A new child is built for the update.
Builds(n) == \/ active = NoChild
             \/ active.name # n /\ (pending = NoChild \/ pending.name # n)

\* work: the item goes to the child whose handle it carries, which publishes s.
WorkOutcome(h, s) ==
    IF pending # NoChild /\ pending.handle = h
    THEN Reconcile(active, [pending EXCEPT !.state = s], FALSE, TRUE)
    ELSE Reconcile([active EXCEPT !.state = s], pending, TRUE, FALSE)
=============================================================================
