------------------------------- MODULE Ledger -------------------------------
(***************************************************************************)
(* What publishing promises of the receivables ledger, whatever requests,  *)
(* edits, reviews and discards went on around it.  A publish looks at the  *)
(* ledger, and plans to settle the invoices of its entity that are open    *)
(* and that it does not report; later it applies the plan, as a whole, or  *)
(* drops it.  Plans of one entity may overlap: then what one reports is    *)
(* reported by no other, and nothing another is about to report is         *)
(* settled, but what it applies after one looked that one leaves open.  No *)
(* other entity's invoice moves, and an invoice remembers the snapshot     *)
(* that reported it first.  SnapshotLifecycle implements this module.      *)
(***************************************************************************)
CONSTANTS
  Slots,                  \* publishes on the way
  Entities,
  Keys, EntityOfKey(_),   \* invoices, and the entity each belongs to
  Files, NoFile           \* snapshots

VARIABLES
  open,        \* the invoices that are OPEN
  firstSeen,   \* the snapshot that reported each invoice first, or NoFile
  plan         \* what each publish on the way is about to do

vars == <<open, firstSeen, plan>>

KeysOf(e) == {k \in Keys : EntityOfKey(k) = e}
Known == {k \in Keys : firstSeen[k] # NoFile}

NoPlan == [file |-> NoFile, reports |-> {}, settles |-> {}]

Init ==
  /\ open = {}
  /\ firstSeen = [k \in Keys |-> NoFile]
  /\ plan = [p \in Slots |-> NoPlan]

\* Snapshot f of entity e is to report the invoices ks.
Look(p, f, e, ks) ==
  /\ plan[p] = NoPlan /\ ks # {}
  /\ \A o \in Slots : plan[o].reports \cap ks = {}
  /\ plan' = [plan EXCEPT ![p] = [file |-> f, reports |-> ks,
                                  settles |-> (open \cap KeysOf(e)) \ ks]]
  /\ UNCHANGED <<open, firstSeen>>

Drop(p) ==
  /\ plan' = [plan EXCEPT ![p] = NoPlan]
  /\ UNCHANGED <<open, firstSeen>>

Publish(p) ==
  LET l == plan[p] IN
  /\ l # NoPlan
  /\ \A o \in Slots : plan[o].reports \cap l.settles = {}
  /\ open' = (open \ l.settles) \cup l.reports
  /\ firstSeen' = [k \in Keys |-> IF k \in l.reports \ Known THEN l.file ELSE firstSeen[k]]
  /\ plan' = [plan EXCEPT ![p] = NoPlan]

Next ==
  \E p \in Slots :
    \/ Drop(p)
    \/ \E f \in Files, e \in Entities : \E ks \in SUBSET KeysOf(e) : Look(p, f, e, ks)
    \/ Publish(p)

Spec == Init /\ [][Next]_vars

=============================================================================
