---------------------------- MODULE MutationPlan ----------------------------
(***************************************************************************)
(* A plan of edits applied in one round trip: the Luau that                *)
(* builders/mutation-plan.ts (packages/core/src) sends to Studio.          *)
(*                                                                         *)
(* A plan first checks what each edit expects, then makes the edits in     *)
(* order, and an atomic plan whose edit fails undoes the others from the   *)
(* last to the first.  The receipt carries that undo list, to be run as a  *)
(* plan of its own.  A path is the name of an instance below one parent    *)
(* and resolves to the first child of that name.  An edit writes one field *)
(* of an instance: its Name (a property), an attribute or a tag.           *)
(* Luau does not yield here, so nothing else runs between two steps and a  *)
(* cancellation is seen before the first edit or not at all.               *)
(***************************************************************************)
EXTENDS Naturals, SequencesExt

CONSTANTS
  Children,    \* instances 1 .. Children below the parent, in order
  Names,       \* what they may be called
  Plain,       \* attribute values JSON carries, FALSE among them
  Rich,        \* attribute values of other types, a Vector3 for one
  AsText,      \* what tostring makes of those
  Unset,       \* an attribute that is not there
  Unchecked,   \* an edit without "expected"
  MaxOps       \* bound on the edits of a plan

ASSUME PlanAssumption ==
  /\ Children \in Nat /\ MaxOps \in Nat
  /\ Rich \cap (Names \cup Plain \cup BOOLEAN) = {}
  /\ Unset \notin Plain \cup Rich /\ AsText \notin Plain \cup Rich
  /\ Unchecked \notin Plain \cup Rich \cup {Unset, AsText}

VARIABLES
  place,       \* the fields of each instance
  before,      \* history: the place before the plan
  plan,        \* the edits
  atomic,      \* the flag of the plan
  planPhase,   \* what the chunk is doing
  index,       \* the edit it has reached
  made,        \* which edits succeeded
  undo,        \* "rollback" of the receipt
  unrestored   \* the number of rollbackFailures

planVars == <<place, before, plan, atomic, planPhase, index, made, undo, unrestored>>
-----------------------------------------------------------------------------
Fields == {"Name", "attribute", "tag"}

Writable(field) == CASE field = "Name"      -> Names
                     [] field = "attribute" -> Plain
                     [] field = "tag"       -> BOOLEAN

Edits == UNION {[target : Names, field : {f}, value : Writable(f),
                 expected : {Unchecked, Unset}] : f \in Fields}

Instances == [Name : Names, attribute : Plain \cup Rich \cup {AsText, Unset}, tag : BOOLEAN]

ser(v) == IF v \in Rich THEN AsText ELSE v

\* What the undo list has for a value: "before ~= nil and ser(before) or nil" makes
\* nil of an attribute that was false.
oldValue(field, v) == IF field = "attribute" /\ v = FALSE THEN Unset ELSE ser(v)

resolvePath(path) == {i \in 1 .. Children : /\ place[i].Name = path
                                            /\ \A j \in 1 .. i - 1 : place[j].Name # path}

\* What a precondition meets.
Conflicts(op) ==
  /\ op.expected # Unchecked
  /\ IF resolvePath(op.target) = {}
     THEN op.field = "tag"
     ELSE \A i \in resolvePath(op.target) :
            CASE op.field = "Name"      -> TRUE
              [] op.field = "attribute" -> place[i].attribute # Unset
              [] op.field = "tag"       -> place[i].tag

Written(p, i, op) == [p EXCEPT ![i][op.field] = op.value]

\* Fault: a tag that was there already is taken away by the undo list.
TakebackAlways(op, i) ==
  <<[op EXCEPT !.value = IF op.field = "tag" THEN ~op.value
                         ELSE oldValue(op.field, place[i][op.field]),
               !.expected = Unchecked]>>

\* The edit that takes op back: for a tag only when op changed it.
Takeback(op, i) ==
  IF op.field = "tag" /\ place[i].tag = op.value
  THEN <<>>
  ELSE <<[op EXCEPT !.value = oldValue(op.field, place[i][op.field]), !.expected = Unchecked]>>

PlanInit ==
  /\ place \in [1 .. Children -> {r \in Instances : r.attribute # AsText}]
  /\ \A i, j \in 1 .. Children : place[i].Name = place[j].Name => i = j
  /\ before = place
  /\ plan = <<>>
  /\ atomic \in BOOLEAN
  /\ planPhase = "asked"
  /\ index = 1
  /\ made = {}
  /\ undo = <<>>
  /\ unrestored = 0
-----------------------------------------------------------------------------
\* The agent writes the plan.
AddEdit(op) ==
  /\ planPhase = "asked" /\ Len(plan) < MaxOps
  /\ plan' = Append(plan, op)
  /\ UNCHANGED <<place, before, atomic, planPhase, index, made, undo, unrestored>>

CheckEdits ==
  /\ planPhase = "asked" /\ plan # <<>>
  /\ planPhase' = IF \E k \in DOMAIN plan : Conflicts(plan[k]) THEN "conflict" ELSE "editing"
  /\ UNCHANGED <<place, before, plan, atomic, index, made, undo, unrestored>>

\* An edit whose target is there and which the engine accepts.
MakeEdit(i) ==
  /\ planPhase = "editing" /\ index <= Len(plan)
  /\ i \in resolvePath(plan[index].target)
  /\ place' = Written(place, i, plan[index])
  /\ undo' = undo \o Takeback(plan[index], i)
  /\ made' = made \cup {index}
  /\ index' = index + 1
  /\ UNCHANGED <<before, plan, atomic, planPhase, unrestored>>

\* Its target is gone, or the engine refuses the value.
FailEdit ==
  /\ planPhase = "editing" /\ index <= Len(plan)
  /\ index' = index + 1
  /\ UNCHANGED <<place, before, plan, atomic, planPhase, made, undo, unrestored>>

\* Fault: undoing from the first edit to the last.
EndEditsForward ==
  /\ planPhase = "editing" /\ index > Len(plan)
  /\ planPhase' = IF atomic /\ made # DOMAIN plan THEN "undoing" ELSE "applied"
  /\ index' = Len(undo)
  /\ undo' = IF atomic /\ made # DOMAIN plan THEN Reverse(undo) ELSE undo
  /\ UNCHANGED <<place, before, plan, atomic, made, unrestored>>

EndEdits ==
  /\ planPhase = "editing" /\ index > Len(plan)
  /\ planPhase' = IF atomic /\ made # DOMAIN plan THEN "undoing" ELSE "applied"
  /\ index' = Len(undo)
  /\ UNCHANGED <<place, before, plan, atomic, made, undo, unrestored>>

Restore(i) ==
  /\ planPhase = "undoing" /\ index > 0
  /\ i \in resolvePath(undo[index].target)
  /\ place' = Written(place, i, undo[index])
  /\ index' = index - 1
  /\ UNCHANGED <<before, plan, atomic, planPhase, made, undo, unrestored>>

FailRestore ==
  /\ planPhase = "undoing" /\ index > 0
  /\ unrestored' = unrestored + 1
  /\ index' = index - 1
  /\ UNCHANGED <<place, before, plan, atomic, planPhase, made, undo>>

EndUndo ==
  /\ planPhase = "undoing" /\ index = 0
  /\ planPhase' = "rolledBack"
  /\ UNCHANGED <<place, before, plan, atomic, index, made, undo, unrestored>>

PlanNext ==
  \/ \E op \in Edits : AddEdit(op)
  \/ CheckEdits \/ FailEdit \/ EndEdits \/ FailRestore \/ EndUndo
  \/ \E i \in 1 .. Children : MakeEdit(i) \/ Restore(i)

PlanSpec == PlanInit /\ [][PlanNext]_planVars
-----------------------------------------------------------------------------
PlanTypeOK ==
  /\ place \in [1 .. Children -> Instances] /\ before \in [1 .. Children -> Instances]
  /\ plan \in Seq([target : Names, field : Fields, value : Names \cup Plain \cup BOOLEAN,
                   expected : {Unchecked, Unset}])
  /\ planPhase \in {"asked", "conflict", "editing", "undoing", "applied", "rolledBack"}
  /\ atomic \in BOOLEAN /\ index \in 0 .. Len(plan) + 1
  /\ made \subseteq DOMAIN plan /\ unrestored \in 0 .. Len(undo)
  /\ \A k \in DOMAIN undo : undo[k].field \in Fields

partiallyApplied ==
  IF planPhase = "rolledBack" THEN unrestored > 0 ELSE made \notin {{}, DOMAIN plan}

\* q up to what the undo list makes of its values: one that JSON does not carry
\* comes back as its text, and an attribute that was false does not come back.
AsSerialized(p, q) ==
  \A i \in 1 .. Children, f \in Fields : p[i][f] \in {q[i][f], oldValue(f, q[i][f])}

\* No edit gives an instance a name that an edit goes by.
RenamesAreFresh ==
  \A j, k \in DOMAIN plan : plan[k].field = "Name" => plan[j].target # plan[k].value

\* A receipt that reports neither a conflict nor a partial application, with an edit
\* that was not made, is of a place that is as it was before the plan, up to
\* AsSerialized: after a rollback that is called complete no edit is left ("the one
\* state a caller must not be told is clean").  A rename is not restored by its old
\* path; the receipt says so, unless renames hand names on.
ReceiptIsTruthful ==
  /\ planPhase = "conflict" => place = before
  /\ planPhase \in {"applied", "rolledBack"} /\ ~partiallyApplied
       /\ made # DOMAIN plan /\ RenamesAreFresh
     => AsSerialized(place, before)

\* The same to the letter, as the comment has it ("nothing changed").
RollbackIsClean == planPhase = "rolledBack" /\ ~partiallyApplied => place = before

\* What an edit does to a place whose names stay as they are.
Applied(p, op) ==
  IF \E i \in 1 .. Children : p[i].Name = op.target
  THEN Written(p, CHOOSE i \in 1 .. Children : p[i].Name = op.target, op)
  ELSE p

\* The place p after the first k edits of a list, for every k.
PlacesOf(p, edits) ==
  LET ran[k \in 0 .. Len(edits)] == IF k = 0 THEN p ELSE Applied(ran[k - 1], edits[k])
  IN  ran

Run(p, edits) == PlacesOf(p, edits)[Len(edits)]

Applies == planPhase = "applied" /\ made = DOMAIN plan

\* The undo list of a receipt, run as a plan of its own, takes the place back to
\* what it was before the plan ("the rollback IS another mutation plan"), up to
\* AsSerialized, when no two edits of the plan write one field and none a name.
ReceiptUndoesPlan ==
  /\ Applies
  /\ \A j, k \in DOMAIN plan :
       plan[j].target = plan[k].target /\ plan[j].field = plan[k].field => j = k
  /\ \A k \in DOMAIN plan : plan[k].field # "Name"
  => AsSerialized(Run(place, undo), before)

\* The same of every plan and every value, as the header of mutation-plan.ts has it.
ReceiptUndoesAnyPlan == Applies => Run(place, undo) = before
=============================================================================
