------------------------------- MODULE RawJson -------------------------------
(***************************************************************************)
(* BaseCollector.truncate_raw_json (src/src/collectors/base.py): cutting   *)
(* an item's metadata down to the size limit of the raw_json column.  A    *)
(* field is its size and whether it is one of the four body fields         *)
(* (abstract, content, body, description), another string, or not a string *)
(* (a list of authors, a number).  Sizes are scaled down; the order of the *)
(* limits is the code's.                                                   *)
(***************************************************************************)
EXTENDS Integers, Sequences, Functions

CONSTANTS
    Inputs,        \* sanitized metadata: sequences of fields in dict order
    MaxSize,       \* RAW_JSON_MAX_SIZE
    BodyCut,       \* the 500 characters a body field keeps at first
    Threshold,     \* FIELD_TRUNCATION_THRESHOLD
    Ellipsis       \* the length of "..."

VARIABLES fields, pc, truncated

vars == <<fields, pc, truncated>>

Size(fs) == FoldFunction(LAMBDA f, sum : f.size + sum, 0, fs)
IsText(f) == f.kind \in {"body", "text"}

Cut(f, n) == [f EXCEPT !.size = (IF @ > n THEN n ELSE @) + Ellipsis]

Init ==
    /\ fields \in Inputs
    /\ pc = "measure"
    /\ truncated = FALSE

Fits ==
    /\ pc = "measure"
    /\ Size(fields) <= MaxSize
    /\ pc' = "done"
    /\ UNCHANGED <<fields, truncated>>

CutBodies ==
    /\ pc = "measure"
    /\ Size(fields) > MaxSize
    /\ fields' = [i \in DOMAIN fields |->
                    IF fields[i].kind = "body" THEN Cut(fields[i], BodyCut) ELSE fields[i]]
    /\ truncated' = TRUE
    /\ pc' = "shrink"

Long == {i \in DOMAIN fields : IsText(fields[i]) /\ fields[i].size > Threshold}

(* The for loop stops at the first long string, not at the largest. *)
Chosen == CHOOSE i \in Long : \A j \in Long : i <= j
ShrinkOne ==
    /\ pc = "shrink"
    /\ Size(fields) > MaxSize /\ Long # {}
    /\ fields' = [fields EXCEPT ![Chosen] = Cut(@, Threshold)]
    /\ UNCHANGED <<pc, truncated>>

Finish ==
    /\ pc = "shrink"
    /\ Size(fields) <= MaxSize \/ Long = {}
    /\ pc' = "done"
    /\ UNCHANGED <<fields, truncated>>

Done == pc = "done" /\ UNCHANGED vars

Next == Fits \/ CutBodies \/ ShrinkOne \/ Finish \/ Done

(* A straight-line computation: it goes on by itself. *)
Spec == Init /\ [][Next]_vars /\ WF_vars(Fits \/ CutBodies \/ ShrinkOne \/ Finish)

-----------------------------------------------------------------------------

(* The call returns (base.py:199 "Serialize and truncate raw_json if needed"). *)
Terminates == <>(pc = "done")

(* Not so, see the README.  base.py:229 "Find largest string field and        *)
(* truncate it".                                                             *)
LargestFirst ==
    [][pc = "shrink" /\ fields' # fields
         => \A j \in Long : fields[j].size <= fields[Chosen].size]_vars
=============================================================================
