------------------------------- MODULE Logic -------------------------------
(***************************************************************************)
(* Three-valued logic over lists (internal/exec/eval.go): any, all, none    *)
(* and single(x IN list WHERE p), x IN list, the equality of two lists, and  *)
(* AND and OR.  Each is a loop over the outcomes of its elements (of p, or of *)
(* the equality of two elements) that stops as soon as the answer is          *)
(* decided.  An outcome that is neither null nor true counts as false.        *)
(***************************************************************************)
EXTENDS Naturals, Sequences

CONSTANT Lists  \* the lists of outcomes

T == "true"
F == "false"
N == "null"

ASSUME Outcomes == Lists \subseteq Seq({T, F, N})

Loops == {"any", "all", "none", "single", "IN", "="}
Kinds == Loops \cup {"AND", "OR"}

VARIABLES kind, list,
          pos, trues, falses, unknowns,  \* of the loop
          answer

logicVars == <<kind, list, pos, trues, falses, unknowns, answer>>

LogicInit ==
    /\ kind \in Kinds /\ list \in Lists
    /\ kind \in {"AND", "OR"} => Len(list) = 2
    /\ pos = 0 /\ trues = 0 /\ falses = 0 /\ unknowns = 0
    /\ answer = "pending"

\* Mutant of Stops: single stops at the first true element.
Stops_SingleAtOne(t, f) ==
    CASE kind \in {"any", "none", "IN"} -> t > 0
      [] kind \in {"all", "="} -> f > 0
      [] kind = "single" -> t > 0

\* The answer is decided whatever follows.
Stops(t, f) ==
    CASE kind \in {"any", "none", "IN"} -> t > 0
      [] kind \in {"all", "="} -> f > 0
      [] kind = "single" -> t > 1

Bool(b) == IF b THEN T ELSE F

\* What the loop's counts mean at its end.
Result(t, f, u) ==
    CASE kind \in {"any", "IN"} -> IF t > 0 THEN T ELSE IF u > 0 THEN N ELSE F
      [] kind = "none" -> IF t > 0 THEN F ELSE IF u > 0 THEN N ELSE T
      [] kind \in {"all", "="} -> IF f > 0 THEN F ELSE IF u > 0 THEN N ELSE T
      [] kind = "single" -> IF t > 1 THEN F ELSE IF u = 0 THEN Bool(t = 1) ELSE N

NextElement ==
    /\ answer = "pending" /\ kind \in Loops /\ pos < Len(list)
    /\ LET v == list[pos + 1]
           t == IF v = T THEN trues + 1 ELSE trues
           f == IF v = F THEN falses + 1 ELSE falses
           u == IF v = N THEN unknowns + 1 ELSE unknowns
       IN /\ pos' = pos + 1 /\ trues' = t /\ falses' = f /\ unknowns' = u
          /\ answer' = IF Stops(t, f) THEN Result(t, f, u) ELSE answer
    /\ UNCHANGED <<kind, list>>

ListDone ==
    /\ answer = "pending" /\ kind \in Loops /\ pos = Len(list)
    /\ answer' = Result(trues, falses, unknowns)
    /\ UNCHANGED <<kind, list, pos, trues, falses, unknowns>>

\* boolOp evaluates both sides; the deciding value wins over null.
BoolOp ==
    /\ answer = "pending" /\ kind \in {"AND", "OR"}
    /\ LET deciding == Bool(kind = "OR")
       IN answer' = IF list[1] = deciding \/ list[2] = deciding THEN deciding
                    ELSE IF list[1] = N \/ list[2] = N THEN N
                    ELSE Bool(kind = "AND")
    /\ UNCHANGED <<kind, list, pos, trues, falses, unknowns>>

LogicNext == NextElement \/ ListDone \/ BoolOp

LogicSpec == LogicInit /\ [][LogicNext]_logicVars

-----------------------------------------------------------------------------
\* What an operation says of a list without nulls.
Says(c) ==
    CASE kind \in {"any", "IN", "OR"} -> \E i \in DOMAIN c : c[i] = T
      [] kind = "none" -> \A i \in DOMAIN c : c[i] # T
      [] kind \in {"all", "=", "AND"} -> \A i \in DOMAIN c : c[i] = T
      [] kind = "single" -> \E i \in DOMAIN c : c[i] = T /\ \A j \in DOMAIN c : c[j] = T => j = i

\* The lists that put true or false in the place of each null.
Completions == {c \in [DOMAIN list -> {T, F}] : \A i \in DOMAIN list : list[i] # N => c[i] = list[i]}

\* An answer that is null exactly when it depends on what the nulls stand for.
Right(a) ==
    /\ a = T => \A c \in Completions : Says(c)
    /\ a = F => \A c \in Completions : ~Says(c)
    /\ a = N => (\E c \in Completions : Says(c)) /\ (\E c \in Completions : ~Says(c))

\* Null means unknown, no more and no less: an answer is null exactly when it
\* depends on what the nulls stand for, and otherwise it is what every reading of
\* them gives, though the loop stops early (evalQuantifier, inList, equality,
\* boolOp).
NullMeansUnknown == answer # "pending" => answer \in {T, F, N} /\ Right(answer)
=============================================================================
