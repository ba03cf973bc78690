---------------------------- MODULE BackupProofs ----------------------------
(***************************************************************************)
(* For any DB_BACKUP_KEEP and any number of failed passes and crashes: the *)
(* directory of the copies is bounded, and once a copy was whole a whole   *)
(* copy remains.                                                           *)
(***************************************************************************)
EXTENDS Backup, TLAPS

(* A pass that has made a copy ends with a whole one, the newest: that is  *)
(* what pruning spares, as it removes the (Keep + 1)-th from the end.      *)
NewestCopied ==
    /\ service = "down" => pass = "idle"
    /\ pass \in {"copy", "prune"} => Len(copies) > 0
    /\ pass = "prune" => copies[Len(copies)] = "whole"

IInv == CopiesBounded /\ NewestCopied

(* Another file joins the copies. *)
LEMMA CopyAdded ==
    ASSUME copies \in Seq(Copy), NEW c \in Copy
    PROVE  /\ Append(copies, c) \in Seq(Copy)
           /\ Len(Append(copies, c)) = Len(copies) + 1
OBVIOUS

(* The copy in the making becomes whole; the others stay as they are.      *)
LEMMA CopyCompleted ==
    ASSUME copies \in Seq(Copy), Len(copies) > 0, NEW s,
           s = [copies EXCEPT ![Len(copies)] = "whole"]
    PROVE  /\ s \in Seq(Copy) /\ Len(s) = Len(copies)
           /\ Len(s) \in DOMAIN s /\ s[Len(s)] = "whole"
BY DEF Copy

(* One copy that is not the newest is removed. *)
LEMMA CopyRemoved ==
    ASSUME copies \in Seq(Copy), NEW i \in 1 .. Len(copies) - 1, NEW s, s = RemoveAt(copies, i)
    PROVE  /\ s \in Seq(Copy) /\ Len(s) = Len(copies) - 1
           /\ Len(s) \in DOMAIN s /\ s[Len(s)] = copies[Len(copies)]
<1>1. /\ Len(copies) \in Nat /\ i \in Nat /\ i >= 1 /\ i <= Len(copies) - 1
  OBVIOUS
<1>2. PICK a : a = SubSeq(copies, 1, i - 1)
  OBVIOUS
<1>3. PICK b : b = SubSeq(copies, i + 1, Len(copies))
  OBVIOUS
<1>4. a \in Seq(Copy) /\ Len(a) = i - 1
  BY <1>1, <1>2
<1>5. b \in Seq(Copy) /\ Len(b) = Len(copies) - i /\ b[Len(b)] = copies[Len(copies)]
  BY <1>1, <1>3
<1>6. s = a \o b
  BY <1>2, <1>3 DEF RemoveAt
<1>7. s \in Seq(Copy) /\ Len(s) = Len(copies) - 1 /\ s[Len(s)] = b[Len(b)]
  BY <1>1, <1>4, <1>5, <1>6
<1>. QED  BY <1>1, <1>5, <1>7

(* What Prune removes is never the newest copy. *)
LEMMA PrunedCopy ==
    ASSUME copies \in Seq(Copy), NEW i \in Expired
    PROVE  i \in 1 .. Len(copies) - 1
<1>1. Len(copies) \in Nat /\ Keep \in Nat /\ Keep >= 1
  BY BackupAssumption
<1>2. Len(copies) > Keep /\ i = Len(copies) - Keep
  BY DEF Expired
<1>. QED  BY <1>1, <1>2

(* There are no copies before the first start. *)
LEMMA IInvInit ==
    ASSUME Init
    PROVE  IInv
BY BackupAssumption DEF Init, IInv, CopiesBounded, NewestCopied, TypeOK, LeftBehind

(* No pass, fault or end of the process breaks it. *)
LEMMA IInvStep ==
    ASSUME IInv, [Next]_vars
    PROVE  IInv'
<1>0. /\ TypeOK /\ NewestCopied /\ copies \in Seq(Copy) /\ Len(copies) \in Nat
      /\ Len(copies) <= Keep + broken + LeftBehind
      /\ Keep \in Nat /\ Keep >= 1 /\ broken \in Nat
      /\ MaxFaults \in Nat /\ MaxCrashes \in Nat
  BY BackupAssumption DEF IInv, CopiesBounded, TypeOK
<1> USE DEF IInv, CopiesBounded, NewestCopied, TypeOK, LeftBehind
<1>1. CASE UNCHANGED vars
  BY <1>0, <1>1 DEF vars, fileVars
<1>2. CASE Start \/ BeginPass \/ IntervalPasses
  BY <1>0, <1>2 DEF Start, BeginPass, IntervalPasses, fileVars
<1>3. CASE Cleaned
  <2>1. CASE copies' = Append(copies, "partial") /\ pass' = "copy" /\ UNCHANGED service
    <3>1. copies' \in Seq(Copy) /\ Len(copies') = Len(copies) + 1
      BY <1>0, <2>1, CopyAdded DEF Copy
    <3>2. Len(copies') <= Keep + broken' + 1 /\ service' # "down"
      BY <1>0, <1>3, <2>1, <3>1 DEF Cleaned
    <3>. QED  BY <1>0, <1>3, <2>1, <3>1, <3>2 DEF Cleaned
  <2>2. CASE Return /\ UNCHANGED copies
    BY <1>0, <1>3, <2>2 DEF Cleaned, Return
  <2>. QED  BY <1>3, <2>1, <2>2 DEF Cleaned
<1>4. CASE Copied
  <2>1. copies' \in Seq(Copy) /\ Len(copies') = Len(copies) /\ copies'[Len(copies')] = "whole"
    BY <1>0, <1>4, CopyCompleted DEF Copied
  <2>. QED  BY <1>0, <1>4, <2>1 DEF Copied
<1>5. CASE Prune
  <2>1. PICK i \in Expired : copies' = RemoveAt(copies, i)
    BY <1>5 DEF Prune
  <2>2. i \in 1 .. Len(copies) - 1
    BY <1>0, <2>1, PrunedCopy
  <2>3. /\ copies' \in Seq(Copy) /\ Len(copies') = Len(copies) - 1 /\ Len(copies) > 1
        /\ copies'[Len(copies')] = copies[Len(copies)]
    BY <1>0, <2>1, <2>2, CopyRemoved
  <2>4. UNCHANGED <<service, pass, aged, due, broken, faults, crashes>> /\ pass = "prune"
    BY <1>5 DEF Prune
  <2>5. copies[Len(copies)] = "whole" /\ service # "down" /\ Len(copies) <= Keep + broken + 1
    BY <1>0, <2>4
  <2>6. Len(copies') <= Keep + broken' + 1 /\ Len(copies') > 0 /\ Len(copies') \in Nat
    BY <1>0, <2>3, <2>4, <2>5
  <2>7. TypeOK'
    BY <1>0, <2>3, <2>4
  <2>8. pass' = "prune" /\ service' # "down" /\ LeftBehind' = 1
    BY <2>4, <2>5
  <2>9. copies'[Len(copies')] = "whole"
    BY <2>3, <2>5
  <2>. QED  BY ONLY <2>6, <2>7, <2>8, <2>9 DEF IInv, CopiesBounded, NewestCopied
<1>6. CASE Pruned
  <2>1. Len(copies) <= Keep
    BY <1>0, <1>6 DEF Pruned, Expired
  <2>2. /\ pass' = "idle" /\ service' = "up" /\ due' = FALSE /\ broken' = 0
        /\ UNCHANGED <<copies, aged, faults, crashes>>
    BY <1>6 DEF Pruned, Return, fileVars
  <2>3. Len(copies') <= Keep + broken' + 0
    BY <1>0, <2>1, <2>2
  <2>. QED  BY <1>0, <2>2, <2>3
<1>7. CASE Raises
  BY <1>0, <1>7 DEF Raises, fileVars
<1>8. CASE Crash
  BY <1>0, <1>8 DEF Crash, fileVars
<1>. QED
  BY <1>1, <1>2, <1>3, <1>4, <1>5, <1>6, <1>7, <1>8 DEF Next, PassStep

(* The types, and that the directory holds what is kept, the copy in the   *)
(* making and one copy for each pass broken off since the last full one.   *)
THEOREM DirectoryBounded == Spec => []CopiesBounded
<1>1. IInv => CopiesBounded
  BY DEF IInv
<1>. QED  BY <1>1, IInvInit, IInvStep, PTL DEF Spec

(* Once there is a whole copy there always is one: whatever raises and     *)
(* however often the process dies, partial copies never push out the last. *)
THEOREM AlwaysRestorable == Spec => WholeCopyKept
<1>1. ASSUME IInv, IInv', [Next]_vars
      PROVE  [\A i \in DOMAIN copies : copies[i] = "whole" =>
                 \E k \in DOMAIN copies' : copies'[k] = "whole"]_vars
  <2>. SUFFICES ASSUME Next, NEW i \in DOMAIN copies, copies[i] = "whole"
                PROVE  \E k \in DOMAIN copies' : copies'[k] = "whole"
    BY <1>1
  <2>0. copies \in Seq(Copy) /\ NewestCopied
    BY <1>1 DEF IInv, CopiesBounded, TypeOK
  <2>1. CASE UNCHANGED copies
    BY <2>1
  <2>2. CASE copies' = Append(copies, "partial")
    <3>1. i \in DOMAIN copies' /\ copies'[i] = "whole"
      BY <2>0, <2>2
    <3>. QED  BY <3>1
  <2>3. CASE Copied
    <3>1. Len(copies') \in DOMAIN copies' /\ copies'[Len(copies')] = "whole"
      BY <2>0, <2>3, CopyCompleted DEF Copied, NewestCopied
    <3>. QED  BY <3>1
  <2>4. CASE Prune
    <3>1. PICK k \in Expired : copies' = RemoveAt(copies, k)
      BY <2>4 DEF Prune
    <3>2. Len(copies') \in DOMAIN copies' /\ copies'[Len(copies')] = copies[Len(copies)]
      BY <2>0, <3>1, PrunedCopy, CopyRemoved
    <3>3. copies[Len(copies)] = "whole"
      BY <2>0, <2>4 DEF Prune, NewestCopied
    <3>. QED  BY <3>2, <3>3
  <2>. QED
    BY <2>1, <2>2, <2>3, <2>4 DEF Next, PassStep, Start, BeginPass, Cleaned, Pruned, Raises, Crash,
       IntervalPasses, fileVars
<1>2. QED
  BY <1>1, IInvInit, IInvStep, PTL DEF Spec, WholeCopyKept
=============================================================================
