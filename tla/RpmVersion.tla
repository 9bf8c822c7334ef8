----------------------------- MODULE RpmVersion -----------------------------
(***************************************************************************)
(* The order of RPM versions (src/tools/v3_promotion_planner.py).          *)
(*                                                                         *)
(* A version is the sequence of the maximal runs its regular expressions   *)
(* take: digits, letters, a tilde, a caret, and everything else, which     *)
(* only separates.  Digits count as a number, letters as their place in    *)
(* the alphabetic order.                                                   *)
(***************************************************************************)
EXTENDS Integers, Sequences

Segment == [kind : {"number", "letters", "tilde", "caret", "separator"}, value : Nat]
Version == Seq(Segment)
Evr == [epoch : Nat, version : Version, release : Version]

Sign(x, y) == IF x > y THEN 1 ELSE IF x < y THEN -1 ELSE 0

StartsWith(v, kind) == v # <<>> /\ Head(v).kind = kind

\* Leading separators are stripped before every comparison.
Strip(v) == IF StartsWith(v, "separator") THEN Tail(v) ELSE v

\* One turn of the loop over stripped versions: the first difference decides,
\* otherwise the rest does.
Order(left, right, rest) ==
  CASE StartsWith(left, "tilde") \/ StartsWith(right, "tilde") ->
         IF ~StartsWith(left, "tilde") THEN 1
         ELSE IF ~StartsWith(right, "tilde") THEN -1 ELSE rest
    [] ~(StartsWith(left, "tilde") \/ StartsWith(right, "tilde"))
       /\ (StartsWith(left, "caret") \/ StartsWith(right, "caret")) ->
         IF left = <<>> THEN -1 ELSE IF right = <<>> THEN 1
         ELSE IF ~StartsWith(left, "caret") THEN 1
         ELSE IF ~StartsWith(right, "caret") THEN -1 ELSE rest
    [] OTHER ->
         IF left = <<>> \/ right = <<>>
         THEN IF left # <<>> THEN 1 ELSE IF right # <<>> THEN -1 ELSE 0
         ELSE IF Head(left).kind # Head(right).kind
         THEN IF Head(left).kind = "number" THEN 1 ELSE -1
         ELSE IF Head(left).value # Head(right).value
         THEN Sign(Head(left).value, Head(right).value)
         ELSE rest

VersionCompare[v \in Version \X Version] ==
  LET left == Strip(v[1])
      right == Strip(v[2])
  IN Order(left, right,
           IF left = <<>> \/ right = <<>> THEN 0
           ELSE VersionCompare[<<Tail(left), Tail(right)>>])

EvrCompare(a, b) ==
  IF a.epoch # b.epoch THEN Sign(a.epoch, b.epoch)
  ELSE IF VersionCompare[<<a.version, b.version>>] # 0
  THEN VersionCompare[<<a.version, b.version>>]
  ELSE VersionCompare[<<a.release, b.release>>]

-----------------------------------------------------------------------------
(* The documented order, stated without the loop: versions without their   *)
(* separators compare like words, where a tilde sorts before the end of    *)
(* the word, the end before a caret, a caret before letters, letters       *)
(* before numbers.                                                         *)

Rank(kind) == CASE kind = "tilde" -> 0 [] kind = "caret" -> 2
                [] kind = "letters" -> 3 [] kind = "number" -> 4

\* The key at place i; the end of the word has a key of its own.
Key(v, i) == IF i > Len(v) THEN <<1, 0>> ELSE <<Rank(v[i].kind), v[i].value>>

RpmOrder(v, w) ==
  LET a == SelectSeq(v, LAMBDA s : s.kind # "separator")
      b == SelectSeq(w, LAMBDA s : s.kind # "separator")
      apart == {i \in 1 .. Len(a) + Len(b) + 1 : Key(a, i) # Key(b, i)}
      first == CHOOSE i \in apart : \A j \in apart : i <= j
  IN IF apart = {} THEN 0
     ELSE IF Key(a, first)[1] # Key(b, first)[1]
     THEN Sign(Key(a, first)[1], Key(b, first)[1])
     ELSE Sign(Key(a, first)[2], Key(b, first)[2])

\* Evr a is older than b in that order.
Older(a, b) ==
  \/ a.epoch < b.epoch
  \/ /\ a.epoch = b.epoch
     /\ \/ RpmOrder(a.version, b.version) = -1
        \/ RpmOrder(a.version, b.version) = 0 /\ RpmOrder(a.release, b.release) = -1
=============================================================================
