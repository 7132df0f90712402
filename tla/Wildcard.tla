------------------------------ MODULE Wildcard ------------------------------
(***************************************************************************)
(* wildcard: the loop that matches a pattern with "*" and "?" against a    *)
(* name, going back to the last "*" on a mismatch.  Indices start at 1.    *)
(* A name may hold a "*": the objects of a bucket are asked for as "b/*".  *)
(***************************************************************************)
EXTENDS Naturals, Sequences

CONSTANTS Letters,       \* characters of names
          MaxPattern, MaxName  \* bounds on the lengths

\* Assumed where the constants get their values.
BoundAssumption == {MaxPattern, MaxName} \subseteq Nat

VARIABLES pattern, name,
          si, pi,  \* next characters of the name and the pattern
          star,    \* last "*" of the pattern met, 0 before the first
          ss,      \* where what it stands for ends in the name
          result

vars == <<pattern, name, si, pi, star, ss, result>>

Words(set, n) == UNION {[1..k -> set] : k \in 0..n}

TypeOK ==
  /\ pattern \in Words(Letters \cup {"*", "?"}, MaxPattern) /\ name \in Words(Letters, MaxName)
  /\ si \in 1..(Len(name) + 1) /\ pi \in 1..(Len(pattern) + 1)
  /\ star \in 0..Len(pattern) /\ ss \in 1..(Len(name) + 1)
  /\ result \in {"running", "match", "mismatch"}

Init ==
  /\ pattern \in Words(Letters \cup {"*", "?"}, MaxPattern) /\ name \in Words(Letters, MaxName)
  /\ si = 1 /\ pi = 1 /\ star = 0 /\ ss = 1
  /\ result = "running"

InName == result = "running" /\ si <= Len(name)
AtPattern(chars) == pi <= Len(pattern) /\ pattern[pi] \in chars

MatchOne ==
  /\ InName /\ AtPattern({"?", name[si]})
  /\ si' = si + 1 /\ pi' = pi + 1
  /\ UNCHANGED <<pattern, name, star, ss, result>>

MeetStar ==
  /\ InName /\ ~AtPattern({"?", name[si]}) /\ AtPattern({"*"})
  /\ star' = pi /\ ss' = si /\ pi' = pi + 1
  /\ UNCHANGED <<pattern, name, si, result>>

\* Fault: the name is resumed where it stopped.
ResumeStar ==
  /\ InName /\ ~AtPattern({"?", name[si], "*"}) /\ star # 0
  /\ pi' = star + 1 /\ ss' = ss + 1 /\ si' = si + 1
  /\ UNCHANGED <<pattern, name, star, result>>

\* Fault: the star is not made to stand for more.
RepeatStar ==
  /\ InName /\ ~AtPattern({"?", name[si], "*"}) /\ star # 0
  /\ pi' = star + 1 /\ si' = ss
  /\ UNCHANGED <<pattern, name, star, ss, result>>

\* The last star takes one character more.
BackToStar ==
  /\ InName /\ ~AtPattern({"?", name[si], "*"}) /\ star # 0
  /\ pi' = star + 1 /\ ss' = ss + 1 /\ si' = ss'
  /\ UNCHANGED <<pattern, name, star, result>>

Mismatch ==
  /\ InName /\ ~AtPattern({"?", name[si], "*"}) /\ star = 0
  /\ result' = "mismatch"
  /\ UNCHANGED <<pattern, name, si, pi, star, ss>>

\* Behind the name only stars may be left.
SkipTrailingStar ==
  /\ result = "running" /\ si > Len(name) /\ AtPattern({"*"})
  /\ pi' = pi + 1
  /\ UNCHANGED <<pattern, name, si, star, ss, result>>

End ==
  /\ result = "running" /\ si > Len(name) /\ ~AtPattern({"*"})
  /\ result' = IF pi = Len(pattern) + 1 THEN "match" ELSE "mismatch"
  /\ UNCHANGED <<pattern, name, si, pi, star, ss>>

Next == MatchOne \/ MeetStar \/ BackToStar \/ Mismatch \/ SkipTrailingStar \/ End

Spec == Init /\ [][Next]_vars

-----------------------------------------------------------------------------
(* Properties *)

\* Each of the first n characters of p, as a pattern, stands for the part of s from
\* where that of the character before ends to its own end.
Aligns(ends, p, n, s) ==
  /\ ends[0] = 0
  /\ \A i \in 1..n : IF p[i] = "*" THEN ends[i - 1] <= ends[i]
                     ELSE ends[i] = ends[i - 1] + 1 /\ p[i] \in {"?", s[ends[i]]}

Glob(p, s) ==
  \E ends \in [0..Len(p) -> 0..Len(s)] : ends[Len(p)] = Len(s) /\ Aligns(ends, p, Len(p), s)

\* "'*' (any run) and '?' (single char) globbing": trying only other lengths of
\* the last star loses no match.  Said of names without a star: one in the name
\* meets the literal comparison before the pattern's own is taken for a wildcard.
MatchIsGlob ==
  result # "running" /\ (\A i \in DOMAIN name : name[i] # "*")
    => (result = "match" <=> Glob(pattern, name))
=============================================================================
