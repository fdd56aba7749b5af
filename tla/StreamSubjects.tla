--------------------------- MODULE StreamSubjects ---------------------------
(***************************************************************************)
(* The subjects of a JetStream stream (common/natsclient/stream.go) and    *)
(* how an agent's subjects are merged into them.  A subject is the         *)
(* sequence of its tokens; "*" stands for one token and a final ">" for    *)
(* one or more.  A stream's subjects are a set: their order means nothing, *)
(* and it has none twice.                                                  *)
(***************************************************************************)
EXTENDS Naturals, SequencesExt

TokenCovers(s, f) == IF s = "*" THEN f # ">" ELSE s = f

\* Every concrete subject that matches sub matches super.
subjectCovers(super, sub) ==
  LET n == Len(super)
      m == Len(sub)
  IN  IF super[n] = ">"
      THEN m >= n /\ \A i \in 1..n - 1 : TokenCovers(super[i], sub[i])
      ELSE m = n /\ \A i \in 1..n : TokenCovers(super[i], sub[i])

anySubjectCovers(subjects, s) == \E e \in subjects : subjectCovers(e, s)

\* Where the comparison of two subjects ends: behind one of them, or at a ">".
Stops(a, b, i) ==
  i > Len(a) \/ i > Len(b) \/ a[i] = ">" \/ b[i] = ">"

\* Some concrete subject matches both.
subjectsCollide(a, b) ==
  LET i == CHOOSE i \in 1..Len(a) + 1 :
             Stops(a, b, i) /\ \A j \in 1..i - 1 : ~Stops(a, b, j)
  IN  /\ i > Len(a) <=> i > Len(b)
      /\ \A j \in 1..i - 1 : a[j] = "*" \/ b[j] = "*" \/ a[j] = b[j]

Merged(ok, subjects) == [ok |-> ok, subjects |-> subjects]

\* Mutant: the subjects that the new one covers are kept.
mergeSubject_KeepsNarrow(acc, a) ==
  IF ~acc.ok \/ anySubjectCovers(acc.subjects, a) THEN acc
  ELSE Merged(TRUE, acc.subjects \union {a})

\* One more subject: it is dropped if it is covered, it replaces what it covers,
\* and it is refused if it overlaps a subject otherwise.
mergeSubject(acc, a) ==
  LET kept == {e \in acc.subjects : ~subjectCovers(a, e)}
  IN  IF ~acc.ok \/ anySubjectCovers(acc.subjects, a) THEN acc
      ELSE IF \E e \in kept : subjectsCollide(a, e)
           THEN Merged(FALSE, acc.subjects)
           ELSE Merged(TRUE, kept \union {a})

\* An agent's subjects are merged one after the other.
mergeStreamSubjects(existing, additional) ==
  LET merged[n \in 0..Len(additional)] ==
        IF n = 0 THEN Merged(TRUE, existing) ELSE mergeSubject(merged[n - 1], additional[n])
  IN  merged[Len(additional)]

-----------------------------------------------------------------------------
\* Reference definitions: a subject stands for the concrete subjects it matches.

Wildcards == {"*", ">"}

\* Subjects over some tokens: ">" is the last token if it is one.
Subjects(Token) ==
  {s \in Seq(Token \union Wildcards) :
     Len(s) > 0 /\ \A i \in 1..Len(s) - 1 : s[i] # ">"}

ConcreteSubjects(Token) == {c \in Seq(Token) : Len(c) > 0}

Matches(s, c) ==
  \/ /\ Len(s) = Len(c)
     /\ \A i \in DOMAIN s : s[i] \in {"*", c[i]} \/ (i = Len(s) /\ s[i] = ">")
  \/ /\ s[Len(s)] = ">"
     /\ Len(c) >= Len(s)
     /\ \A i \in 1..Len(s) - 1 : s[i] \in {"*", c[i]}

Language(s, concrete) == {c \in concrete : Matches(s, c)}

\* What a stream with these subjects carries.
Carries(subjects, concrete) == UNION {Language(s, concrete) : s \in subjects}

\* NATS refuses a stream whose subjects overlap.
NoOverlap(subjects, concrete) ==
  \A s, t \in subjects :
    s # t => Language(s, concrete) \intersect Language(t, concrete) = {}
=============================================================================
