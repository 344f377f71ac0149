----------------------------- MODULE TagPolicy -----------------------------
(***************************************************************************)
(* Which pushed tag, if any, an app that deploys on tags follows:          *)
(* internal/tagdeploy, and the tag half of internal/webhook's glob match.  *)
(*                                                                         *)
(* A tag is abstracted to what the policy tells apart: the naming line it  *)
(* belongs to ("v" for v1.4.0, "api" for api/v1.4.0), which decides the    *)
(* patterns it matches and is stripped before parsing, and the version the *)
(* rest parses to, if it parses.                                           *)
(***************************************************************************)
EXTENDS Integers, Sequences

\* A pre-release identifier: a number, or a word by its place in ASCII order.
Num(n)  == [digits |-> TRUE, val |-> n]
Word(k) == [digits |-> FALSE, val |-> k]

Tagged(line, nums, pre) == [line |-> line, parses |-> TRUE, nums |-> nums, pre |-> pre]
Unversioned(line) == [line |-> line, parses |-> FALSE, nums |-> <<0, 0, 0>>, pre |-> <<>>]

\* What ParseVersion returns: three numbers and a list of identifiers.
IsVersion(t) ==
  /\ t = Tagged(t.line, t.nums, t.pre)
  /\ t.nums \in [1..3 -> Nat]
  /\ t.pre \in Seq([digits : BOOLEAN, val : Nat])

\* deployments.tag = '': the attempt builds no tag.
NoTag == Unversioned("")

IsPrerelease(v) == v.pre # <<>>

Sign(a, b) == IF a < b THEN -1 ELSE IF a > b THEN 1 ELSE 0

\* The first place where two sequences differ: a set of at most one index.
FirstDiff(s, t) ==
  {i \in DOMAIN s \cap DOMAIN t : s[i] # t[i] /\ \A j \in 1..(i - 1) : s[j] = t[j]}

\* Numbers numerically, below words, which go in ASCII order.
compareIdent(a, b) ==
  IF a.digits = b.digits THEN Sign(a.val, b.val) ELSE IF a.digits THEN -1 ELSE 1

\* SemVer 2.0 precedence: numbers, then a release above its pre-releases, then
\* identifier by identifier, and the longer list of them last.
Compare(v, o) ==
  IF \E i \in FirstDiff(v.nums, o.nums) : TRUE
    THEN LET i == CHOOSE i \in FirstDiff(v.nums, o.nums) : TRUE
         IN Sign(v.nums[i], o.nums[i])
  ELSE IF ~IsPrerelease(v) \/ ~IsPrerelease(o)
    THEN Sign(IF IsPrerelease(v) THEN 0 ELSE 1, IF IsPrerelease(o) THEN 0 ELSE 1)
  ELSE IF \E i \in FirstDiff(v.pre, o.pre) : TRUE
    THEN LET i == CHOOSE i \in FirstDiff(v.pre, o.pre) : TRUE
         IN compareIdent(v.pre[i], o.pre[i])
  ELSE Sign(Len(v.pre), Len(o.pre))

-----------------------------------------------------------------------------

\* A policy is the set of lines its pattern matches, and whether pre-releases count.
MatchGlob(p, t) == t.line \in p.lines

Eligible(p, t) == MatchGlob(p, t) /\ (t.parses /\ IsPrerelease(t) => p.pre)

\* The places of s whose tag is eligible and has a version.
Candidates(p, s) == {i \in DOMAIN s : Eligible(p, s[i]) /\ s[i].parses}

\* Mutant of Best: the last one.
BestLast(p, s) == CHOOSE i \in Candidates(p, s) : \A j \in Candidates(p, s) : j <= i

\* The first of them that none exceeds.
Best(p, s) ==
  CHOOSE i \in Candidates(p, s) :
    \A j \in Candidates(p, s) :
      /\ Compare(s[j], s[i]) <= 0
      /\ j < i => Compare(s[j], s[i]) < 0

\* The tags in play that the high-water mark is the highest of.
Marks(p, inPlay) == {t \in inPlay : MatchGlob(p, t) /\ t.parses}

\* The tag to deploy of those a push created, NoTag for none: the highest one, if
\* it is newer than every tag in play; without a version among them, the last.
Decide(p, pushed, inPlay) ==
  LET eligible == {i \in DOMAIN pushed : Eligible(p, pushed[i])}
      best == pushed[Best(p, pushed)]
  IN IF eligible = {} THEN NoTag
     ELSE IF Candidates(p, pushed) = {}
       THEN pushed[CHOOSE i \in eligible : \A j \in eligible : j <= i]
     ELSE IF \E m \in Marks(p, inPlay) : Compare(best, m) <= 0 THEN NoTag
     ELSE best

\* The newest tags of a repository a Deploy click may build: more than one only
\* when they have the same version.
Newest(p, tags) ==
  {t \in tags : /\ Eligible(p, t) /\ t.parses
                /\ \A u \in tags : Eligible(p, u) /\ u.parses => Compare(u, t) <= 0}

-----------------------------------------------------------------------------

\* SemVer's own definition: a version is the list of its numbers and identifiers,
\* with a marker above every identifier where a release has none, and versions go
\* in lexicographic order.
Key(v) ==
  [i \in 1..3 |-> <<0, v.nums[i]>>] \o
  (IF v.pre = <<>> THEN << <<2, 0>> >>
   ELSE [i \in DOMAIN v.pre |-> <<IF v.pre[i].digits THEN 0 ELSE 1, v.pre[i].val>>])

KeyLess(a, b) == a[1] < b[1] \/ (a[1] = b[1] /\ a[2] < b[2])

Precedes(v, o) ==
  LET k == Key(v)
      l == Key(o)
  IN \/ \E i \in DOMAIN k \cap DOMAIN l :
          KeyLess(k[i], l[i]) /\ \A j \in 1..(i - 1) : k[j] = l[j]
     \/ Len(k) < Len(l) /\ \A j \in DOMAIN k : k[j] = l[j]

=============================================================================
