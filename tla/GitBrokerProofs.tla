--------------------------- MODULE GitBrokerProofs ---------------------------
(***************************************************************************)
(* Proofs about GitBroker and the WorkspacePlan it extends, for any        *)
(* workspace, any calls, any repository, and any number of steps:          *)
(*                                                                         *)
(* what Git is shown is of one moment, whatever the user's Git renames     *)
(* into place while the copy is made;                                      *)
(*                                                                         *)
(* a plan succeeds only in the directories it was made for, whatever the   *)
(* user's programs replace;                                                *)
(*                                                                         *)
(* the walk of the workspace misses no tracked file, whatever is ignored   *)
(* and whatever the calls commit meanwhile.                                *)
(***************************************************************************)
EXTENDS GitBroker, FiniteSetTheorems, SequenceTheorems, TLAPS

-----------------------------------------------------------------------------
(* The list of what is still to be copied.                                 *)

\* The entries of one kind, those the walk of the workspace leaves behind, and the refs.
Entries(kind, set) == {Item(kind, x) : x \in set}
Walk == Entries("dir", Path) \cup Entries("file", Path)
Branches == Entries("branch", Branch)

\* The walk of the workspace goes on, and .git is its last entry.
Walking(t) ==
  \/ t = <<Item("dir", Root)>>
  \/ \E s \in Seq(Walk) : t = s \o <<Item("git", Root)>>

\* What is left of .git once its files have been copied, and before each of them.
RefsOn == <<Item("refs", Root), Item("pack", Root), Item("loose", Root)>>

AtRefs(t) == t = RefsOn
AtPacked(t) == t = <<Item("packed-refs", Root)>> \o RefsOn
AfterIndex(t) == AtRefs(t) \/ AtPacked(t)
AtIndex(t) == \E u : AfterIndex(u) /\ t = <<Item("index", Root)>> \o u
AtConfig(t) == \E u : AtIndex(u) /\ t = <<Item("config", Root)>> \o u
AtHead(t) == \E u : AtConfig(u) /\ t = <<Item("HEAD", Root)>> \o u

\* The same where there was no index when .git was listed.
BareConfig(t) == \E u : AfterIndex(u) /\ t = <<Item("config", Root)>> \o u
BareHead(t) == \E u : BareConfig(u) /\ t = <<Item("HEAD", Root)>> \o u

\* The refs are being looked at; then the objects.
Branching(t) == \E s \in Seq(Branches) : t = s \o <<Item("pack", Root), Item("loose", Root)>>
AtLoose(t) == t = <<Item("loose", Root)>>

\* The stages of a copy, each of which contains the one before it: the index is still to be read,
\* refs is still to be listed, the packs are still to be copied.
IndexToCome(t) == Walking(t) \/ AtHead(t) \/ AtConfig(t) \/ AtIndex(t)
RefsToCome(t) == IndexToCome(t) \/ BareHead(t) \/ BareConfig(t) \/ AfterIndex(t)
PackToCome(t) == RefsToCome(t) \/ Branching(t)
Whole(t) == PackToCome(t) \/ AtLoose(t) \/ t = <<>>

\* SetToSeq lists a set, each member once.
LEMMA SetOrdered ==
  ASSUME NEW set, IsFiniteSet(set)
  PROVE  /\ Cardinality(set) \in Nat
         /\ Seqs!SetToSeq(set) \in [1..Cardinality(set) -> set]
         /\ \A x \in set : \E i \in 1..Cardinality(set) : Seqs!SetToSeq(set)[i] = x
  <1> DEFINE N == Cardinality(set)
             order == Seqs!SetToSeq(set)
  <1>1. N \in Nat /\ ExistsBijection(1..N, set)  BY FS_CardinalityType
  <1>2. PICK f \in [1..N -> set] : \A i, j \in 1..N : f[i] = f[j] => i = j
    BY <1>1 DEF ExistsBijection, Bijection, Injection, IsInjective
  <1>3. Seqs!IsInjective(f)  BY <1>2 DEF Seqs!IsInjective
  <1>4. order = CHOOSE g \in [1..N -> set] : Seqs!IsInjective(g)
    BY DEF Seqs!SetToSeq, Seqs!Cardinality, Cardinality
  <1>5. order \in [1..N -> set] /\ Seqs!IsInjective(order)  BY <1>2, <1>3, <1>4, Zenon
  <1>6. order \in Injection(1..N, set)  BY <1>5 DEF Injection, IsInjective, Seqs!IsInjective
  <1>7. Cardinality(1..N) = N /\ IsFiniteSet(1..N)  BY <1>1, FS_Interval
  <1> HIDE DEF order, N
  <1>8. order \in Surjection(1..N, set)  BY <1>6, <1>7, FS_Injection DEF N
  <1>9. \A x \in set : \E i \in 1..N : order[i] = x  BY <1>8 DEF Surjection
  <1> QED  BY <1>1, <1>5, <1>9 DEF N, order

\* Items lists entries of its kind, in some order.
LEMMA ItemsListed ==
  ASSUME NEW kind, NEW set, IsFiniteSet(set)
  PROVE  Items(kind, set) \in Seq(Entries(kind, set))
  <1> DEFINE N == Cardinality(set)
             order == Seqs!SetToSeq(set)
  <1>1. N \in Nat /\ order \in [1..N -> set]  BY SetOrdered
  <1>2. Items(kind, set) = [i \in 1..N |-> Item(kind, order[i])]  BY <1>1 DEF Items
  <1> HIDE DEF order, N
  <1>3. Items(kind, set) \in [1..N -> Entries(kind, set)]  BY <1>1, <1>2, Zenon DEF Entries
  <1> QED  BY <1>1, <1>3

\* The first entry of a list is that of its first part.
LEMMA HeadOfConcat ==
  ASSUME NEW S, NEW s \in Seq(S), NEW T, NEW t \in Seq(T), s # <<>>
  PROVE  /\ Head(s \o t) = Head(s) /\ Tail(s \o t) = Tail(s) \o t
         /\ Head(s) \in S /\ Tail(s) \in Seq(S) /\ s \o t # <<>>
<1>. s \in Seq(S \cup T) /\ t \in Seq(S \cup T)
  OBVIOUS
<1> QED OBVIOUS

\* Taking an entry off the walk, and putting what a directory holds in its place, leaves a walk.
LEMMA WalkStep ==
  ASSUME NEW t, Walking(t), t # <<>>
  PROVE  /\ Head(t).kind \in {"dir", "file", "git"}
         /\ Head(t).kind = "git" => Tail(t) = <<>>
         /\ Head(t).kind = "file" => Walking(<<>> \o Tail(t)) /\ Head(t).of \in Path
         /\ Head(t).kind = "dir" =>
              \A more \in Seq(Walk) :
                IF Head(t).of = Root THEN Walking((more \o <<Item("git", Root)>>) \o Tail(t))
                ELSE Walking((more \o <<>>) \o Tail(t))
<1> DEFINE git == Item("git", Root)
<1>1. CASE t = <<Item("dir", Root)>>
  <2>1. Head(t).kind = "dir" /\ Head(t).of = Root /\ Tail(t) = <<>>
      BY <1>1 DEF Item
  <2>2. ASSUME NEW more \in Seq(Walk)
        PROVE  Walking((more \o <<git>>) \o Tail(t))
    <3>1. (more \o <<git>>) \o Tail(t) = more \o <<git>>
        BY <2>1, more \o <<git>> \in Seq(Walk \cup {git}), ConcatEmptySeq
    <3> QED  BY <3>1 DEF Walking
  <2> QED  BY <2>1, <2>2
<1>2. ASSUME NEW s \in Seq(Walk), t = s \o <<git>>
      PROVE  /\ Head(t).kind \in {"dir", "file", "git"}
             /\ Head(t).kind = "git" => Tail(t) = <<>>
             /\ Head(t).kind = "file" => Walking(<<>> \o Tail(t)) /\ Head(t).of \in Path
             /\ Head(t).kind = "dir" => Head(t).of \in Path
             /\ Head(t).kind = "dir" =>
                  \A more \in Seq(Walk) : Walking((more \o <<>>) \o Tail(t))
  <2>1. CASE s = <<>>
    <3>1. t = <<git>>
        BY <1>2, <2>1
    <3> QED  BY <3>1 DEF Item
  <2>2. CASE s # <<>>
    <3>1. /\ Head(t) = Head(s) /\ Tail(t) = Tail(s) \o <<git>>
          /\ Head(s) \in Walk /\ Tail(s) \in Seq(Walk)
        BY <1>2, <2>2, HeadOfConcat, <<git>> \in Seq({git}) DEF Walk
    <3>2. Head(t).kind \in {"dir", "file"} /\ Head(t).of \in Path
        BY <3>1 DEF Walk, Entries, Item
    <3>3. Walking(<<>> \o Tail(t))
      <4>1. Tail(t) = <<>> \o Tail(t)
          BY <3>1
      <4> QED  BY <3>1, <4>1 DEF Walking
    <3>4. ASSUME NEW more \in Seq(Walk)
          PROVE  Walking((more \o <<>>) \o Tail(t))
      <4>1. more \o Tail(s) \in Seq(Walk)
          BY <3>1
      <4>2. more \o <<>> = more
          BY ConcatEmptySeq
      <4>3. (more \o <<>>) \o Tail(t) = (more \o Tail(s)) \o <<git>>
        <5> DEFINE U == Walk \cup {git}
        <5>1. more \in Seq(U) /\ Tail(s) \in Seq(U) /\ <<git>> \in Seq(U)
            BY <3>1
        <5> HIDE DEF U
        <5>2. (more \o Tail(s)) \o <<git>> = more \o (Tail(s) \o <<git>>)
            BY <5>1, ConcatAssociative
        <5> QED  BY <3>1, <4>2, <5>2
      <4> QED  BY <4>1, <4>3 DEF Walking
    <3> QED  BY <3>2, <3>3, <3>4
  <2> QED  BY <2>1, <2>2
<1> QED  BY <1>1, <1>2, PathAssumption DEF Walking

\* One entry taken off the list.
LEMMA FirstOfConcat ==
  ASSUME NEW T, NEW x \in T, NEW u \in Seq(T)
  PROVE  /\ <<x>> \o u \in Seq(T) /\ <<x>> \o u # <<>>
         /\ Head(<<x>> \o u) = x /\ <<>> \o Tail(<<x>> \o u) = u
  OBVIOUS

\* ListGit puts the files of .git in the order of their names.
LEMMA ListBegins ==
  ASSUME NEW index \in {<<>>, <<Item("index", Root)>>},
         NEW packed \in {<<>>, <<Item("packed-refs", Root)>>}
  PROVE  LET list == (<<Item("HEAD", Root), Item("config", Root)>> \o index \o packed
                       \o <<Item("refs", Root), Item("pack", Root), Item("loose", Root)>>) \o <<>>
         IN  (index # <<>> => AtHead(list)) /\ (index = <<>> => BareHead(list))
<1> DEFINE H == Item("HEAD", Root)
           C == Item("config", Root)
           I == Item("index", Root)
           P == Item("packed-refs", Root)
           list == (<<H, C>> \o index \o packed \o RefsOn) \o <<>>
<1> SUFFICES (index # <<>> => AtHead(list)) /\ (index = <<>> => BareHead(list))
    BY DEF RefsOn
<1>a. <<I>> # <<>>
    OBVIOUS
<1>1. CASE packed = <<>>
  <2>1. AfterIndex(RefsOn)
      BY DEF AfterIndex, AtRefs
  <2>2. ASSUME index = <<I>>  PROVE list = <<H>> \o (<<C>> \o (<<I>> \o RefsOn))
      BY <1>1, <2>2 DEF RefsOn
  <2>3. ASSUME index = <<>>  PROVE list = <<H>> \o (<<C>> \o RefsOn)
      BY <1>1, <2>3 DEF RefsOn
  <2> HIDE DEF list
  <2> QED  BY <1>a, <2>1, <2>2, <2>3, Zenon DEF AtIndex, AtConfig, AtHead, BareConfig, BareHead
<1>2. CASE packed = <<P>>
  <2>1. AfterIndex(<<P>> \o RefsOn)
      BY DEF AfterIndex, AtPacked
  <2>2. ASSUME index = <<I>>  PROVE list = <<H>> \o (<<C>> \o (<<I>> \o (<<P>> \o RefsOn)))
      BY <1>2, <2>2 DEF RefsOn
  <2>3. ASSUME index = <<>>  PROVE list = <<H>> \o (<<C>> \o (<<P>> \o RefsOn))
      BY <1>2, <2>3 DEF RefsOn
  <2> HIDE DEF list
  <2> QED  BY <1>a, <2>1, <2>2, <2>3, Zenon DEF AtIndex, AtConfig, AtHead, BareConfig, BareHead
<1> QED  BY <1>1, <1>2

\* The order in which the files of .git are taken, whatever stands between index and refs.
LEMMA ListStep ==
  ASSUME NEW t
  PROVE  /\ AtHead(t) => t # <<>> /\ Head(t).kind = "HEAD" /\ AtConfig(<<>> \o Tail(t))
         /\ AtConfig(t) => t # <<>> /\ Head(t).kind = "config" /\ AtIndex(<<>> \o Tail(t))
         /\ BareHead(t) => t # <<>> /\ Head(t).kind = "HEAD" /\ BareConfig(<<>> \o Tail(t))
         /\ BareConfig(t) => t # <<>> /\ Head(t).kind = "config" /\ AfterIndex(<<>> \o Tail(t))
         /\ AtIndex(t) => t # <<>> /\ Head(t).kind = "index" /\ AfterIndex(<<>> \o Tail(t))
         /\ AtPacked(t) => t # <<>> /\ Head(t).kind = "packed-refs" /\ AtRefs(<<>> \o Tail(t))
         /\ AtRefs(t) =>
              /\ t # <<>> /\ Head(t).kind = "refs"
              /\ \A more \in Seq(Branches) : Branching(more \o Tail(t))
         /\ AtLoose(t) => t # <<>> /\ Head(t).kind = "loose" /\ <<>> \o Tail(t) = <<>>
<1> DEFINE T == {Item("HEAD", Root), Item("config", Root), Item("index", Root),
                Item("packed-refs", Root), Item("refs", Root), Item("pack", Root),
                Item("loose", Root)}
<1>1. \A u : AtRefs(u) => u \in Seq(T)
    BY DEF AtRefs, RefsOn
<1>2. \A u : AtPacked(u) => u \in Seq(T)
    BY <1>1, FirstOfConcat DEF AtRefs, AtPacked
<1>b. \A u : AfterIndex(u) => u \in Seq(T)
    BY <1>1, <1>2 DEF AfterIndex
<1>3. \A u : AtIndex(u) => u \in Seq(T)
    BY <1>b, FirstOfConcat DEF AtIndex
<1>4. \A u : AtConfig(u) => u \in Seq(T)
    BY <1>3, FirstOfConcat DEF AtConfig
<1>e. \A u : BareConfig(u) => u \in Seq(T)
    BY <1>b, FirstOfConcat DEF BareConfig
<1>a. Item("HEAD", Root) \in T /\ Item("config", Root) \in T /\ Item("index", Root) \in T
      /\ Item("packed-refs", Root) \in T
    OBVIOUS
<1> HIDE DEF T
<1>5. ASSUME AtHead(t)
      PROVE  t # <<>> /\ Head(t) = Item("HEAD", Root) /\ (AtConfig(<<>> \o Tail(t)))
  <2>1. PICK u : AtConfig(u) /\ t = <<Item("HEAD", Root)>> \o u
      BY <1>5 DEF AtHead
  <2>2. u \in Seq(T)
      BY <2>1, <1>4
  <2>3. t # <<>> /\ Head(t) = Item("HEAD", Root) /\ <<>> \o Tail(t) = u
      BY <2>1, <2>2, <1>a, FirstOfConcat
  <2> QED  BY <2>1, <2>3
<1>6. ASSUME AtConfig(t)
      PROVE  t # <<>> /\ Head(t) = Item("config", Root) /\ (AtIndex(<<>> \o Tail(t)))
  <2>1. PICK u : AtIndex(u) /\ t = <<Item("config", Root)>> \o u
      BY <1>6 DEF AtConfig
  <2>2. u \in Seq(T)
      BY <2>1, <1>3
  <2>3. t # <<>> /\ Head(t) = Item("config", Root) /\ <<>> \o Tail(t) = u
      BY <2>1, <2>2, <1>a, FirstOfConcat
  <2> QED  BY <2>1, <2>3
<1>c. ASSUME BareHead(t)
      PROVE  t # <<>> /\ Head(t) = Item("HEAD", Root) /\ (BareConfig(<<>> \o Tail(t)))
  <2>1. PICK u : BareConfig(u) /\ t = <<Item("HEAD", Root)>> \o u
      BY <1>c DEF BareHead
  <2>2. u \in Seq(T)
      BY <2>1, <1>e
  <2>3. t # <<>> /\ Head(t) = Item("HEAD", Root) /\ <<>> \o Tail(t) = u
      BY <2>1, <2>2, <1>a, FirstOfConcat
  <2> QED  BY <2>1, <2>3
<1>d. ASSUME BareConfig(t)
      PROVE  t # <<>> /\ Head(t) = Item("config", Root) /\ (AfterIndex(<<>> \o Tail(t)))
  <2>1. PICK u : AfterIndex(u) /\ t = <<Item("config", Root)>> \o u
      BY <1>d DEF BareConfig
  <2>2. u \in Seq(T)
      BY <2>1, <1>b
  <2>3. t # <<>> /\ Head(t) = Item("config", Root) /\ <<>> \o Tail(t) = u
      BY <2>1, <2>2, <1>a, FirstOfConcat
  <2> QED  BY <2>1, <2>3
<1>7. ASSUME AtIndex(t)
      PROVE  t # <<>> /\ Head(t) = Item("index", Root) /\ (AfterIndex(<<>> \o Tail(t)))
  <2>1. PICK u : AfterIndex(u) /\ t = <<Item("index", Root)>> \o u
      BY <1>7 DEF AtIndex
  <2>2. u \in Seq(T)
      BY <2>1, <1>b
  <2>3. t # <<>> /\ Head(t) = Item("index", Root) /\ <<>> \o Tail(t) = u
      BY <2>1, <2>2, <1>a, FirstOfConcat
  <2> QED  BY <2>1, <2>3
<1>8. AtPacked(t) =>
        t # <<>> /\ Head(t) = Item("packed-refs", Root) /\ AtRefs(<<>> \o Tail(t))
    BY <1>1, <1>a, FirstOfConcat DEF AtPacked, AtRefs
<1>9. AtRefs(t) =>
        /\ t # <<>> /\ Head(t) = Item("refs", Root)
        /\ Tail(t) = <<Item("pack", Root), Item("loose", Root)>>
    BY DEF AtRefs, RefsOn
<1>10. AtRefs(t) => \A more \in Seq(Branches) : Branching(more \o Tail(t))
    BY <1>9, Zenon DEF Branching
<1>11. AtLoose(t) => t # <<>> /\ Head(t) = Item("loose", Root) /\ <<>> \o Tail(t) = <<>>
    BY DEF AtLoose
<1> QED  BY <1>5, <1>6, <1>7, <1>8, <1>9, <1>10, <1>11, <1>c, <1>d DEF Item

\* The refs are taken one by one, then objects/pack, then the loose objects.
LEMMA BranchStep ==
  ASSUME NEW t, Branching(t)
  PROVE  /\ t # <<>> /\ Head(t).kind \in {"branch", "pack"}
         /\ Head(t).kind = "branch" => Branching(<<>> \o Tail(t))
         /\ Head(t).kind = "pack" => AtLoose(<<>> \o Tail(t))
<1> DEFINE end == <<Item("pack", Root), Item("loose", Root)>>
           Ends == {Item("pack", Root), Item("loose", Root)}
<1>1. PICK s \in Seq(Branches) : t = s \o end
    BY DEF Branching
<1>2. CASE s = <<>>
  <2>1. t = end
      BY <1>1, <1>2
  <2> QED  BY <2>1 DEF Item, AtLoose
<1>3. CASE s # <<>>
  <2>1. /\ Head(t) = Head(s) /\ Tail(t) = Tail(s) \o end /\ t # <<>>
        /\ Head(s) \in Branches /\ Tail(s) \in Seq(Branches)
      BY <1>1, <1>3, HeadOfConcat, end \in Seq(Ends)
  <2>2. Head(t).kind = "branch"
      BY <2>1 DEF Branches, Entries, Item
  <2>3. Branching(<<>> \o Tail(t))
    <3>1. Tail(t) = <<>> \o Tail(t)
        BY <2>1
    <3> QED  BY <2>1, <3>1 DEF Branching
  <2> QED  BY <2>1, <2>2, <2>3
<1> QED  BY <1>2, <1>3

-----------------------------------------------------------------------------
(* The inductive invariant.                                                *)

\* The commits of a repository; what its refs may hold.
Commits(r) == r.unpacked \cup r.pack
Refs(r) == [Branch -> Commits(r) \cup {NoCommit}]
NoRefs == [b \in Branch |-> NoCommit]

\* The user's repository: no action of his leaves its shape, and commits are numbered.
RepositoryRecord(r) ==
  r = [head |-> r.head, loose |-> r.loose, packed |-> r.packed, index |-> r.index,
       unpacked |-> r.unpacked, pack |-> r.pack, repacked |-> r.repacked]

RepositoryOK ==
  /\ RepositoryRecord(repo)
  /\ repo.head \in Branch /\ repo.loose \in Refs(repo) /\ repo.packed \in Refs(repo)
  /\ IsFiniteSet(Commits(repo)) /\ Commits(repo) = 1..Cardinality(Commits(repo))

\* The copy: its refs are of the repository, which loses no commit.
CopyRecord(c) ==
  c = [head |-> c.head, loose |-> c.loose, packed |-> c.packed, index |-> c.index,
       objects |-> c.objects, files |-> c.files, pruned |-> c.pruned]

CopyOK ==
  /\ CopyRecord(copy)
  /\ copy.head \in Branch /\ copy.loose \in Refs(repo) /\ copy.packed \in Refs(repo)

\* The stages before the first file is copied.
Planning == {"idle", "prune", "head", "packed", "ref"}

\* The HEAD commit and the index of this moment are remembered.
SeenNow == stage \notin {"idle", "ended", "failed"} => Pair(repo) \in seen

\* While the copy is planned nothing but HEAD, packed-refs and the index is held, and no ref is

\* known to be absent but packed-refs.
NotYet ==
  stage \in Planning =>
    /\ todo = <<>> /\ copy.loose = NoRefs
    /\ pins \subseteq {"index", "HEAD", "packed-refs"} /\ absent \subseteq {"packed-refs"}
    /\ stage \in {"idle", "prune", "head", "packed"} =>
         copy.packed = NoRefs /\ absent = {} /\ "packed-refs" \notin pins

\* _hold_projection_file: what is held is in the copy as it is in the repository.
PinsHold ==
  stage \in Planning \cup {"copy"} =>
    /\ copy.index = IF "index" \in pins THEN repo.index ELSE NoIndex
    /\ stage \in {"packed", "ref", "copy"} => "HEAD" \in pins /\ copy.head = repo.head
    /\ "packed-refs" \in pins => copy.packed = repo.packed
    /\ stage = "copy" /\ copy.head \in pins => copy.loose[copy.head] = repo.loose[copy.head]

\* Of packed-refs and of the ref that HEAD names each is held, or was absent when it was looked for.
Covered ==
  /\ stage \in {"ref", "copy"} => "packed-refs" \in pins \/ copy.packed = NoRefs
  /\ stage = "copy" =>
       copy.head \in pins \/ (copy.head \in absent /\ copy.loose[copy.head] = NoCommit)

\* The copy takes its entries in the order of the code.
Shape == stage = "copy" => Whole(todo)

\* The ref that HEAD names had no file; its commit was read from packed-refs, which is held.
Stays == copy.head \in absent /\ "packed-refs" \in pins

\* Such a ref cannot come back with the commit that packed-refs holds: a file appears with a commit

\* nobody had before, and git pack-refs cannot replace packed-refs.
KeptAbsent ==
  stage = "copy" /\ Stays =>
    repo.loose[copy.head] = NoCommit \/ repo.loose[copy.head] # repo.packed[copy.head]

\* The user committed meanwhile: ListRefs will find the file that was absent and refuse.
Doomed == Stays /\ repo.loose[copy.head] # NoCommit /\ RefsToCome(todo)

\* Unless the index is still to be read, HEAD's commit and the index in the copy are of one moment,
\* or the copy will be refused, or HEAD has no commit (where no handle could be kept).
Moment ==
  stage = "copy" =>
    \/ "index" \notin pins /\ IndexToCome(todo)
    \/ Pair(copy) \in seen \/ Unborn(copy) \/ Doomed

\* The objects are copied after the refs, packs first; without a repack the copied commit is there.
Objects ==
  stage = "copy" /\ ~repo.repacked =>
    /\ PackToCome(todo) \/ repo.pack \subseteq copy.objects
    /\ PackToCome(todo) \/ AtLoose(todo) \/ Resolved(copy) \in copy.objects \cup {NoCommit}

\* What a command of Git is shown.
Shown ==
  stage = "run" =>
    /\ Pair(copy) \in seen \/ Unborn(copy)
    /\ Resolved(copy) \in copy.objects \cup {NoCommit} \/ repo.repacked

\* The handles, and the copying.  A command that names other refs is promised none of this.
Pinning == CopyOK /\ SeenNow /\ NotYet /\ PinsHold /\ Covered
Copying == Shape /\ KeptAbsent /\ Moment /\ Objects /\ Shown

GitInv == RepositoryOK /\ (~FullRefs => Pinning /\ Copying)

\* Which entry is first says how far the copy has come.
LEMMA Phases ==
  ASSUME NEW t
  PROVE  /\ IndexToCome(t) =>
              /\ t # <<>>
              /\ Head(t).kind \in {"dir", "file", "git", "HEAD", "config", "index"}
         /\ RefsToCome(t) =>
              /\ t # <<>>
              /\ Head(t).kind \in {"dir", "file", "git", "HEAD", "config", "index",
                                   "packed-refs", "refs"}
         /\ PackToCome(t) =>
              /\ t # <<>>
              /\ Head(t).kind \in {"dir", "file", "git", "HEAD", "config", "index",
                                   "packed-refs", "refs", "branch", "pack"}
         /\ Whole(t) /\ t # <<>> =>
              /\ Head(t).kind \in {"dir", "file", "git"} => Walking(t)
              /\ Head(t).kind = "HEAD" => AtHead(t) \/ BareHead(t)
              /\ Head(t).kind = "config" => AtConfig(t) \/ BareConfig(t)
              /\ Head(t).kind = "index" => AtIndex(t)
              /\ Head(t).kind = "packed-refs" => AtPacked(t)
              /\ Head(t).kind = "refs" => AtRefs(t)
              /\ Head(t).kind \in {"branch", "pack"} => Branching(t)
              /\ Head(t).kind = "loose" => AtLoose(t)
<1>1. Walking(t) => t # <<>>
  <2>1. \A s \in Seq(Walk) : s \o <<Item("git", Root)>> # <<>>
      OBVIOUS
  <2> QED  BY <2>1 DEF Walking
<1>2. Walking(t) => Head(t).kind \in {"dir", "file", "git"}
    BY <1>1, WalkStep
<1>3. Branching(t) => t # <<>> /\ Head(t).kind \in {"branch", "pack"}
    BY BranchStep
<1> QED  BY <1>1, <1>2, <1>3, ListStep DEF IndexToCome, RefsToCome, PackToCome, Whole, AfterIndex

-----------------------------------------------------------------------------
(* Assignments to the copy.                                                *)

\* A copy with these values.
CopyIs(c, head, loose, packed, index, objects) ==
  /\ CopyRecord(c)
  /\ c.head = head /\ c.loose = loose /\ c.packed = packed /\ c.index = index
  /\ c.objects = objects

\* What an assignment to one field of the copy leaves of the others.
LEMMA SetHead ==
  ASSUME NEW c, CopyRecord(c), NEW v
  PROVE  CopyIs([c EXCEPT !.head = v], v, c.loose, c.packed, c.index, c.objects)
  BY DEF CopyRecord, CopyIs

\* Its loose refs are read.
LEMMA SetLoose ==
  ASSUME NEW c, CopyRecord(c), NEW v
  PROVE  CopyIs([c EXCEPT !.loose = v], c.head, v, c.packed, c.index, c.objects)
  BY DEF CopyRecord, CopyIs

\* Its packed refs are read.
LEMMA SetPacked ==
  ASSUME NEW c, CopyRecord(c), NEW v
  PROVE  CopyIs([c EXCEPT !.packed = v], c.head, c.loose, v, c.index, c.objects)
  BY DEF CopyRecord, CopyIs

\* Its index is read.
LEMMA SetIndex ==
  ASSUME NEW c, CopyRecord(c), NEW v
  PROVE  CopyIs([c EXCEPT !.index = v], c.head, c.loose, c.packed, v, c.objects)
  BY DEF CopyRecord, CopyIs

\* Directories are left out.
LEMMA SetPruned ==
  ASSUME NEW c, CopyRecord(c), NEW v
  PROVE  CopyIs([c EXCEPT !.pruned = v], c.head, c.loose, c.packed, c.index, c.objects)
  BY DEF CopyRecord, CopyIs

\* A file is copied.
LEMMA SetFiles ==
  ASSUME NEW c, CopyRecord(c), NEW v
  PROVE  CopyIs([c EXCEPT !.files = v], c.head, c.loose, c.packed, c.index, c.objects)
  BY DEF CopyRecord, CopyIs

\* Objects are copied.
LEMMA SetObjects ==
  ASSUME NEW c, CopyRecord(c), NEW v
  PROVE  CopyIs([c EXCEPT !.objects = v], c.head, c.loose, c.packed, c.index, v)
  BY DEF CopyRecord, CopyIs

\* The index is read, and what it leaves untracked is left out.
LEMMA SetIndexAndPruned ==
  ASSUME NEW c, CopyRecord(c), NEW v, NEW w
  PROVE  CopyIs([c EXCEPT !.index = v, !.pruned = w], c.head, c.loose, c.packed, v, c.objects)
<1> DEFINE d == [c EXCEPT !.index = v]
<1>1. [c EXCEPT !.index = v, !.pruned = w] = [d EXCEPT !.pruned = w]
    BY DEF CopyRecord
<1>2. CopyIs(d, c.head, c.loose, c.packed, v, c.objects)
    BY SetIndex
<1> HIDE DEF d
<1>3. CopyIs([d EXCEPT !.pruned = w], d.head, d.loose, d.packed, d.index, d.objects)
    BY <1>2, SetPruned DEF CopyIs
<1> QED  BY <1>1, <1>2, <1>3 DEF CopyIs

-----------------------------------------------------------------------------
(* The user's Git.                                                         *)

\* The fields of a repository.
LEMMA RepositoryFields ==
  ASSUME NEW r, NEW head, NEW loose, NEW packed, NEW index, NEW unpacked, NEW pack, NEW repacked,
         r = [head |-> head, loose |-> loose, packed |-> packed, index |-> index,
              unpacked |-> unpacked, pack |-> pack, repacked |-> repacked]
  PROVE  /\ RepositoryRecord(r)
         /\ r.head = head /\ r.loose = loose /\ r.packed = packed /\ r.index = index
         /\ r.unpacked = unpacked /\ r.pack = pack /\ r.repacked = repacked
  BY DEF RepositoryRecord

\* Each file the user's Git renames into place leaves the held files, only adds commits, and

\* remembers the moment; a ref that packed-refs does not repeat is not removed.
LEMMA UserSteps ==
  ASSUME RepositoryOK, UserOfGit
  PROVE  /\ RepositoryOK'
         /\ Commits(repo) \subseteq Commits(repo')
         /\ "index" \in pins => repo'.index = repo.index
         /\ "HEAD" \in pins => repo'.head = repo.head
         /\ "packed-refs" \in pins => repo'.packed = repo.packed
         /\ \A b \in Branch \cap pins : repo'.loose[b] = repo.loose[b]
         /\ "packed-refs" \in pins =>
              \A b \in Branch :
                repo.loose[b] = NoCommit \/ repo.loose[b] # repo.packed[b] =>
                  /\ repo'.loose[b] = NoCommit \/ repo'.loose[b] # repo'.packed[b]
                  /\ repo.loose[b] # NoCommit => repo'.loose[b] # NoCommit
         /\ ~repo'.repacked => ~repo.repacked /\ repo'.pack = repo.pack
         /\ seen' = seen \cup {Pair(repo')}
         /\ UNCHANGED <<request, stage, todo, pins, absent, copy, began>>
<1> USE DEF UserGit
<1> DEFINE Steps ==
             /\ RepositoryOK'
             /\ Commits(repo) \subseteq Commits(repo')
             /\ "index" \in pins => repo'.index = repo.index
             /\ "HEAD" \in pins => repo'.head = repo.head
             /\ "packed-refs" \in pins => repo'.packed = repo.packed
             /\ \A b \in Branch \cap pins : repo'.loose[b] = repo.loose[b]
             /\ "packed-refs" \in pins =>
                  \A b \in Branch :
                    repo.loose[b] = NoCommit \/ repo.loose[b] # repo.packed[b] =>
                      /\ repo'.loose[b] = NoCommit \/ repo'.loose[b] # repo'.packed[b]
                      /\ repo.loose[b] # NoCommit => repo'.loose[b] # NoCommit
             /\ ~repo'.repacked => ~repo.repacked /\ repo'.pack = repo.pack
<1>1. ASSUME NEW p \in Path, UserIndexes(p)  PROVE Steps
  <2>1. repo' = [head |-> repo.head, loose |-> repo.loose, packed |-> repo.packed,
                  index |-> [OrEmpty(repo.index) EXCEPT ![p] = disk[p]],
                  unpacked |-> repo.unpacked, pack |-> repo.pack, repacked |-> repo.repacked]
      BY <1>1 DEF UserIndexes, RepositoryOK, RepositoryRecord
  <2>2. /\ RepositoryRecord(repo')
        /\ repo'.head = repo.head
        /\ repo'.loose = repo.loose
        /\ repo'.packed = repo.packed
        /\ repo'.index = [OrEmpty(repo.index) EXCEPT ![p] = disk[p]]
        /\ repo'.unpacked = repo.unpacked
        /\ repo'.pack = repo.pack
        /\ repo'.repacked = repo.repacked
      BY <2>1, RepositoryFields
  <2>3. Commits(repo') = Commits(repo)
      BY <2>2 DEF Commits
  <2>4. RepositoryOK'
      BY <1>1, <2>2, <2>3 DEF RepositoryOK, Refs
  <2> QED  BY <1>1, <2>2, <2>3, <2>4, GitAssumption DEF UserIndexes, RepositoryOK, Refs
<1>2. ASSUME NEW b \in Branch, UserSwitches(b)  PROVE Steps
  <2>1. repo' = [head |-> b, loose |-> repo.loose, packed |-> repo.packed,
                  index |-> repo.index, unpacked |-> repo.unpacked,
                  pack |-> repo.pack, repacked |-> repo.repacked]
      BY <1>2 DEF UserSwitches, RepositoryOK, RepositoryRecord
  <2>2. /\ RepositoryRecord(repo')
        /\ repo'.head = b
        /\ repo'.loose = repo.loose
        /\ repo'.packed = repo.packed
        /\ repo'.index = repo.index
        /\ repo'.unpacked = repo.unpacked
        /\ repo'.pack = repo.pack
        /\ repo'.repacked = repo.repacked
      BY <2>1, RepositoryFields
  <2>3. Commits(repo') = Commits(repo)
      BY <2>2 DEF Commits
  <2>4. RepositoryOK'
      BY <1>2, <2>2, <2>3 DEF RepositoryOK, Refs
  <2> QED  BY <1>2, <2>2, <2>3, <2>4, GitAssumption DEF UserSwitches, RepositoryOK, Refs
<1>3. ASSUME NEW b \in Branch, UserPrunesRef(b)  PROVE Steps
  <2>1. repo' = [head |-> repo.head,
                  loose |-> [repo.loose EXCEPT ![b] = NoCommit],
                  packed |-> repo.packed,
                  index |-> repo.index, unpacked |-> repo.unpacked,
                  pack |-> repo.pack, repacked |-> repo.repacked]
      BY <1>3 DEF UserPrunesRef, RepositoryOK, RepositoryRecord
  <2>2. /\ RepositoryRecord(repo')
        /\ repo'.head = repo.head
        /\ repo'.loose = [repo.loose EXCEPT ![b] = NoCommit]
        /\ repo'.packed = repo.packed
        /\ repo'.index = repo.index
        /\ repo'.unpacked = repo.unpacked
        /\ repo'.pack = repo.pack
        /\ repo'.repacked = repo.repacked
      BY <2>1, RepositoryFields
  <2>3. Commits(repo') = Commits(repo)
      BY <2>2 DEF Commits
  <2>4. RepositoryOK'
      BY <1>3, <2>2, <2>3 DEF RepositoryOK, Refs
  <2> QED  BY <1>3, <2>2, <2>3, <2>4, GitAssumption DEF UserPrunesRef, RepositoryOK, Refs
<1>4. ASSUME UserCommits  PROVE Steps
  <2> DEFINE commit == 1 + Cardinality(Commits(repo))
  <2>1. repo' = [head |-> repo.head,
                  loose |-> [repo.loose EXCEPT ![repo.head] = commit],
                  packed |-> repo.packed,
                  index |-> repo.index, unpacked |-> repo.unpacked \cup {commit},
                  pack |-> repo.pack, repacked |-> repo.repacked]
      BY <1>4 DEF UserCommits, RepositoryOK, RepositoryRecord, Commits
  <2> HIDE DEF commit
  <2>2. /\ RepositoryRecord(repo')
        /\ repo'.head = repo.head
        /\ repo'.loose = [repo.loose EXCEPT ![repo.head] = commit]
        /\ repo'.packed = repo.packed
        /\ repo'.index = repo.index
        /\ repo'.unpacked = repo.unpacked \cup {commit}
        /\ repo'.pack = repo.pack
        /\ repo'.repacked = repo.repacked
      BY <2>1, RepositoryFields
  <2>3. /\ commit \in Nat /\ commit \notin Commits(repo)
        /\ Commits(repo') = Commits(repo) \cup {commit}
        /\ IsFiniteSet(Commits(repo')) /\ Commits(repo') = 1..Cardinality(Commits(repo'))
    <3> DEFINE n == Cardinality(Commits(repo))
    <3>1. n \in Nat /\ Commits(repo) = 1..n /\ commit = n + 1
        BY FS_CardinalityType DEF RepositoryOK, commit
    <3>2. Commits(repo') = Commits(repo) \cup {commit}
        BY <2>2 DEF Commits
    <3>3. /\ IsFiniteSet(Commits(repo) \cup {commit})
          /\ Cardinality(Commits(repo) \cup {commit}) =
               IF commit \in Commits(repo) THEN n ELSE n + 1
        BY FS_AddElement DEF RepositoryOK
    <3> HIDE DEF n
    <3>4. commit \in Nat /\ commit \notin Commits(repo)
          /\ Commits(repo) \cup {commit} = 1..commit
        BY <3>1
    <3> QED  BY <3>1, <3>2, <3>3, <3>4
  <2>4. RepositoryOK'
      BY <2>2, <2>3 DEF RepositoryOK, Refs
  <2>5. repo.head \notin pins
      BY <1>4 DEF UserCommits
  <2>6. \A b \in Branch : repo'.loose[b] = (IF b = repo.head THEN commit ELSE repo.loose[b])
      BY <2>2 DEF RepositoryOK, Refs
  <2>7. commit # NoCommit /\ \A b \in Branch : commit # repo.packed[b]
      BY <2>3, GitAssumption DEF RepositoryOK, Refs
  <2> QED  BY <2>2, <2>3, <2>4, <2>5, <2>6, <2>7
<1>5. ASSUME UserPacksRefs  PROVE Steps
  <2>1. repo' = [head |-> repo.head,
                  loose |-> repo.loose,
                  packed |-> [b \in Branch |-> IF repo.loose[b] # NoCommit THEN repo.loose[b]
                                          ELSE repo.packed[b]],
                  index |-> repo.index, unpacked |-> repo.unpacked,
                  pack |-> repo.pack, repacked |-> repo.repacked]
      BY <1>5 DEF UserPacksRefs, RepositoryOK, RepositoryRecord
  <2>2. /\ RepositoryRecord(repo')
        /\ repo'.head = repo.head
        /\ repo'.loose = repo.loose
        /\ repo'.packed = [b \in Branch |-> IF repo.loose[b] # NoCommit THEN repo.loose[b]
                                          ELSE repo.packed[b]]
        /\ repo'.index = repo.index
        /\ repo'.unpacked = repo.unpacked
        /\ repo'.pack = repo.pack
        /\ repo'.repacked = repo.repacked
      BY <2>1, RepositoryFields
  <2>3. Commits(repo') = Commits(repo)
      BY <2>2 DEF Commits
  <2>4. RepositoryOK'
      BY <1>5, <2>2, <2>3 DEF RepositoryOK, Refs
  <2> QED  BY <1>5, <2>2, <2>3, <2>4, GitAssumption DEF UserPacksRefs, RepositoryOK, Refs
<1>6. ASSUME UserRepacks  PROVE Steps
  <2>1. repo' = [head |-> repo.head, loose |-> repo.loose, packed |-> repo.packed,
                  index |-> repo.index, unpacked |-> {},
                  pack |-> repo.pack \cup repo.unpacked, repacked |-> TRUE]
      BY <1>6 DEF UserRepacks, RepositoryOK, RepositoryRecord
  <2>2. /\ RepositoryRecord(repo')
        /\ repo'.head = repo.head
        /\ repo'.loose = repo.loose
        /\ repo'.packed = repo.packed
        /\ repo'.index = repo.index
        /\ repo'.unpacked = {}
        /\ repo'.pack = repo.pack \cup repo.unpacked
        /\ repo'.repacked = TRUE
      BY <2>1, RepositoryFields
  <2>3. Commits(repo') = Commits(repo)
      BY <2>2 DEF Commits
  <2>4. RepositoryOK'
      BY <1>6, <2>2, <2>3 DEF RepositoryOK, Refs
  <2> QED  BY <1>6, <2>2, <2>3, <2>4, GitAssumption DEF UserRepacks, RepositoryOK, Refs
<1>7. /\ seen' = seen \cup {Pair(repo')}
      /\ UNCHANGED <<request, stage, todo, pins, absent, copy, began>>
    BY DEF UserOfGit, UserIndexes, UserSwitches, UserPrunesRef, UserCommits, UserPacksRefs, UserRepacks
<1> QED  BY <1>1, <1>2, <1>3, <1>4, <1>5, <1>6, <1>7 DEF UserOfGit

-----------------------------------------------------------------------------
(* Where nothing is copied.                                                *)

\* What the commands may name does not change.
LEMMA AsksSame == ASSUME request' = request  PROVE FullRefs' = FullRefs
  BY DEF FullRefs, Asks

\* Nothing is held before the staging begins.
LEMMA InitGit == GitInit => GitInv
<1> SUFFICES ASSUME GitInit  PROVE GitInv
    OBVIOUS
<1>1. repo \in Repositories
    BY GitAssumption DEF GitInit
<1>2. RepositoryOK
  <2>1. /\ repo = [head |-> repo.head, loose |-> repo.loose, packed |-> repo.packed,
                   index |-> repo.index, unpacked |-> repo.unpacked, pack |-> repo.pack,
                   repacked |-> FALSE]
        /\ repo.head \in Branch
        /\ Commits(repo) = 1..Cardinality(Commits(repo)) /\ IsFiniteSet(Commits(repo))
        /\ {repo.loose, repo.packed} \subseteq Refs(repo)
      BY <1>1, GitAssumption, Zenon DEF Commits, Refs
  <2>2. RepositoryRecord(repo)
      BY <2>1, RepositoryFields, Zenon
  <2> QED  BY <2>1, <2>2 DEF RepositoryOK
<1>3. /\ stage \in {"idle", "ended"} /\ todo = <<>> /\ pins = {} /\ absent = {}
      /\ copy = Nothing
    BY DEF GitInit
<1>4. /\ CopyRecord(copy)
      /\ copy.head = CHOOSE b \in Branch : TRUE
      /\ copy.loose = NoRefs /\ copy.packed = NoRefs /\ copy.index = NoIndex
    BY <1>3 DEF Nothing, NoRefs, CopyRecord
<1>5. copy.head \in Branch
    BY <1>2, <1>4 DEF RepositoryOK
<1>6. CopyOK
    BY <1>4, <1>5 DEF CopyOK, NoRefs, Refs
<1>7. SeenNow /\ NotYet /\ PinsHold /\ Covered
    BY <1>3, <1>4 DEF SeenNow, NotYet, PinsHold, Covered, Planning
<1>8. Shape /\ KeptAbsent /\ Moment /\ Objects /\ Shown
    BY <1>3 DEF Shape, KeptAbsent, Moment, Objects, Shown
<1> QED  BY <1>2, <1>6, <1>7, <1>8 DEF GitInv, Pinning, Copying

\* The user's Git keeps the invariant whatever the copy has reached.
LEMMA UserKeeps ==
  ASSUME GitInv, UserOfGit
  PROVE  GitInv'
<1> DEFINE U == UNCHANGED <<request, stage, todo, pins, absent, copy, began>>
<1>1. /\ RepositoryOK'
      /\ Commits(repo) \subseteq Commits(repo')
      /\ "index" \in pins => repo'.index = repo.index
      /\ "HEAD" \in pins => repo'.head = repo.head
      /\ "packed-refs" \in pins => repo'.packed = repo.packed
      /\ \A b \in Branch \cap pins : repo'.loose[b] = repo.loose[b]
      /\ "packed-refs" \in pins =>
           \A b \in Branch :
             repo.loose[b] = NoCommit \/ repo.loose[b] # repo.packed[b] =>
               /\ repo'.loose[b] = NoCommit \/ repo'.loose[b] # repo'.packed[b]
               /\ repo.loose[b] # NoCommit => repo'.loose[b] # NoCommit
      /\ ~repo'.repacked => ~repo.repacked /\ repo'.pack = repo.pack
      /\ seen' = seen \cup {Pair(repo')} /\ U
    BY UserSteps DEF GitInv
<1>2. Pair(copy)' = Pair(copy) /\ Resolved(copy)' = Resolved(copy)
      /\ Unborn(copy)' = Unborn(copy)
    BY <1>1 DEF Pair, Resolved, Unborn, HasPackedRefs
<1>3. ASSUME ~FullRefs  PROVE Pinning' /\ Copying'
  <2>1. Pinning /\ Copying
      BY <1>3 DEF GitInv
  <2>2. CopyOK'
      BY <1>1, <2>1 DEF Pinning, CopyOK, Refs
  <2>3. SeenNow'
      BY <1>1 DEF SeenNow
  <2>4. NotYet' /\ PinsHold' /\ Covered'
      BY <1>1, <2>1 DEF Pinning, NotYet, PinsHold, Covered, CopyOK
  <2>5. Shape'
      BY <1>1, <2>1 DEF Copying, Shape
  <2>6. KeptAbsent'
      BY <1>1, <2>1 DEF Copying, Pinning, KeptAbsent, Stays, CopyOK
  <2>7. Moment'
      BY <1>1, <1>2, <2>1 DEF Copying, Pinning, Moment, Doomed, KeptAbsent, Stays, CopyOK
  <2>8. Objects'
      BY <1>1, <1>2, <2>1 DEF Copying, Objects
  <2>9. Shown'
      BY <1>1, <1>2, <2>1 DEF Copying, Shown
  <2> QED  BY <2>2, <2>3, <2>4, <2>5, <2>6, <2>7, <2>8, <2>9 DEF Pinning, Copying
<1> QED  BY <1>1, <1>3, AsksSame DEF GitInv

\* A staging that fails holds nothing and shows nothing.
LEMMA FailsKeep ==
  ASSUME GitInv, GitFails
  PROVE  GitInv'
<1>1. stage' = "failed" /\ UNCHANGED <<repo, request, copy>>
    BY DEF GitFails, Moves
<1>2. RepositoryOK'
    BY <1>1 DEF GitInv, RepositoryOK
<1>3. CopyOK => CopyOK'
    BY <1>1 DEF CopyOK
<1>4. SeenNow' /\ NotYet' /\ PinsHold' /\ Covered'
    BY <1>1 DEF SeenNow, NotYet, PinsHold, Covered, Planning
<1>5. Shape' /\ KeptAbsent' /\ Moment' /\ Objects' /\ Shown'
    BY <1>1 DEF Shape, KeptAbsent, Moment, Objects, Shown
<1> QED  BY <1>1, <1>2, <1>3, <1>4, <1>5, AsksSame DEF GitInv, Pinning, Copying

\* The server's other calls and the user's editor do not touch .git.
LEMMA UnchangedKeeps ==
  ASSUME GitInv, UNCHANGED gitVars
  PROVE  GitInv'
<1>1. /\ repo' = repo /\ request' = request /\ stage' = stage /\ todo' = todo /\ pins' = pins
      /\ absent' = absent /\ copy' = copy /\ seen' = seen
    BY DEF gitVars
<1>2. FullRefs' = FullRefs
    BY <1>1, AsksSame
<1>3. RepositoryOK' = RepositoryOK /\ CopyOK' = CopyOK
    BY <1>1 DEF RepositoryOK, CopyOK
<1>4. SeenNow' = SeenNow /\ NotYet' = NotYet /\ PinsHold' = PinsHold /\ Covered' = Covered
    BY <1>1 DEF SeenNow, NotYet, PinsHold, Covered
<1>5. Shape' = Shape /\ KeptAbsent' = KeptAbsent
    BY <1>1 DEF Shape, KeptAbsent, Stays
<1>6. Moment' = Moment /\ Objects' = Objects /\ Shown' = Shown
    BY <1>1 DEF Moment, Objects, Shown, Doomed, Stays
<1> QED  BY <1>2, <1>3, <1>4, <1>5, <1>6, Zenon DEF GitInv, Pinning, Copying

\* A restart ends the staging.
LEMMA ElsewhereKeeps ==
  ASSUME GitInv, Elsewhere
  PROVE  GitInv'
<1>1. CASE UNCHANGED gitVars
    BY <1>1, UnchangedKeeps
<1>2. CASE ~UNCHANGED gitVars
  <2>1. stage' \in {"ended", "failed"} /\ UNCHANGED <<repo, request, copy>>
      BY <1>2 DEF Elsewhere
  <2>2. RepositoryOK'
      BY <2>1 DEF GitInv, RepositoryOK
  <2>3. CopyOK => CopyOK'
      BY <2>1 DEF CopyOK
  <2>4. SeenNow' /\ NotYet' /\ PinsHold' /\ Covered'
      BY <2>1 DEF SeenNow, NotYet, PinsHold, Covered, Planning
  <2>5. Shape' /\ KeptAbsent' /\ Moment' /\ Objects' /\ Shown'
      BY <2>1 DEF Shape, KeptAbsent, Moment, Objects, Shown
  <2> QED  BY <2>1, <2>2, <2>3, <2>4, <2>5, AsksSame DEF GitInv, Pinning, Copying
<1> QED  BY <1>1, <1>2

\* A step of the staging leaves the repository; only HEAD-derived commands need the rest.
LEMMA ByParts ==
  ASSUME GitInv, UNCHANGED <<repo, request>>,
         ~FullRefs /\ RepositoryOK /\ Pinning /\ Copying => Pinning' /\ Copying'
  PROVE  GitInv'
<1>1. RepositoryOK'
    BY DEF GitInv, RepositoryOK
<1> QED  BY <1>1, AsksSame DEF GitInv

\* Before anything is copied only the handles count.
LEMMA NotCopying ==
  ASSUME stage' \notin {"copy", "run"}  PROVE Copying'
  BY DEF Copying, Shape, KeptAbsent, Moment, Objects, Shown

-----------------------------------------------------------------------------
(* Planning the copy.                                                      *)

\* StageBegins: the first moment is remembered.
LEMMA BeginsKeeps ==
  ASSUME GitInv, StageBegins  PROVE GitInv'
<1>1. /\ stage = "idle" /\ stage' = "prune" /\ seen' = {Pair(repo)}
      /\ UNCHANGED <<repo, request, todo, pins, absent, copy>>
    BY DEF StageBegins
<1>2. ASSUME Pinning  PROVE Pinning'
  <2>1. CopyOK'
      BY <1>1, <1>2 DEF Pinning, CopyOK
  <2>2. SeenNow'
      BY <1>1 DEF SeenNow, Pair, Resolved
  <2>3. NotYet' /\ PinsHold' /\ Covered'
      BY <1>1, <1>2 DEF Pinning, NotYet, PinsHold, Covered, Planning
  <2> QED  BY <2>1, <2>2, <2>3 DEF Pinning
<1> QED  BY <1>1, <1>2, ByParts, NotCopying

\* PlanPruning reads and holds the index, or leaves it for later.
LEMMA PruningKeeps ==
  ASSUME GitInv, PlanPruning  PROVE GitInv'
<1>1. /\ stage = "prune" /\ stage' = "head"
      /\ UNCHANGED <<repo, request, todo, absent, seen>>
      /\ \/ UNCHANGED <<pins, copy>>
         \/ /\ pins' = IF repo.index = NoIndex THEN pins ELSE pins \cup {"index"}
            /\ copy' = [copy EXCEPT !.index = repo.index,
                                    !.pruned = CanPrune(IgnoreRules, repo.index)]
    BY DEF PlanPruning, Moves, Keep
<1>2. ASSUME Pinning  PROVE Pinning'
  <2>1. \/ UNCHANGED <<pins, copy>>
        \/ /\ pins' = IF repo.index = NoIndex THEN pins ELSE pins \cup {"index"}
           /\ CopyIs(copy', copy.head, copy.loose, copy.packed, repo.index, copy.objects)
    <3> DEFINE w == CanPrune(IgnoreRules, repo.index)
    <3> HIDE DEF w
    <3>1. CopyIs([copy EXCEPT !.index = repo.index, !.pruned = w],
                 copy.head, copy.loose, copy.packed, repo.index, copy.objects)
        BY <1>2, SetIndexAndPruned DEF Pinning, CopyOK
    <3> QED  BY <1>1, <3>1 DEF w
  <2>2. CopyOK'
      BY <1>1, <1>2, <2>1 DEF Pinning, CopyOK, CopyIs
  <2>3. SeenNow'
      BY <1>1, <1>2 DEF Pinning, SeenNow, Pair, Resolved
  <2>4. NotYet' /\ PinsHold' /\ Covered'
      BY <1>1, <1>2, <2>1 DEF Pinning, NotYet, PinsHold, Covered, Planning, CopyIs
  <2> QED  BY <2>2, <2>3, <2>4 DEF Pinning
<1> QED  BY <1>1, <1>2, ByParts, NotCopying

\* PinHead reads and holds HEAD.
LEMMA HeadKeeps ==
  ASSUME GitInv, PinHead  PROVE GitInv'
<1>1. /\ stage = "head" /\ UNCHANGED <<repo, request, absent, seen>>
      /\ ~FullRefs =>
           /\ pins' = pins \cup {"HEAD"} /\ copy' = [copy EXCEPT !.head = repo.head]
           /\ stage' = "packed" /\ todo' = todo
    BY DEF PinHead, Moves, Keep
<1>2. ASSUME ~FullRefs, RepositoryOK, Pinning  PROVE Pinning'
  <2>1. CopyIs(copy', repo.head, copy.loose, copy.packed, copy.index, copy.objects)
      BY <1>1, <1>2, SetHead DEF Pinning, CopyOK
  <2>2. CopyOK'
      BY <1>1, <1>2, <2>1 DEF Pinning, CopyOK, RepositoryOK, CopyIs
  <2>3. SeenNow'
      BY <1>1, <1>2 DEF Pinning, SeenNow, Pair, Resolved
  <2>4. NotYet' /\ PinsHold' /\ Covered'
      BY <1>1, <1>2, <2>1 DEF Pinning, NotYet, PinsHold, Covered, Planning, CopyIs
  <2> QED  BY <2>2, <2>3, <2>4 DEF Pinning
<1> QED  BY <1>1, <1>2, ByParts, NotCopying

\* PinPacked holds packed-refs or notes that it is absent.
LEMMA PackedKeeps ==
  ASSUME GitInv, PinPacked  PROVE GitInv'
<1>1. /\ stage = "packed" /\ stage' = "ref" /\ UNCHANGED <<repo, request, todo, seen>>
      /\ \/ /\ pins' = pins \cup {"packed-refs"} /\ absent' = absent
            /\ copy' = [copy EXCEPT !.packed = repo.packed]
         \/ absent' = absent \cup {"packed-refs"} /\ UNCHANGED <<pins, copy>>
    BY DEF PinPacked, Moves, Keep
<1>2. ASSUME ~FullRefs, RepositoryOK, Pinning  PROVE Pinning'
  <2>1. \/ /\ pins' = pins \cup {"packed-refs"} /\ absent' = absent
           /\ CopyIs(copy', copy.head, copy.loose, repo.packed, copy.index, copy.objects)
        \/ absent' = absent \cup {"packed-refs"} /\ UNCHANGED <<pins, copy>>
      BY <1>1, <1>2, SetPacked DEF Pinning, CopyOK
  <2>2. CopyOK'
      BY <1>1, <1>2, <2>1 DEF Pinning, CopyOK, RepositoryOK, CopyIs
  <2>3. SeenNow'
      BY <1>1, <1>2 DEF Pinning, SeenNow, Pair, Resolved
  <2>4. NotYet' /\ PinsHold' /\ Covered'
      BY <1>1, <1>2, <2>1 DEF Pinning, NotYet, PinsHold, Covered, Planning, CopyIs
  <2> QED  BY <2>2, <2>3, <2>4 DEF Pinning
<1> QED  BY <1>1, <1>2, ByParts, NotCopying

\* PinRef holds the ref that HEAD names or notes that it is absent: from here the commit is fixed.
LEMMA RefKeeps ==
  ASSUME GitInv, PinRef  PROVE GitInv'
<1> DEFINE b == copy.head
<1>1. /\ stage = "ref" /\ stage' = "copy" /\ todo' = <<Item("dir", Root)>>
      /\ UNCHANGED <<repo, request, seen>>
      /\ \/ /\ repo.loose[b] # NoCommit /\ pins' = pins \cup {b} /\ absent' = absent
            /\ copy' = [copy EXCEPT !.loose[b] = repo.loose[b]]
         \/ /\ repo.loose[b] = NoCommit /\ absent' = absent \cup {b}
            /\ UNCHANGED <<pins, copy>>
    BY DEF PinRef, Moves, Keep, CopyBegins
<1>2. ASSUME ~FullRefs, RepositoryOK, Pinning  PROVE Pinning' /\ Copying'
  <2>1. \/ /\ repo.loose[b] # NoCommit /\ pins' = pins \cup {b} /\ absent' = absent
           /\ CopyIs(copy', b, [copy.loose EXCEPT ![b] = repo.loose[b]], copy.packed, copy.index,
                     copy.objects)
        \/ /\ repo.loose[b] = NoCommit /\ absent' = absent \cup {b}
           /\ UNCHANGED <<pins, copy>>
    <3> DEFINE v == [copy.loose EXCEPT ![b] = repo.loose[b]]
    <3>1. [copy EXCEPT !.loose[b] = repo.loose[b]] = [copy EXCEPT !.loose = v]
        BY <1>2 DEF Pinning, CopyOK, CopyRecord
    <3> HIDE DEF v
    <3>2. CopyIs([copy EXCEPT !.loose = v], b, v, copy.packed, copy.index, copy.objects)
        BY <1>2, SetLoose DEF Pinning, CopyOK
    <3> QED  BY <1>1, <3>1, <3>2 DEF v
  <2>2. b \in Branch /\ b = repo.head /\ b \notin {"index", "packed-refs", "HEAD"}
      BY <1>1, <1>2, GitAssumption DEF Pinning, CopyOK, PinsHold, Planning
  <2>3. /\ copy.loose = NoRefs /\ absent \subseteq {"packed-refs"}
        /\ pins \subseteq {"index", "HEAD", "packed-refs"}
        /\ "packed-refs" \in pins \/ copy.packed = NoRefs
      BY <1>1, <1>2 DEF Pinning, NotYet, Covered, Planning
  <2>4. /\ copy'.loose \in Refs(repo) /\ copy'.loose[b] = repo.loose[b]
        /\ copy'.head = b /\ copy'.packed = copy.packed /\ copy'.index = copy.index
      BY <1>2, <2>1, <2>2, <2>3 DEF Refs, RepositoryOK, NoRefs, CopyIs
  <2>5. CopyOK'
      BY <1>1, <1>2, <2>1, <2>2, <2>4 DEF Pinning, CopyOK, CopyIs
  <2>6. SeenNow'
      BY <1>1, <1>2 DEF Pinning, SeenNow, Pair, Resolved
  <2>7. NotYet' /\ PinsHold' /\ Covered'
      BY <1>1, <1>2, <2>1, <2>2, <2>3, <2>4 DEF Pinning, NotYet, PinsHold, Covered, Planning
  <2>8. Walking(todo')
      BY <1>1 DEF Walking
  <2>9. Shape' /\ Objects' /\ Shown'
      BY <1>1, <2>8
      DEF Shape, Objects, Shown, Whole, PackToCome, RefsToCome, IndexToCome
  <2>10. KeptAbsent'
      BY <1>1, <2>1, <2>2, <2>3, <2>4 DEF KeptAbsent, Stays
  <2>11. Moment'
    <3>1. CASE "index" \notin pins
        BY <1>1, <2>1, <2>2, <2>8, <3>1 DEF Moment, IndexToCome
    <3>2. CASE "index" \in pins
      <4>1. Pair(repo) \in seen /\ copy'.index = repo.index
          BY <1>1, <1>2, <2>4, <3>2 DEF Pinning, SeenNow, PinsHold, Planning
      <4>2. CASE "packed-refs" \in pins
        <5>1. copy'.packed = repo.packed
            BY <1>1, <1>2, <2>4, <4>2 DEF Pinning, PinsHold, Planning
        <5>2. Pair(copy') = Pair(repo)
            BY <2>2, <2>4, <4>1, <5>1 DEF Pair, Resolved
        <5> QED  BY <1>1, <2>8, <4>1, <5>2 DEF Moment, IndexToCome
      <4>3. CASE copy.packed = NoRefs /\ repo.loose[b] # NoCommit
        <5>1. Pair(copy') = Pair(repo)
            BY <2>2, <2>4, <4>1, <4>3 DEF Pair, Resolved
        <5> QED  BY <1>1, <2>8, <4>1, <5>1 DEF Moment, IndexToCome
      <4>4. CASE copy.packed = NoRefs /\ repo.loose[b] = NoCommit
        <5>1. Unborn(copy)'
            BY <2>2, <2>4, <4>4 DEF Unborn, Resolved, HasPackedRefs, NoRefs
        <5> QED  BY <1>1, <2>8, <5>1 DEF Moment, IndexToCome
      <4> QED  BY <2>3, <4>2, <4>3, <4>4
    <3> QED  BY <3>1, <3>2
  <2> QED  BY <2>5, <2>6, <2>7, <2>9, <2>10, <2>11 DEF Pinning, Copying
<1> QED  BY <1>1, <1>2, ByParts

-----------------------------------------------------------------------------
(* Copying.                                                                *)

\* A step of the copying that reads nothing HEAD or the index depends on.
LEMMA CopyStep ==
  ASSUME RepositoryOK, Pinning, Copying, stage = "copy", stage' = "copy",
         UNCHANGED <<repo, seen, absent, pins>>,
         CopyIs(copy', copy.head, copy.loose, copy.packed, copy.index, copy.objects),
         PackToCome(todo'),
         RefsToCome(todo) => RefsToCome(todo'),
         "index" \notin pins /\ IndexToCome(todo) => IndexToCome(todo')
  PROVE  Pinning' /\ Copying'
<1>1. CopyOK'
    BY DEF Pinning, CopyOK, CopyIs
<1>2. SeenNow' /\ NotYet' /\ PinsHold' /\ Covered'
    BY DEF Pinning, SeenNow, NotYet, PinsHold, Covered, Planning, CopyIs
<1>3. Pair(copy') = Pair(copy) /\ Unborn(copy') = Unborn(copy)
    BY DEF Pair, Resolved, Unborn, HasPackedRefs, CopyIs
<1>4. Shape' /\ Objects' /\ Shown'
    BY DEF Shape, Objects, Shown, Whole
<1>5. KeptAbsent'
    BY DEF Copying, KeptAbsent, Stays, CopyIs
<1>6. Moment'
    BY <1>3 DEF Copying, Moment, Doomed, Stays, CopyIs
<1> QED  BY <1>1, <1>2, <1>4, <1>5, <1>6 DEF Pinning, Copying

\* A list whose index is to come holds it, behind whichever file of .git is first.
LEMMA IndexBehind ==
  ASSUME NEW t, IndexToCome(t)
  PROVE  (Head(t).kind = "HEAD" => AtHead(t)) /\ (Head(t).kind = "config" => AtConfig(t))
<1>1. t # <<>> /\ (Walking(t) => Head(t).kind \in {"dir", "file", "git"})
    BY Phases, WalkStep
<1> QED  BY <1>1, ListStep DEF IndexToCome

\* A step that leaves the copy alone.
LEMMA SameCopy ==
  ASSUME CopyOK, copy' = copy
  PROVE  CopyIs(copy', copy.head, copy.loose, copy.packed, copy.index, copy.objects)
  BY DEF CopyOK, CopyIs, CopyRecord

\* An entry that is taken is the first of the list.
LEMMA InTurn ==
  ASSUME NEW kind, Turn(kind), Copying
  PROVE  stage = "copy" /\ todo # <<>> /\ Head(todo).kind = kind /\ Whole(todo)
  BY DEF Turn, Copying, Shape

\* An index that is read now belongs to the commit that is held; where the ref had no file and
\* has one now, the copy is doomed.
LEMMA OfThisMoment ==
  ASSUME RepositoryOK, Pinning, stage = "copy",
         NEW c, CopyIs(c, copy.head, copy.loose, copy.packed, repo.index, copy.objects)
  PROVE  Pair(c) \in seen \/ Unborn(c) \/ (Stays /\ repo.loose[copy.head] # NoCommit)
<1> DEFINE b == copy.head
<1>1. b \in Branch /\ b = repo.head /\ Pair(repo) \in seen
    BY DEF Pinning, CopyOK, PinsHold, SeenNow
<1>2. /\ c.head = b /\ c.loose = copy.loose /\ c.packed = copy.packed /\ c.index = repo.index
      /\ b \in pins => copy.loose[b] = repo.loose[b]
      /\ b \notin pins => b \in absent /\ copy.loose[b] = NoCommit
      /\ "packed-refs" \in pins => copy.packed = repo.packed
      /\ "packed-refs" \notin pins => copy.packed = NoRefs
    BY DEF Pinning, PinsHold, Covered, CopyIs
<1>3. CASE Resolved(c) = Resolved(repo)
    BY <1>1, <1>2, <1>3 DEF Pair
<1>4. CASE "packed-refs" \in pins /\ Resolved(c) # Resolved(repo)
  <2>1. b \in absent /\ repo.loose[b] # NoCommit
      BY <1>1, <1>2, <1>4 DEF Resolved
  <2> QED  BY <1>4, <2>1 DEF Stays
<1>5. CASE "packed-refs" \notin pins /\ Resolved(c) # Resolved(repo)
  <2>1. copy.loose[b] = NoCommit /\ copy.packed = NoRefs
      BY <1>1, <1>2, <1>5 DEF Resolved
  <2> QED  BY <1>1, <1>2, <2>1 DEF Unborn, Resolved, HasPackedRefs, NoRefs
<1> QED  BY <1>3, <1>4, <1>5

\* ListDirectory reads nothing of .git.
LEMMA DirectoryKeeps ==
  ASSUME GitInv, ListDirectory  PROVE GitInv'
<1> DEFINE q == Head(todo).of
           within == Inside(q) \ request.protected
           F == {p \in within : IsFile(p)}
           D == {p \in within : IsDir(p)} \ copy.pruned
           more == Items("file", F) \o Items("dir", D)
<1>1. CASE GitFails
    BY <1>1, FailsKeep
<1>2. CASE ~GitFails
  <2>1. /\ Turn("dir") /\ stage' = "copy" /\ UNCHANGED <<repo, request, seen, absent, pins, copy>>
        /\ todo' = (more \o IF q = Root THEN <<Item("git", Root)>> ELSE <<>>) \o Tail(todo)
      BY <1>2 DEF ListDirectory, Then, Moves
  <2>2. more \in Seq(Walk)
    <3>1. Items("file", F) \in Seq(Entries("file", F)) /\ Items("dir", D) \in Seq(Entries("dir", D))
      <4>1. F \subseteq Path /\ D \subseteq Path
          BY DEF Inside
      <4>2. IsFiniteSet(F) /\ IsFiniteSet(D)
          BY <4>1, FS_Subset, PathAssumption
      <4> QED  BY <4>2, ItemsListed
    <3>2. Entries("file", F) \subseteq Walk /\ Entries("dir", D) \subseteq Walk
        BY DEF Walk, Entries, Inside
    <3>3. Items("file", F) \in Seq(Walk) /\ Items("dir", D) \in Seq(Walk)
        BY <3>1, <3>2, SeqMonotonic
    <3> QED  BY <3>3
  <2> HIDE DEF more, F, D
  <2>3. ASSUME ~FullRefs, RepositoryOK, Pinning, Copying  PROVE Pinning' /\ Copying'
    <3>1. stage = "copy" /\ todo # <<>> /\ Head(todo).kind = "dir" /\ Walking(todo)
        BY <2>1, <2>3, InTurn, Phases
    <3>2. Walking(todo')
      <4>1. CASE q = Root
          BY <2>1, <2>2, <3>1, <4>1, WalkStep
      <4>2. CASE q # Root
          BY <2>1, <2>2, <3>1, <4>2, WalkStep
      <4> QED  BY <4>1, <4>2
    <3>3. CopyIs(copy', copy.head, copy.loose, copy.packed, copy.index, copy.objects)
        BY <2>1, <2>3, SameCopy DEF Pinning
    <3> QED  BY <2>1, <2>3, <3>1, <3>2, <3>3, CopyStep DEF IndexToCome, RefsToCome, PackToCome
  <2> QED  BY <2>1, <2>3, ByParts
<1> QED  BY <1>1, <1>2

\* CopyFile reads nothing of .git.
LEMMA FileKeeps ==
  ASSUME GitInv, CopyFile  PROVE GitInv'
<1> DEFINE p == Head(todo).of
           v == With(copy.files, p, Projected(p))
<1>1. CASE GitFails
    BY <1>1, FailsKeep
<1>2. CASE ~GitFails
  <2>1. /\ Turn("file") /\ stage' = "copy" /\ UNCHANGED <<repo, request, seen, absent, pins>>
        /\ todo' = <<>> \o Tail(todo) /\ copy' = [copy EXCEPT !.files = v]
      BY <1>2 DEF CopyFile, Then, Moves
  <2> HIDE DEF v
  <2>2. ASSUME ~FullRefs, RepositoryOK, Pinning, Copying  PROVE Pinning' /\ Copying'
    <3>1. stage = "copy" /\ todo # <<>> /\ Head(todo).kind = "file" /\ Walking(todo)
        BY <2>1, <2>2, InTurn, Phases
    <3>2. Walking(todo')
        BY <2>1, <3>1, WalkStep
    <3>3. CopyIs(copy', copy.head, copy.loose, copy.packed, copy.index, copy.objects)
        BY <2>1, <2>2, SetFiles DEF Pinning, CopyOK
    <3> QED  BY <2>1, <2>2, <3>1, <3>2, <3>3, CopyStep DEF IndexToCome, RefsToCome, PackToCome
  <2> QED  BY <2>1, <2>2, ByParts
<1> QED  BY <1>1, <1>2

\* ListGit decides whether packed-refs is copied.
LEMMA GitListKeeps ==
  ASSUME GitInv, ListGit  PROVE GitInv'
<1> DEFINE index == IF repo.index # NoIndex THEN <<Item("index", Root)>> ELSE <<>>
           packed == IF HasPackedRefs(repo) THEN <<Item("packed-refs", Root)>> ELSE <<>>
<1>1. CASE GitFails
    BY <1>1, FailsKeep
<1>2. CASE ~GitFails
  <2>1. /\ Turn("git") /\ stage' = "copy" /\ UNCHANGED <<repo, request, seen, absent, pins, copy>>
        /\ todo' = (<<Item("HEAD", Root), Item("config", Root)>> \o index \o packed
                     \o <<Item("refs", Root), Item("pack", Root), Item("loose", Root)>>)
                   \o Tail(todo)
      BY <1>2 DEF ListGit, Then, Moves
  <2>2. /\ index \in {<<>>, <<Item("index", Root)>>} /\ packed \in {<<>>, <<Item("packed-refs", Root)>>}
        /\ index = <<>> <=> repo.index = NoIndex
      OBVIOUS
  <2> HIDE DEF packed, index
  <2>3. ASSUME ~FullRefs, RepositoryOK, Pinning, Copying  PROVE Pinning' /\ Copying'
    <3>1. stage = "copy" /\ todo # <<>> /\ Head(todo).kind = "git" /\ Walking(todo)
        BY <2>1, <2>3, InTurn, Phases
    <3>2. (index # <<>> => AtHead(todo')) /\ (index = <<>> => BareHead(todo'))
      <4>1. Tail(todo) = <<>>
          BY <3>1, WalkStep
      <4> QED  BY <2>1, <2>2, <4>1, ListBegins
    <3>3. CopyIs(copy', copy.head, copy.loose, copy.packed, copy.index, copy.objects)
        BY <2>1, <2>3, SameCopy DEF Pinning
    <3>4. CASE index # <<>>
        BY <2>1, <2>3, <3>1, <3>2, <3>3, <3>4, CopyStep DEF IndexToCome, RefsToCome, PackToCome
    <3>5. CASE index = <<>>
      <4>1. RefsToCome(todo') /\ PackToCome(todo') /\ Whole(todo')
          BY <3>2, <3>5 DEF RefsToCome, PackToCome, Whole
      <4>2. copy.index = repo.index
          BY <2>2, <2>3, <3>1, <3>5 DEF Pinning, PinsHold
      <4>3. Pair(copy) \in seen \/ Unborn(copy) \/ (Stays /\ repo.loose[copy.head] # NoCommit)
        <5>1. CopyIs(copy, copy.head, copy.loose, copy.packed, repo.index, copy.objects)
            BY <2>3, <4>2 DEF Pinning, CopyOK, CopyIs
        <5> QED  BY <2>3, <3>1, <5>1, OfThisMoment
      <4>4. Moment'
          BY <2>1, <4>1, <4>3 DEF Moment, Doomed, Stays, Pair, Resolved, Unborn, HasPackedRefs
      <4>5. CopyOK' /\ SeenNow' /\ NotYet' /\ PinsHold' /\ Covered'
          BY <2>1, <2>3, <3>1
          DEF Pinning, CopyOK, SeenNow, NotYet, PinsHold, Covered, Planning
      <4>6. Shape' /\ KeptAbsent' /\ Objects' /\ Shown'
          BY <2>1, <2>3, <3>1, <4>1 DEF Copying, Shape, KeptAbsent, Stays, Objects, Shown
      <4> QED  BY <4>4, <4>5, <4>6 DEF Pinning, Copying
    <3> QED  BY <3>4, <3>5
  <2> QED  BY <2>1, <2>3, ByParts
<1> QED  BY <1>1, <1>2

\* CopyHead: HEAD was read when it was held.
LEMMA HeadCopyKeeps ==
  ASSUME GitInv, CopyHead  PROVE GitInv'
<1>1. /\ Turn("HEAD") /\ stage' = "copy" /\ UNCHANGED <<repo, request, seen, absent, pins>>
      /\ todo' = <<>> \o Tail(todo) /\ (~FullRefs => copy' = copy)
    BY DEF CopyHead, Then, Moves
<1>2. ASSUME ~FullRefs, RepositoryOK, Pinning, Copying  PROVE Pinning' /\ Copying'
  <2>1. /\ stage = "copy" /\ todo # <<>> /\ (AtHead(todo) \/ BareHead(todo))
        /\ IndexToCome(todo) => AtHead(todo)
      BY <1>1, <1>2, InTurn, Phases, IndexBehind
  <2>2. /\ AtHead(todo) => AtConfig(todo')
        /\ ~AtHead(todo) => BareConfig(todo')
      BY <1>1, <2>1, ListStep
  <2>3. CopyIs(copy', copy.head, copy.loose, copy.packed, copy.index, copy.objects)
      BY <1>1, <1>2, SameCopy DEF Pinning
  <2> QED  BY <1>1, <1>2, <2>1, <2>2, <2>3, CopyStep DEF IndexToCome, RefsToCome, PackToCome
<1> QED  BY <1>1, <1>2, ByParts

\* CopyConfig reads no ref.
LEMMA ConfigKeeps ==
  ASSUME GitInv, CopyConfig  PROVE GitInv'
<1>1. CASE GitFails
    BY <1>1, FailsKeep
<1>2. CASE ~GitFails
  <2>1. /\ Turn("config") /\ stage' = "copy"
        /\ UNCHANGED <<repo, request, seen, absent, pins, copy>> /\ todo' = <<>> \o Tail(todo)
      BY <1>2 DEF CopyConfig, Then, Moves
  <2>2. ASSUME ~FullRefs, RepositoryOK, Pinning, Copying  PROVE Pinning' /\ Copying'
    <3>1. /\ stage = "copy" /\ todo # <<>> /\ (AtConfig(todo) \/ BareConfig(todo))
          /\ IndexToCome(todo) => AtConfig(todo)
        BY <2>1, <2>2, InTurn, Phases, IndexBehind
    <3>2. /\ AtConfig(todo) => AtIndex(todo')
          /\ ~AtConfig(todo) => AfterIndex(todo')
        BY <2>1, <3>1, ListStep
    <3>3. CopyIs(copy', copy.head, copy.loose, copy.packed, copy.index, copy.objects)
        BY <2>1, <2>2, SameCopy DEF Pinning
    <3> QED  BY <2>1, <2>2, <3>1, <3>2, <3>3, CopyStep DEF IndexToCome, RefsToCome, PackToCome
  <2> QED  BY <2>1, <2>2, ByParts
<1> QED  BY <1>1, <1>2

\* CopyPacked: packed-refs was read when it was held.
LEMMA PackedCopyKeeps ==
  ASSUME GitInv, CopyPacked  PROVE GitInv'
<1>1. /\ Turn("packed-refs") /\ stage' = "copy" /\ UNCHANGED <<repo, request, seen, absent, pins>>
      /\ todo' = <<>> \o Tail(todo) /\ (~FullRefs => copy' = copy)
    BY DEF CopyPacked, Then, Moves
<1>2. ASSUME ~FullRefs, RepositoryOK, Pinning, Copying  PROVE Pinning' /\ Copying'
  <2>1. stage = "copy" /\ todo # <<>> /\ AtPacked(todo) /\ Head(todo).kind = "packed-refs"
      BY <1>1, <1>2, InTurn, Phases
  <2>2. AtRefs(todo')
      BY <1>1, <2>1, ListStep
  <2>3. ~IndexToCome(todo)
      BY <2>1, Phases
  <2>4. CopyIs(copy', copy.head, copy.loose, copy.packed, copy.index, copy.objects)
      BY <1>1, <1>2, SameCopy DEF Pinning
  <2> QED  BY <1>1, <1>2, <2>1, <2>2, <2>3, <2>4, CopyStep DEF RefsToCome, PackToCome, AfterIndex
<1> QED  BY <1>1, <1>2, ByParts

\* CopyRef: the ref that HEAD names was read when it was held.
LEMMA RefCopyKeeps ==
  ASSUME GitInv, CopyRef  PROVE GitInv'
<1>1. CASE FullRefs
  <2>1. UNCHANGED <<repo, request>>
      BY DEF CopyRef, Then, Moves, GitFails
  <2> QED  BY <1>1, <2>1, ByParts
<1>2. CASE ~FullRefs
  <2>1. /\ Turn("branch") /\ stage' = "copy"
        /\ UNCHANGED <<repo, request, seen, absent, pins, copy>> /\ todo' = <<>> \o Tail(todo)
      BY <1>2 DEF CopyRef, Then, Moves
  <2>2. ASSUME RepositoryOK, Pinning, Copying  PROVE Pinning' /\ Copying'
    <3>1. stage = "copy" /\ todo # <<>> /\ Branching(todo) /\ Head(todo).kind = "branch"
        BY <2>1, <2>2, InTurn, Phases
    <3>2. Branching(todo')
        BY <2>1, <3>1, BranchStep
    <3>3. ~IndexToCome(todo) /\ ~RefsToCome(todo)
        BY <3>1, Phases
    <3>4. CopyIs(copy', copy.head, copy.loose, copy.packed, copy.index, copy.objects)
        BY <2>1, <2>2, SameCopy DEF Pinning
    <3> QED  BY <2>1, <2>2, <3>1, <3>2, <3>3, <3>4, CopyStep DEF PackToCome
  <2> QED  BY <2>1, <2>2, ByParts
<1> QED  BY <1>1, <1>2

\* CopyIndex reads the index, or has read it.
LEMMA IndexKeeps ==
  ASSUME GitInv, CopyIndex  PROVE GitInv'
<1> DEFINE b == copy.head
<1>1. /\ Turn("index") /\ stage' = "copy" /\ UNCHANGED <<repo, request, seen, absent>>
      /\ todo' = <<>> \o Tail(todo) /\ pins' = pins \cup {"index"}
      /\ copy' = IF "index" \in pins THEN copy ELSE [copy EXCEPT !.index = repo.index]
    BY DEF CopyIndex, Then, Moves, Keep
<1>2. ASSUME ~FullRefs, RepositoryOK, Pinning, Copying  PROVE Pinning' /\ Copying'
  <2>1. stage = "copy" /\ todo # <<>> /\ AtIndex(todo)
      BY <1>1, <1>2, InTurn, Phases
  <2>2. AfterIndex(todo')
      BY <1>1, <2>1, ListStep
  <2>3. b \in Branch /\ b = repo.head /\ b # "index"
      BY <1>2, <2>1, GitAssumption DEF Pinning, CopyOK, PinsHold
  <2>4. CopyIs(copy', b, copy.loose, copy.packed, repo.index, copy.objects)
    <3>1. CASE "index" \in pins
        BY <1>1, <1>2, <2>1, <3>1 DEF Pinning, PinsHold, CopyOK, CopyIs
    <3>2. CASE "index" \notin pins
        BY <1>1, <1>2, <3>2, SetIndex DEF Pinning, CopyOK
    <3> QED  BY <3>1, <3>2
  <2>5. CopyOK'
      BY <1>1, <1>2, <2>4 DEF Pinning, CopyOK, CopyIs
  <2>6. SeenNow' /\ NotYet' /\ PinsHold' /\ Covered'
      BY <1>1, <1>2, <2>1, <2>3, <2>4
      DEF Pinning, SeenNow, NotYet, PinsHold, Covered, Planning, CopyIs
  <2>7. PackToCome(todo') /\ RefsToCome(todo')
      BY <2>2 DEF RefsToCome, PackToCome
  <2>8. Shape' /\ Objects' /\ Shown'
      BY <1>1, <2>7 DEF Shape, Objects, Shown, Whole
  <2>9. KeptAbsent'
      BY <1>1, <1>2, <2>1, <2>4 DEF Copying, KeptAbsent, Stays, CopyIs
  <2>10. Pair(copy') \in seen \/ Unborn(copy') \/ Doomed'
    <3>1. Pair(copy') \in seen \/ Unborn(copy') \/ (Stays /\ repo.loose[b] # NoCommit)
        BY <1>2, <2>1, <2>4, OfThisMoment
    <3>2. copy'.head = b
        BY <2>4 DEF CopyIs
    <3> QED  BY <1>1, <2>7, <3>1, <3>2 DEF Doomed, Stays
  <2>11. Moment'
      BY <1>1, <2>10 DEF Moment
  <2> QED  BY <2>5, <2>6, <2>8, <2>9, <2>11 DEF Pinning, Copying
<1> QED  BY <1>1, <1>2, ByParts

\* ListRefs ends a copy whose ref appeared meanwhile, so that none is doomed behind it.
LEMMA RefListKeeps ==
  ASSUME GitInv, ListRefs  PROVE GitInv'
<1> DEFINE refs == {b \in Branch : repo.loose[b] # NoCommit /\ (FullRefs \/ b = copy.head)}
<1>1. CASE GitFails
    BY <1>1, FailsKeep
<1>2. CASE ~GitFails
  <2>1. /\ Turn("refs") /\ stage' = "copy" /\ UNCHANGED <<repo, request, seen, absent, pins, copy>>
        /\ todo' = Items("branch", refs) \o Tail(todo) /\ refs \cap absent = {}
      BY <1>2 DEF ListRefs, Then, Moves
  <2>2. Items("branch", refs) \in Seq(Branches)
    <3>1. refs \subseteq Branch
        OBVIOUS
    <3> HIDE DEF refs
    <3>2. IsFiniteSet(refs)
        BY <3>1, FS_Subset, GitAssumption
    <3>3. Items("branch", refs) \in Seq(Entries("branch", refs))
        BY <3>2, ItemsListed
    <3>4. Entries("branch", refs) \subseteq Branches
        BY <3>1 DEF Entries, Branches
    <3> QED  BY <3>3, <3>4, SeqMonotonic
  <2>3. ASSUME ~FullRefs, RepositoryOK, Pinning, Copying  PROVE Pinning' /\ Copying'
    <3>1. stage = "copy" /\ todo # <<>> /\ AtRefs(todo) /\ Head(todo).kind = "refs"
        BY <2>1, <2>3, InTurn, Phases
    <3>2. Branching(todo')
        BY <2>1, <2>2, <3>1, ListStep
    <3>3. ~IndexToCome(todo)
        BY <3>1, Phases
    <3>4. ~Doomed
        BY <2>1, <2>3 DEF Doomed, Stays, Pinning, CopyOK
    <3>5. CopyOK' /\ SeenNow' /\ NotYet' /\ PinsHold' /\ Covered'
        BY <2>1, <2>3, <3>1
        DEF Pinning, CopyOK, SeenNow, NotYet, PinsHold, Covered, Planning
    <3>6. Shape' /\ Objects' /\ Shown'
        BY <2>1, <3>2 DEF Shape, Objects, Shown, Whole, PackToCome
    <3>7. KeptAbsent'
        BY <2>1, <2>3, <3>1 DEF Copying, KeptAbsent, Stays
    <3>8. Pair(copy) \in seen \/ Unborn(copy)
        BY <2>3, <3>1, <3>3, <3>4 DEF Copying, Moment
    <3>9. Moment'
        BY <2>1, <3>3, <3>8 DEF Moment, Pair, Resolved, Unborn, HasPackedRefs
    <3> QED  BY <3>5, <3>6, <3>7, <3>9 DEF Pinning, Copying
  <2> QED  BY <2>1, <2>3, ByParts
<1> QED  BY <1>1, <1>2

\* Objects are added to the copy, after the refs were listed.
LEMMA ObjectStep ==
  ASSUME RepositoryOK, Pinning, Copying, stage = "copy", stage' = "copy",
         UNCHANGED <<repo, seen, absent, pins>>,
         NEW objects,
         CopyIs(copy', copy.head, copy.loose, copy.packed, copy.index, objects),
         Whole(todo'), ~RefsToCome(todo), Objects'
  PROVE  Pinning' /\ Copying'
<1>1. CopyOK'
    BY DEF Pinning, CopyOK, CopyIs
<1>2. SeenNow' /\ NotYet' /\ PinsHold' /\ Covered'
    BY DEF Pinning, SeenNow, NotYet, PinsHold, Covered, Planning, CopyIs
<1>3. Pair(copy') = Pair(copy) /\ Unborn(copy') = Unborn(copy)
    BY DEF Pair, Resolved, Unborn, HasPackedRefs, CopyIs
<1>4. Shape' /\ Shown'
    BY DEF Shape, Shown
<1>5. KeptAbsent'
    BY DEF Copying, KeptAbsent, Stays, CopyIs
<1>6. ~IndexToCome(todo)
    BY DEF RefsToCome
<1>7. Moment'
    BY <1>3, <1>6 DEF Copying, Moment, Doomed
<1> QED  BY <1>1, <1>2, <1>4, <1>5, <1>7 DEF Pinning, Copying

\* CopyPack: without a repack the packs stay what they are.
LEMMA PackKeeps ==
  ASSUME GitInv, CopyPack  PROVE GitInv'
<1>1. /\ Turn("pack") /\ stage' = "copy" /\ UNCHANGED <<repo, request, seen, absent, pins>>
      /\ todo' = <<>> \o Tail(todo) /\ copy' = [copy EXCEPT !.objects = copy.objects \cup repo.pack]
    BY DEF CopyPack, Then, Moves
<1>2. ASSUME ~FullRefs, RepositoryOK, Pinning, Copying  PROVE Pinning' /\ Copying'
  <2>1. stage = "copy" /\ todo # <<>> /\ Branching(todo) /\ Head(todo).kind = "pack"
      BY <1>1, <1>2, InTurn, Phases
  <2>2. AtLoose(todo') /\ ~RefsToCome(todo)
      BY <1>1, <2>1, BranchStep, Phases
  <2> DEFINE objects == copy.objects \cup repo.pack
  <2>3. copy' = [copy EXCEPT !.objects = objects]
      BY <1>1
  <2>4. repo.pack \subseteq objects
      OBVIOUS
  <2> HIDE DEF objects
  <2>5. CopyIs(copy', copy.head, copy.loose, copy.packed, copy.index, objects)
      BY <1>2, <2>3, SetObjects DEF Pinning, CopyOK
  <2>6. Objects'
      BY <1>1, <2>2, <2>4, <2>5 DEF Objects, CopyIs
  <2> QED  BY <1>1, <1>2, <2>1, <2>2, <2>5, <2>6, ObjectStep DEF Whole
<1> QED  BY <1>1, <1>2, ByParts

\* CopyLoose: with the loose objects every commit of the repository is in the copy.
LEMMA LooseKeeps ==
  ASSUME GitInv, CopyLoose  PROVE GitInv'
<1>1. /\ Turn("loose") /\ stage' = "copy" /\ UNCHANGED <<repo, request, seen, absent, pins>>
      /\ todo' = <<>> \o Tail(todo)
      /\ copy' = [copy EXCEPT !.objects = copy.objects \cup repo.unpacked]
    BY DEF CopyLoose, Then, Moves
<1>2. ASSUME ~FullRefs, RepositoryOK, Pinning, Copying  PROVE Pinning' /\ Copying'
  <2>1. stage = "copy" /\ todo # <<>> /\ AtLoose(todo) /\ Head(todo).kind = "loose"
      BY <1>1, <1>2, InTurn, Phases
  <2>2. todo' = <<>> /\ ~RefsToCome(todo) /\ ~PackToCome(todo)
      BY <1>1, <2>1, ListStep, Phases
  <2> DEFINE objects == copy.objects \cup repo.unpacked
  <2>3. copy' = [copy EXCEPT !.objects = objects]
      BY <1>1
  <2>4. ~repo.repacked => Commits(repo) \subseteq objects
      BY <1>2, <2>1, <2>2 DEF Copying, Objects, Commits
  <2>5. Resolved(copy) \in Commits(repo) \cup {NoCommit}
      BY <1>2 DEF Pinning, CopyOK, Resolved, Refs
  <2>6. ~repo.repacked => repo.pack \subseteq objects
      BY <2>4 DEF Commits
  <2> HIDE DEF objects
  <2>7. CopyIs(copy', copy.head, copy.loose, copy.packed, copy.index, objects)
      BY <1>2, <2>3, SetObjects DEF Pinning, CopyOK
  <2>8. Resolved(copy') = Resolved(copy)
      BY <2>7 DEF Resolved, CopyIs
  <2>9. Objects'
      BY <1>1, <2>4, <2>5, <2>6, <2>7, <2>8 DEF Objects, CopyIs
  <2> QED  BY <1>1, <1>2, <2>1, <2>2, <2>7, <2>9, ObjectStep DEF Whole
<1> QED  BY <1>1, <1>2, ByParts

\* Complete: the handles go, the copy stays.
LEMMA CompleteKeeps ==
  ASSUME GitInv, Complete  PROVE GitInv'
<1>1. CASE GitFails
    BY <1>1, FailsKeep
<1>2. CASE ~GitFails
  <2>1. /\ stage = "copy" /\ todo = <<>> /\ stage' = "run"
        /\ UNCHANGED <<repo, request, seen, absent, copy>>
      BY <1>2 DEF Complete, Moves
  <2>2. ASSUME ~FullRefs, RepositoryOK, Pinning, Copying  PROVE Pinning' /\ Copying'
    <3>1. ~IndexToCome(todo) /\ ~RefsToCome(todo) /\ ~PackToCome(todo) /\ ~AtLoose(todo)
        BY <2>1, Phases, ListStep
    <3>2. Shown'
        BY <2>1, <2>2, <3>1
        DEF Copying, Moment, Doomed, Objects, Shown, Pair, Resolved, Unborn, HasPackedRefs
    <3>3. CopyOK' /\ SeenNow' /\ NotYet' /\ PinsHold' /\ Covered'
        BY <2>1, <2>2 DEF Pinning, CopyOK, SeenNow, NotYet, PinsHold, Covered, Planning, Pair, Resolved
    <3>4. Shape' /\ KeptAbsent' /\ Moment' /\ Objects'
        BY <2>1 DEF Shape, KeptAbsent, Moment, Objects
    <3> QED  BY <3>2, <3>3, <3>4 DEF Pinning, Copying
  <2> QED  BY <2>1, <2>2, ByParts
<1> QED  BY <1>1, <1>2

\* A command changes nothing of the copy.
LEMMA RunKeeps ==
  ASSUME GitInv, RunCommand  PROVE GitInv'
<1>1. stage = "run" /\ stage' = "run" /\ UNCHANGED <<repo, request, seen, absent, pins, copy>>
    BY DEF RunCommand, Moves
<1>2. ASSUME Pinning, Copying  PROVE Pinning' /\ Copying'
  <2>1. CopyOK' /\ SeenNow' /\ NotYet' /\ PinsHold' /\ Covered'
      BY <1>1, <1>2 DEF Pinning, CopyOK, SeenNow, NotYet, PinsHold, Covered, Planning, Pair, Resolved
  <2>2. Shape' /\ KeptAbsent' /\ Moment' /\ Objects' /\ Shown'
      BY <1>1, <1>2
      DEF Copying, Shape, KeptAbsent, Moment, Objects, Shown, Pair, Resolved, Unborn, HasPackedRefs
  <2> QED  BY <2>1, <2>2 DEF Pinning, Copying
<1> QED  BY <1>1, <1>2, ByParts

\* EndGit removes the copy.
LEMMA EndKeeps ==
  ASSUME GitInv, EndGit  PROVE GitInv'
<1>1. stage' = "ended" /\ UNCHANGED <<repo, request>> /\ copy' = Nothing
    BY DEF EndGit, Moves
<1>2. ASSUME RepositoryOK  PROVE CopyOK'
  <2>1. CopyIs(copy', CHOOSE b \in Branch : TRUE, NoRefs, NoRefs, NoIndex, {})
      BY <1>1 DEF Nothing, CopyIs, CopyRecord, NoRefs
  <2>2. (CHOOSE b \in Branch : TRUE) \in Branch
      BY <1>2 DEF RepositoryOK
  <2>3. NoRefs \in Refs(repo)'
      BY DEF NoRefs, Refs
  <2> QED  BY <2>1, <2>2, <2>3 DEF CopyOK, CopyIs
<1>3. SeenNow' /\ NotYet' /\ PinsHold' /\ Covered'
    BY <1>1 DEF SeenNow, NotYet, PinsHold, Covered, Planning
<1> QED  BY <1>1, <1>2, <1>3, ByParts, NotCopying DEF Pinning

-----------------------------------------------------------------------------
(* Of one moment.                                                          *)

\* Every step of the staging keeps the invariant.
LEMMA StagingKeeps ==
  ASSUME GitInv, Staging  PROVE GitInv'
<1>1. CASE ContainmentFails
    BY <1>1, FailsKeep DEF ContainmentFails
<1>2. CASE StageBegins \/ PlanPruning \/ PinHead \/ PinPacked \/ PinRef
    BY <1>2, BeginsKeeps, PruningKeeps, HeadKeeps, PackedKeeps, RefKeeps
<1>3. CASE ListDirectory \/ CopyFile \/ ListGit \/ CopyHead \/ CopyConfig \/ CopyIndex
    BY <1>3, DirectoryKeeps, FileKeeps, GitListKeeps, HeadCopyKeeps, ConfigKeeps, IndexKeeps
<1>4. CASE CopyPacked \/ ListRefs \/ CopyRef \/ CopyPack \/ CopyLoose \/ Complete
    BY <1>4, PackedCopyKeeps, RefListKeeps, RefCopyKeeps, PackKeeps, LooseKeeps, CompleteKeeps
<1>5. CASE RunCommand \/ CommandFails \/ BatchEnds
    BY <1>5, RunKeeps, EndKeeps DEF CommandFails, BatchEnds
<1> QED  BY <1>1, <1>2, <1>3, <1>4, <1>5 DEF Staging

\* The invariant of git_broker_sandbox.py holds for any repository, any branches and paths, and any

\* number of changes by the user: the held handles tie what is read to what stands there.
THEOREM GitInvariant == GitSpec => []GitInv
<1>1. GitInv /\ [GitNext]_allVars => GitInv'
  <2> SUFFICES ASSUME GitInv, [GitNext]_allVars  PROVE GitInv'
      OBVIOUS
  <2>1. CASE Staging
      BY <2>1, StagingKeeps
  <2>2. CASE UserOfGit
      BY <2>2, UserKeeps
  <2>3. CASE Elsewhere
      BY <2>3, ElsewhereKeeps
  <2>4. CASE UNCHANGED allVars
      BY <2>4, UnchangedKeeps DEF allVars
  <2> QED  BY <2>1, <2>2, <2>3, <2>4 DEF GitNext
<1> QED  BY <1>1, InitGit, PTL DEF GitSpec

\* Git is never shown the HEAD of one moment with the index of another: for any repositories and

\* requests, and any number of commits, switches, pack-refs and index changes during the copy.
THEOREM GitSeesOneMoment == GitSpec => []HeadAndIndexOfOneMoment
<1>1. GitInv => HeadAndIndexOfOneMoment
    BY DEF GitInv, Copying, Shown, HeadAndIndexOfOneMoment
<1> QED  BY <1>1, GitInvariant, PTL

-----------------------------------------------------------------------------
(* Plans: what an operation may add to one.                                *)

\* A plan has the fields it is built from.
PlanRecord(pl) ==
  pl = [snaps |-> pl.snaps, absent |-> pl.absent, changes |-> pl.changes, dels |-> pl.dels,
        dirs |-> pl.dirs, parents |-> pl.parents, files |-> pl.files, removed |-> pl.removed,
        copied |-> pl.copied, matches |-> pl.matches, ops |-> pl.ops]

\* Whatever the builder has seen of the workspace: it changes only what it has loaded or made,
\* and a directory it makes is a file to it only where a file had come into its place.
PlanOK(pl) ==
  /\ PlanRecord(pl)
  /\ Scope(pl) \subseteq Path /\ DOMAIN pl.parents \subseteq Path
  /\ \A p \in DOMAIN pl.snaps : pl.snaps[p].kind = "file"
  /\ pl.dirs \subseteq pl.absent
  /\ DOMAIN pl.changes \subseteq DOMAIN pl.files \cup pl.removed
  /\ pl.dirs \cap (DOMAIN pl.files \cup pl.removed) \subseteq DOMAIN pl.snaps

\* What a step of the builder leaves of a plan.
PlanIs(r, snaps, free, changes, dels, dirs, parents, files, removed) ==
  /\ PlanRecord(r)
  /\ r.snaps = snaps /\ r.absent = free /\ r.changes = changes /\ r.dels = dels
  /\ r.dirs = dirs /\ r.parents = parents /\ r.files = files /\ r.removed = removed

\* A function that was given one more value, or lost one.
LEMMA Extended ==
  ASSUME NEW f, NEW p, NEW v
  PROVE  /\ DOMAIN With(f, p, v) = DOMAIN f \cup {p} /\ DOMAIN Without(f, p) = DOMAIN f \ {p}
         /\ With(f, p, v)[p] = v /\ \A q \in DOMAIN f : q # p => With(f, p, v)[q] = f[q]
  BY DEF With, Without

\* An assignment to one field of a plan; one lemma for each field.
LEMMA PlanSnaps ==
  ASSUME NEW pl, PlanRecord(pl), NEW v
  PROVE  PlanIs([pl EXCEPT !.snaps = v],
                v, pl.absent, pl.changes, pl.dels, pl.dirs, pl.parents, pl.files, pl.removed)
  <1> DEFINE r == [pl EXCEPT !.snaps = v]
  <1>1. PlanRecord(r)  BY DEF PlanRecord
  <1>2. /\ r.snaps = v /\ r.absent = pl.absent /\ r.changes = pl.changes /\ r.dels = pl.dels
        /\ r.dirs = pl.dirs /\ r.parents = pl.parents /\ r.files = pl.files
        /\ r.removed = pl.removed
    BY DEF PlanRecord
  <1> QED  BY <1>1, <1>2 DEF PlanIs

\* The same for the paths that must not exist.
LEMMA PlanAbsent ==
  ASSUME NEW pl, PlanRecord(pl), NEW v
  PROVE  PlanIs([pl EXCEPT !.absent = v],
                pl.snaps, v, pl.changes, pl.dels, pl.dirs, pl.parents, pl.files, pl.removed)
  <1> DEFINE r == [pl EXCEPT !.absent = v]
  <1>1. PlanRecord(r)  BY DEF PlanRecord
  <1>2. /\ r.snaps = pl.snaps /\ r.absent = v /\ r.changes = pl.changes /\ r.dels = pl.dels
        /\ r.dirs = pl.dirs /\ r.parents = pl.parents /\ r.files = pl.files
        /\ r.removed = pl.removed
    BY DEF PlanRecord
  <1> QED  BY <1>1, <1>2 DEF PlanIs

\* The same for what is written.
LEMMA PlanChanges ==
  ASSUME NEW pl, PlanRecord(pl), NEW v
  PROVE  PlanIs([pl EXCEPT !.changes = v],
                pl.snaps, pl.absent, v, pl.dels, pl.dirs, pl.parents, pl.files, pl.removed)
  <1> DEFINE r == [pl EXCEPT !.changes = v]
  <1>1. PlanRecord(r)  BY DEF PlanRecord
  <1>2. /\ r.snaps = pl.snaps /\ r.absent = pl.absent /\ r.changes = v /\ r.dels = pl.dels
        /\ r.dirs = pl.dirs /\ r.parents = pl.parents /\ r.files = pl.files
        /\ r.removed = pl.removed
    BY DEF PlanRecord
  <1> QED  BY <1>1, <1>2 DEF PlanIs

\* The same for what is removed.
LEMMA PlanDels ==
  ASSUME NEW pl, PlanRecord(pl), NEW v
  PROVE  PlanIs([pl EXCEPT !.dels = v],
                pl.snaps, pl.absent, pl.changes, v, pl.dirs, pl.parents, pl.files, pl.removed)
  <1> DEFINE r == [pl EXCEPT !.dels = v]
  <1>1. PlanRecord(r)  BY DEF PlanRecord
  <1>2. /\ r.snaps = pl.snaps /\ r.absent = pl.absent /\ r.changes = pl.changes /\ r.dels = v
        /\ r.dirs = pl.dirs /\ r.parents = pl.parents /\ r.files = pl.files
        /\ r.removed = pl.removed
    BY DEF PlanRecord
  <1> QED  BY <1>1, <1>2 DEF PlanIs

\* The same for the directories that are made.
LEMMA PlanDirs ==
  ASSUME NEW pl, PlanRecord(pl), NEW v
  PROVE  PlanIs([pl EXCEPT !.dirs = v],
                pl.snaps, pl.absent, pl.changes, pl.dels, v, pl.parents, pl.files, pl.removed)
  <1> DEFINE r == [pl EXCEPT !.dirs = v]
  <1>1. PlanRecord(r)  BY DEF PlanRecord
  <1>2. /\ r.snaps = pl.snaps /\ r.absent = pl.absent /\ r.changes = pl.changes /\ r.dels = pl.dels
        /\ r.dirs = v /\ r.parents = pl.parents /\ r.files = pl.files
        /\ r.removed = pl.removed
    BY DEF PlanRecord
  <1> QED  BY <1>1, <1>2 DEF PlanIs

\* The same for the directories it is bound to.
LEMMA PlanParents ==
  ASSUME NEW pl, PlanRecord(pl), NEW v
  PROVE  PlanIs([pl EXCEPT !.parents = v],
                pl.snaps, pl.absent, pl.changes, pl.dels, pl.dirs, v, pl.files, pl.removed)
  <1> DEFINE r == [pl EXCEPT !.parents = v]
  <1>1. PlanRecord(r)  BY DEF PlanRecord
  <1>2. /\ r.snaps = pl.snaps /\ r.absent = pl.absent /\ r.changes = pl.changes /\ r.dels = pl.dels
        /\ r.dirs = pl.dirs /\ r.parents = v /\ r.files = pl.files
        /\ r.removed = pl.removed
    BY DEF PlanRecord
  <1> QED  BY <1>1, <1>2 DEF PlanIs

\* The same for the files as the operations see them.
LEMMA PlanFiles ==
  ASSUME NEW pl, PlanRecord(pl), NEW v
  PROVE  PlanIs([pl EXCEPT !.files = v],
                pl.snaps, pl.absent, pl.changes, pl.dels, pl.dirs, pl.parents, v, pl.removed)
  <1> DEFINE r == [pl EXCEPT !.files = v]
  <1>1. PlanRecord(r)  BY DEF PlanRecord
  <1>2. /\ r.snaps = pl.snaps /\ r.absent = pl.absent /\ r.changes = pl.changes /\ r.dels = pl.dels
        /\ r.dirs = pl.dirs /\ r.parents = pl.parents /\ r.files = v
        /\ r.removed = pl.removed
    BY DEF PlanRecord
  <1> QED  BY <1>1, <1>2 DEF PlanIs

\* The same for the files that an operation took away.
LEMMA PlanRemoved ==
  ASSUME NEW pl, PlanRecord(pl), NEW v
  PROVE  PlanIs([pl EXCEPT !.removed = v],
                pl.snaps, pl.absent, pl.changes, pl.dels, pl.dirs, pl.parents, pl.files, v)
  <1> DEFINE r == [pl EXCEPT !.removed = v]
  <1>1. PlanRecord(r)  BY DEF PlanRecord
  <1>2. /\ r.snaps = pl.snaps /\ r.absent = pl.absent /\ r.changes = pl.changes /\ r.dels = pl.dels
        /\ r.dirs = pl.dirs /\ r.parents = pl.parents /\ r.files = pl.files
        /\ r.removed = v
    BY DEF PlanRecord
  <1> QED  BY <1>1, <1>2 DEF PlanIs

\* The same for the files that were copied.
LEMMA PlanCopied ==
  ASSUME NEW pl, PlanRecord(pl), NEW v
  PROVE  PlanIs([pl EXCEPT !.copied = v],
                pl.snaps, pl.absent, pl.changes, pl.dels, pl.dirs, pl.parents, pl.files, pl.removed)
  <1> DEFINE r == [pl EXCEPT !.copied = v]
  <1>1. PlanRecord(r)  BY DEF PlanRecord
  <1>2. /\ r.snaps = pl.snaps /\ r.absent = pl.absent /\ r.changes = pl.changes /\ r.dels = pl.dels
        /\ r.dirs = pl.dirs /\ r.parents = pl.parents /\ r.files = pl.files
        /\ r.removed = pl.removed
    BY DEF PlanRecord
  <1> QED  BY <1>1, <1>2 DEF PlanIs

\* The same for the number of matches.
LEMMA PlanMatches ==
  ASSUME NEW pl, PlanRecord(pl), NEW v
  PROVE  PlanIs([pl EXCEPT !.matches = v],
                pl.snaps, pl.absent, pl.changes, pl.dels, pl.dirs, pl.parents, pl.files, pl.removed)
  <1> DEFINE r == [pl EXCEPT !.matches = v]
  <1>1. PlanRecord(r)  BY DEF PlanRecord
  <1>2. /\ r.snaps = pl.snaps /\ r.absent = pl.absent /\ r.changes = pl.changes /\ r.dels = pl.dels
        /\ r.dirs = pl.dirs /\ r.parents = pl.parents /\ r.files = pl.files
        /\ r.removed = pl.removed
    BY DEF PlanRecord
  <1> QED  BY <1>1, <1>2 DEF PlanIs

\* The same for the operations that were done.
LEMMA PlanOps ==
  ASSUME NEW pl, PlanRecord(pl), NEW v
  PROVE  PlanIs([pl EXCEPT !.ops = v],
                pl.snaps, pl.absent, pl.changes, pl.dels, pl.dirs, pl.parents, pl.files, pl.removed)
  <1> DEFINE r == [pl EXCEPT !.ops = v]
  <1>1. PlanRecord(r)  BY DEF PlanRecord
  <1>2. /\ r.snaps = pl.snaps /\ r.absent = pl.absent /\ r.changes = pl.changes /\ r.dels = pl.dels
        /\ r.dirs = pl.dirs /\ r.parents = pl.parents /\ r.files = pl.files
        /\ r.removed = pl.removed
    BY DEF PlanRecord
  <1> QED  BY <1>1, <1>2 DEF PlanIs

\* _load_file.
LEMMA Loads ==
  ASSUME NEW pl, PlanOK(pl), NEW p \in Path, NEW expected, NEW l \in Load(pl, p, expected)
  PROVE  /\ p \notin pl.removed
         /\ (l = pl /\ p \in DOMAIN pl.files) \/
            (IsFile(p) /\ \E files :
               /\ DOMAIN files = DOMAIN pl.files \cup {p}
               /\ PlanIs(l, With(pl.snaps, p, disk[p]), pl.absent, pl.changes, pl.dels, pl.dirs,
                         pl.parents, files, pl.removed))
  <1> DEFINE snaps == With(pl.snaps, p, disk[p])
             file == State(disk[p].text, TRUE, FALSE, FALSE, FALSE)
             files == With(pl.files, p, file)
             loaded == [pl EXCEPT !.snaps = snaps, !.files = files]
             step == [pl EXCEPT !.snaps = snaps]
  <1>1. PlanRecord(pl)  BY DEF PlanOK
  <1>2. p \notin pl.removed
        /\ ((l = pl /\ p \in DOMAIN pl.files) \/ (IsFile(p) /\ l = loaded))
    BY DEF Load
  <1>3. DOMAIN files = DOMAIN pl.files \cup {p}  BY Extended
  <1>4. loaded = [step EXCEPT !.files = files]  OBVIOUS
  <1> HIDE DEF snaps, file, files, loaded
  <1>5. PlanIs(step, snaps, pl.absent, pl.changes, pl.dels, pl.dirs, pl.parents, pl.files, pl.removed)
    BY <1>1, PlanSnaps
  <1> HIDE DEF step
  <1>6. PlanIs(loaded, step.snaps, step.absent, step.changes, step.dels, step.dirs, step.parents, files,
               step.removed)
    BY <1>4, <1>5, PlanFiles DEF PlanIs
  <1>7. PlanIs(loaded, snaps, pl.absent, pl.changes, pl.dels, pl.dirs, pl.parents, files, pl.removed)
    BY <1>5, <1>6 DEF PlanIs
  <1> QED  BY <1>2, <1>3, <1>7 DEF snaps

\* What a plan is once a path was loaded into it.
Loaded(l, pl, p) ==
  /\ PlanOK(l) /\ p \in DOMAIN l.files /\ p \notin l.removed
  /\ l.parents = pl.parents /\ l.absent = pl.absent /\ l.dels = pl.dels /\ l.dirs = pl.dirs
  /\ Scope(l) \subseteq Scope(pl) \cup {p}
  /\ DOMAIN pl.snaps \subseteq DOMAIN l.snaps
  /\ DOMAIN l.files = DOMAIN pl.files \cup {p}
  /\ p \in DOMAIN pl.files \/ (IsFile(p) /\ p \in DOMAIN l.snaps)

\* A plan into which a file was read is one still.
LEMMA LoadKeeps ==
  ASSUME NEW pl, PlanOK(pl), NEW p \in Path, NEW expected, NEW l \in Load(pl, p, expected)
  PROVE  Loaded(l, pl, p)
  <1>1. p \notin pl.removed  BY Loads
  <1>2. CASE l = pl /\ p \in DOMAIN pl.files  BY <1>1, <1>2 DEF Loaded
  <1>3. ASSUME IsFile(p), NEW files, DOMAIN files = DOMAIN pl.files \cup {p},
               PlanIs(l, With(pl.snaps, p, disk[p]), pl.absent, pl.changes, pl.dels, pl.dirs,
                      pl.parents, files, pl.removed)
        PROVE  Loaded(l, pl, p)
    <2> DEFINE snaps == With(pl.snaps, p, disk[p])
    <2>1. DOMAIN snaps = DOMAIN pl.snaps \cup {p} /\ snaps[p] = disk[p]
          /\ \A q \in DOMAIN pl.snaps : q # p => snaps[q] = pl.snaps[q]
      BY DEF With
    <2>2. l.snaps = snaps  BY <1>3 DEF PlanIs
    <2> HIDE DEF snaps
    <2>3. PlanRecord(l) /\ l.absent = pl.absent /\ l.changes = pl.changes /\ l.dels = pl.dels
          /\ l.dirs = pl.dirs /\ l.parents = pl.parents /\ l.files = files /\ l.removed = pl.removed
      BY <1>3 DEF PlanIs
    <2>4. Scope(l) = Scope(pl) \cup {p}  BY <2>1, <2>2, <2>3 DEF Scope
    <2>5. \A q \in DOMAIN l.snaps : l.snaps[q].kind = "file"
      BY <1>3, <2>1, <2>2 DEF IsFile, PlanOK
    <2>6. PlanOK(l)
      BY <1>3, <2>1, <2>2, <2>3, <2>4, <2>5 DEF PlanOK
    <2> QED  BY <1>1, <1>3, <2>1, <2>2, <2>3, <2>4, <2>6 DEF Loaded
  <1> QED  BY <1>2, <1>3, Loads

\* What a plan has after one more operation; the last part is for text edits.
Steps(r, pl, op) ==
  /\ PlanOK(r) /\ r.parents = pl.parents
  /\ op.op = "replace" =>
       /\ r.absent = pl.absent /\ r.dels = pl.dels
       /\ Scope(r) \subseteq Scope(pl) \cup {op.path}
       /\ DOMAIN r.files = DOMAIN pl.files \cup {op.path}
       /\ DOMAIN pl.snaps \subseteq DOMAIN r.snaps
       /\ op.path \in DOMAIN pl.files \/ (IsFile(op.path) /\ op.path \in DOMAIN r.snaps)

\* mkdir.
LEMMA MkdirSteps ==
  ASSUME NEW pl, PlanOK(pl), NEW op, op.op = "mkdir", op.path \in Path, NEW r \in Mkdir(pl, op)
  PROVE  Steps(r, pl, op)
  <1> DEFINE dirs == pl.dirs \cup {op.path}
             free == pl.absent \cup {op.path}
             step == [pl EXCEPT !.dirs = dirs]
  <1>1. r = [pl EXCEPT !.dirs = dirs, !.absent = free]
        /\ op.path \notin DOMAIN pl.files \cup pl.removed
    BY DEF Mkdir, FreePath
  <1>2. r = [step EXCEPT !.absent = free]  BY <1>1
  <1>3. op.path \in dirs /\ dirs \subseteq pl.dirs \cup {op.path} /\ pl.dirs \subseteq dirs
        /\ free = pl.absent \cup {op.path}
    OBVIOUS
  <1>4. PlanRecord(pl)  BY DEF PlanOK
  <1> HIDE DEF dirs, free
  <1>5. PlanIs(step, pl.snaps, pl.absent, pl.changes, pl.dels, dirs, pl.parents, pl.files, pl.removed)
    BY <1>4, PlanDirs
  <1> HIDE DEF step
  <1>6. PlanIs(r, pl.snaps, free, pl.changes, pl.dels, dirs, pl.parents, pl.files, pl.removed)
    BY <1>2, <1>5, PlanAbsent DEF PlanIs
  <1>7. PlanRecord(r) /\ r.snaps = pl.snaps /\ r.absent = free /\ r.changes = pl.changes
        /\ r.dels = pl.dels /\ r.dirs = dirs /\ r.parents = pl.parents /\ r.files = pl.files
        /\ r.removed = pl.removed
    BY <1>6 DEF PlanIs
  <1>8. Scope(r) = Scope(pl) \cup {op.path}  BY <1>3, <1>7 DEF Scope
  <1>9. PlanOK(r)  BY <1>1, <1>3, <1>7, <1>8 DEF PlanOK
  <1> QED  BY <1>7, <1>9 DEF Steps

\* A file is put where there was none.
LEMMA Puts ==
  ASSUME NEW pl, PlanOK(pl), NEW p \in Path, FreePath(pl, p), NEW file
  PROVE  /\ PlanOK(Put(pl, p, file)) /\ Put(pl, p, file).parents = pl.parents
         /\ Put(pl, p, file).files = With(pl.files, p, file)
         /\ Put(pl, p, file).removed = pl.removed
  <1> DEFINE free == pl.absent \cup {p}
             files == With(pl.files, p, file)
             changes == With(pl.changes, p, file.text)
             one == [pl EXCEPT !.absent = free]
             two == [one EXCEPT !.files = files]
             r == Put(pl, p, file)
  <1>1. r = [two EXCEPT !.changes = changes]  BY DEF Put
  <1>2. DOMAIN files = DOMAIN pl.files \cup {p} /\ DOMAIN changes = DOMAIN pl.changes \cup {p}
        /\ free = pl.absent \cup {p}
    BY Extended
  <1>3. PlanRecord(pl) /\ p \notin pl.dirs  BY DEF PlanOK, FreePath
  <1> HIDE DEF free, files, changes, r
  <1>4. PlanIs(one, pl.snaps, free, pl.changes, pl.dels, pl.dirs, pl.parents, pl.files, pl.removed)
    BY <1>3, PlanAbsent
  <1> HIDE DEF one
  <1>5. PlanIs(two, pl.snaps, free, pl.changes, pl.dels, pl.dirs, pl.parents, files, pl.removed)
    BY <1>4, PlanFiles DEF PlanIs
  <1> HIDE DEF two
  <1>6. PlanIs(r, pl.snaps, free, changes, pl.dels, pl.dirs, pl.parents, files, pl.removed)
    BY <1>1, <1>5, PlanChanges DEF PlanIs
  <1>7. PlanRecord(r) /\ r.snaps = pl.snaps /\ r.absent = free /\ r.changes = changes
        /\ r.dels = pl.dels /\ r.dirs = pl.dirs /\ r.parents = pl.parents /\ r.files = files
        /\ r.removed = pl.removed
    BY <1>6 DEF PlanIs
  <1>8. Scope(r) = Scope(pl) \cup {p}  BY <1>2, <1>7 DEF Scope
  <1>9. PlanOK(r)  BY <1>2, <1>3, <1>7, <1>8 DEF PlanOK
  <1> QED  BY <1>7, <1>9 DEF r, files

\* create.
LEMMA CreateSteps ==
  ASSUME NEW pl, PlanOK(pl), NEW op, op.op = "create", op.path \in Path, NEW r \in CreateFile(pl, op)
  PROVE  Steps(r, pl, op)
  <1> DEFINE file == State(op.text, FALSE, TRUE, FALSE, FALSE)
  <1>1. FreePath(pl, op.path) /\ r = Put(pl, op.path, file)  BY DEF CreateFile
  <1> HIDE DEF file
  <1>2. PlanOK(r) /\ r.parents = pl.parents  BY <1>1, Puts
  <1> QED  BY <1>2 DEF Steps

\* replace: the only operation of a text edit, so all its parts are shown.
LEMMA ReplaceSteps ==
  ASSUME NEW pl, PlanOK(pl), NEW op, op.op = "replace", op.path \in Path, NEW r \in Replace(pl, op)
  PROVE  Steps(r, pl, op)
  <1> DEFINE p == op.path
  <1>1. PICK l \in Load(pl, p, op.expected) :
          r = [l EXCEPT !.files[p].text = Replaced(@), !.files[p].modified = TRUE,
                        !.files[p].replaced = TRUE,
                        !.changes = With(@, p, Replaced(l.files[p].text))]
    BY DEF Replace
  <1>2. Loaded(l, pl, p)  BY <1>1, LoadKeeps
  <1> DEFINE one == [l EXCEPT !.files[p].text = Replaced(@)]
             two == [one EXCEPT !.files[p].modified = TRUE]
             three == [two EXCEPT !.files[p].replaced = TRUE]
             some(f, x) == PlanIs(f, l.snaps, l.absent, l.changes, l.dels, l.dirs, l.parents, x, l.removed)
                           /\ DOMAIN x = DOMAIN l.files
             changes == With(l.changes, p, Replaced(l.files[p].text))
  <1>3. r = [three EXCEPT !.changes = With(@, p, Replaced(l.files[p].text))]  BY <1>1
  <1>4. PlanRecord(l)  BY <1>2 DEF Loaded, PlanOK
  <1>5. \E x : some(one, x)
    <2> DEFINE x == [l.files EXCEPT ![p] = [l.files[p] EXCEPT !.text = Replaced(l.files[p].text)]]
    <2>1. one = [l EXCEPT !.files = x]  OBVIOUS
    <2>2. DOMAIN x = DOMAIN l.files  OBVIOUS
    <2> HIDE DEF x, one
    <2> QED  BY <1>4, <2>1, <2>2, PlanFiles
  <1> HIDE DEF one
  <1>6. \E x : some(two, x)
    <2>1. PICK y : some(one, y)  BY <1>5
    <2> DEFINE x == [one.files EXCEPT ![p] = [one.files[p] EXCEPT !.modified = TRUE]]
    <2>2. two = [one EXCEPT !.files = x]  OBVIOUS
    <2>3. DOMAIN x = DOMAIN one.files  OBVIOUS
    <2> HIDE DEF x, two
    <2>4. PlanIs(two, one.snaps, one.absent, one.changes, one.dels, one.dirs, one.parents, x, one.removed)
      BY <2>1, <2>2, PlanFiles DEF PlanIs
    <2>5. DOMAIN x = DOMAIN l.files  BY <2>1, <2>3 DEF PlanIs
    <2>6. some(two, x)  BY <2>1, <2>4, <2>5 DEF PlanIs
    <2> QED  BY <2>6
  <1> HIDE DEF two
  <1>7. PICK x : some(three, x)
    <2>1. PICK y : some(two, y)  BY <1>6
    <2> DEFINE x == [two.files EXCEPT ![p] = [two.files[p] EXCEPT !.replaced = TRUE]]
    <2>2. three = [two EXCEPT !.files = x]  OBVIOUS
    <2>3. DOMAIN x = DOMAIN two.files  OBVIOUS
    <2> HIDE DEF x, three
    <2>4. PlanIs(three, two.snaps, two.absent, two.changes, two.dels, two.dirs, two.parents, x, two.removed)
      BY <2>1, <2>2, PlanFiles DEF PlanIs
    <2>5. DOMAIN x = DOMAIN l.files  BY <2>1, <2>3 DEF PlanIs
    <2>6. some(three, x)  BY <2>1, <2>4, <2>5 DEF PlanIs
    <2> QED  BY <2>6
  <1>8. r = [three EXCEPT !.changes = With(three.changes, p, Replaced(l.files[p].text))]  BY <1>3
  <1> HIDE DEF three
  <1>9. three.changes = l.changes  BY <1>7 DEF PlanIs
  <1>10. With(three.changes, p, Replaced(l.files[p].text)) = changes  BY <1>9
  <1>11. r = [three EXCEPT !.changes = changes]  BY <1>8, <1>10
  <1>12. DOMAIN changes = DOMAIN l.changes \cup {p}  BY DEF With
  <1> HIDE DEF changes
  <1>13. PlanIs(r, three.snaps, three.absent, changes, three.dels, three.dirs, three.parents,
                three.files, three.removed)
    BY <1>7, <1>11, PlanChanges DEF PlanIs
  <1>14. /\ PlanRecord(r) /\ r.snaps = l.snaps /\ r.absent = l.absent /\ r.changes = changes
         /\ r.dels = l.dels /\ r.dirs = l.dirs /\ r.parents = l.parents
         /\ DOMAIN r.files = DOMAIN l.files /\ r.removed = l.removed
    BY <1>7, <1>13 DEF PlanIs
  <1>15. Scope(r) = Scope(l) \cup {p}  BY <1>12, <1>14 DEF Scope
  <1>16. PlanOK(r)  BY <1>2, <1>12, <1>14, <1>15 DEF PlanOK, Loaded
  <1> QED  BY <1>2, <1>14, <1>15, <1>16 DEF Steps, Loaded

\* copy: one file is read, the other is put where there was none.
LEMMA CopySteps ==
  ASSUME NEW pl, PlanOK(pl), NEW op, op.op = "copy", op.path \in Path, op.source \in Path,
         NEW r \in Copy(pl, op)
  PROVE  Steps(r, pl, op)
  <1>1. PICK l \in Load(pl, op.source, op.expected) :
          r = [Arrives(l, op) EXCEPT !.copied = @ \cup {op.source}] /\ FreePath(l, op.path)
    BY DEF Copy
  <1>2. PlanOK(l) /\ l.parents = pl.parents  BY <1>1, LoadKeeps DEF Loaded
  <1> DEFINE to == Arrives(l, op)
  <1>3. PlanOK(to) /\ to.parents = l.parents  BY <1>1, <1>2, Puts DEF Arrives
  <1>4. r = [to EXCEPT !.copied = to.copied \cup {op.source}]  BY <1>1
  <1> HIDE DEF to
  <1>5. PlanIs(r, to.snaps, to.absent, to.changes, to.dels, to.dirs, to.parents, to.files, to.removed)
    BY <1>3, <1>4, PlanCopied DEF PlanOK
  <1>6. PlanOK(r) /\ r.parents = to.parents  BY <1>3, <1>5 DEF PlanOK, PlanIs, Scope
  <1> QED  BY <1>2, <1>3, <1>6 DEF Steps

\* move: as a copy, and the source is removed.
LEMMA MoveSteps ==
  ASSUME NEW pl, PlanOK(pl), NEW op, op.op = "move", op.path \in Path, op.source \in Path,
         NEW r \in Move(pl, op)
  PROVE  Steps(r, pl, op)
  <1>1. PICK l \in Load(pl, op.source, op.expected) :
          /\ r = LET f == l.files[op.source]
                     to == Arrives(l, op)
                 IN [to EXCEPT !.files = Without(@, op.source), !.removed = @ \cup {op.source},
                               !.dels = IF f.existing THEN @ \cup {op.source} ELSE @,
                               !.changes = IF f.existing THEN @ ELSE Without(@, op.source)]
          /\ FreePath(l, op.path)
    BY DEF Move
  <1>2. PlanOK(l) /\ l.parents = pl.parents /\ op.source \in DOMAIN l.files
    BY <1>1, LoadKeeps DEF Loaded
  <1> DEFINE to == Arrives(l, op)
             there == l.files[op.source].existing
             files == Without(to.files, op.source)
             removed == to.removed \cup {op.source}
             dels == IF there THEN to.dels \cup {op.source} ELSE to.dels
             changes == IF there THEN to.changes ELSE Without(to.changes, op.source)
             one == [to EXCEPT !.files = files]
             two == [one EXCEPT !.removed = removed]
             three == [two EXCEPT !.dels = dels]
  <1>3. PlanOK(to) /\ to.parents = l.parents /\ op.source \in DOMAIN to.files
    <2> DEFINE f == l.files[op.source]
               new == State(f.text, FALSE, TRUE, f.replaced, TRUE)
    <2>1. to = Put(l, op.path, new)  BY DEF Arrives
    <2> HIDE DEF new, to
    <2>2. to.files = With(l.files, op.path, new)  BY <1>1, <1>2, <2>1, Puts
    <2>3. DOMAIN With(l.files, op.path, new) = DOMAIN l.files \cup {op.path}  BY DEF With
    <2> QED  BY <1>1, <1>2, <2>1, <2>2, <2>3, Puts
  <1>4. r = [to EXCEPT !.files = files, !.removed = removed, !.dels = dels, !.changes = changes]
    BY <1>1
  <1> HIDE DEF to
  <1>5. DOMAIN files = DOMAIN to.files \ {op.source}  BY DEF Without
  <1>6. DOMAIN Without(to.changes, op.source) = DOMAIN to.changes \ {op.source}  BY DEF Without
  <1>7. DOMAIN changes \subseteq DOMAIN to.changes  BY <1>6
  <1>8. dels \subseteq to.dels \cup {op.source}  OBVIOUS
  <1>9. r = [three EXCEPT !.changes = changes]  BY <1>4
  <1> HIDE DEF files, dels, changes, removed
  <1>10. PlanIs(one, to.snaps, to.absent, to.changes, to.dels, to.dirs, to.parents, files, to.removed)
    BY <1>3, PlanFiles DEF PlanOK
  <1> HIDE DEF one
  <1>11. PlanIs(two, to.snaps, to.absent, to.changes, to.dels, to.dirs, to.parents, files, removed)
    BY <1>10, PlanRemoved DEF PlanIs
  <1> HIDE DEF two
  <1>12. PlanIs(three, to.snaps, to.absent, to.changes, dels, to.dirs, to.parents, files, removed)
    BY <1>11, PlanDels DEF PlanIs
  <1> HIDE DEF three
  <1>13. PlanIs(r, to.snaps, to.absent, changes, dels, to.dirs, to.parents, files, removed)
    BY <1>9, <1>12, PlanChanges DEF PlanIs
  <1>14. /\ PlanRecord(r) /\ r.snaps = to.snaps /\ r.absent = to.absent /\ r.changes = changes
         /\ r.dels = dels /\ r.dirs = to.dirs /\ r.parents = to.parents
         /\ r.files = files /\ r.removed = removed
    BY <1>13 DEF PlanIs
  <1>15. Scope(r) \subseteq Scope(to) \cup {op.source}  BY <1>7, <1>8, <1>14 DEF Scope
  <1>16. DOMAIN r.files \cup r.removed = DOMAIN to.files \cup to.removed
    BY <1>3, <1>5, <1>14 DEF removed
  <1>17. PlanOK(r)  BY <1>3, <1>7, <1>14, <1>15, <1>16 DEF PlanOK
  <1> QED  BY <1>2, <1>3, <1>14, <1>17 DEF Steps

\* delete.
LEMMA DeleteSteps ==
  ASSUME NEW pl, PlanOK(pl), NEW op, op.op = "delete", op.path \in Path, NEW r \in Delete(pl, op)
  PROVE  Steps(r, pl, op)
  <1> DEFINE p == op.path
  <1>1. PICK l \in Load(pl, p, op.expected) :
          r = [l EXCEPT !.files = Without(@, p), !.removed = @ \cup {p}, !.dels = @ \cup {p}]
    BY DEF Delete
  <1>2. PlanOK(l) /\ l.parents = pl.parents /\ p \in DOMAIN l.files  BY <1>1, LoadKeeps DEF Loaded
  <1> DEFINE files == Without(l.files, p)
             removed == l.removed \cup {p}
             dels == l.dels \cup {p}
             one == [l EXCEPT !.files = files]
             two == [one EXCEPT !.removed = removed]
  <1>3. r = [l EXCEPT !.files = files, !.removed = removed, !.dels = dels]  BY <1>1
  <1>4. r = [two EXCEPT !.dels = dels]  BY <1>3
  <1>5. DOMAIN files = DOMAIN l.files \ {p}  BY Extended
  <1> HIDE DEF files, dels, removed
  <1>6. PlanIs(one, l.snaps, l.absent, l.changes, l.dels, l.dirs, l.parents, files, l.removed)
    BY <1>2, PlanFiles DEF PlanOK
  <1> HIDE DEF one
  <1>7. PlanIs(two, l.snaps, l.absent, l.changes, l.dels, l.dirs, l.parents, files, removed)
    BY <1>6, PlanRemoved DEF PlanIs
  <1> HIDE DEF two
  <1>8. PlanIs(r, l.snaps, l.absent, l.changes, dels, l.dirs, l.parents, files, removed)
    BY <1>4, <1>7, PlanDels DEF PlanIs
  <1>9. /\ PlanRecord(r) /\ r.snaps = l.snaps /\ r.absent = l.absent /\ r.changes = l.changes
        /\ r.dels = dels /\ r.dirs = l.dirs /\ r.parents = l.parents
        /\ r.files = files /\ r.removed = removed
    BY <1>8 DEF PlanIs
  <1>10. Scope(r) = Scope(l) \cup {p}  BY <1>9 DEF Scope, dels
  <1>11. DOMAIN r.files \cup r.removed = DOMAIN l.files \cup l.removed
    BY <1>2, <1>5, <1>9 DEF removed
  <1>12. PlanOK(r)  BY <1>2, <1>9, <1>10, <1>11 DEF PlanOK
  <1> QED  BY <1>2, <1>9, <1>12 DEF Steps

\* The replacement of workspace_replace in one file.
LEMMA ReplaceAllSteps ==
  ASSUME NEW pl, PlanOK(pl), NEW op, op.op = "all", op.path \in Path, NEW r \in ReplaceAll(pl, op)
  PROVE  Steps(r, pl, op)
  <1> DEFINE p == op.path
  <1>1. PICK l \in Load(pl, p, NoText) :
          r = LET text == l.files[p].text IN
              [l EXCEPT !.matches = @ + text.olds,
                        !.changes = IF text.olds = 0 THEN @ ELSE With(@, p, Replaced(text))]
    BY DEF ReplaceAll
  <1>2. PlanOK(l) /\ l.parents = pl.parents /\ p \in DOMAIN l.files  BY <1>1, LoadKeeps DEF Loaded
  <1> DEFINE text == l.files[p].text
             changes == IF text.olds = 0 THEN l.changes ELSE With(l.changes, p, Replaced(text))
             one == [l EXCEPT !.matches = l.matches + text.olds]
  <1>3. r = [l EXCEPT !.matches = l.matches + text.olds, !.changes = changes]  BY <1>1
  <1>4. r = [one EXCEPT !.changes = changes]  BY <1>3
  <1>5. DOMAIN With(l.changes, p, Replaced(text)) = DOMAIN l.changes \cup {p}  BY DEF With
  <1>6. DOMAIN changes \subseteq DOMAIN l.changes \cup {p}  BY <1>5
  <1> HIDE DEF changes, text
  <1>7. PlanIs(one, l.snaps, l.absent, l.changes, l.dels, l.dirs, l.parents, l.files, l.removed)
    BY <1>2, PlanMatches DEF PlanOK
  <1> HIDE DEF one
  <1>8. PlanIs(r, l.snaps, l.absent, changes, l.dels, l.dirs, l.parents, l.files, l.removed)
    BY <1>4, <1>7, PlanChanges DEF PlanIs
  <1>9. /\ PlanRecord(r) /\ r.snaps = l.snaps /\ r.absent = l.absent /\ r.changes = changes
        /\ r.dels = l.dels /\ r.dirs = l.dirs /\ r.parents = l.parents
        /\ r.files = l.files /\ r.removed = l.removed
    BY <1>8 DEF PlanIs
  <1>10. Scope(r) \subseteq Scope(l) \cup {p}  BY <1>6, <1>9 DEF Scope
  <1>11. PlanOK(r)  BY <1>2, <1>6, <1>9, <1>10 DEF PlanOK
  <1> QED  BY <1>2, <1>9, <1>11 DEF Steps

\* The operations a call may have to plan.
Operation(op) ==
  \/ op.op \in {"mkdir", "create", "replace", "copy", "move", "delete", "all"} /\ op.path \in Path
     /\ (op.op \in {"copy", "move"} => op.source \in Path)
  \/ op.op = "scan" /\ op.path \in Path \cup {Root}

\* Any operation leaves a plan that is one.
LEMMA PlannedSteps ==
  ASSUME NEW pl, PlanOK(pl), NEW op, Operation(op), op.op # "scan", NEW r \in Planned(pl, op)
  PROVE  Steps(r, pl, op)
  <1>1. op.path \in Path
        /\ op.op \in {"mkdir", "create", "replace", "copy", "move", "delete", "all"}
    BY DEF Operation
  <1>2. CASE op.op = "mkdir"  BY <1>1, <1>2, MkdirSteps DEF Planned
  <1>3. CASE op.op = "create"  BY <1>1, <1>3, CreateSteps DEF Planned
  <1>4. CASE op.op = "replace"  BY <1>1, <1>4, ReplaceSteps DEF Planned
  <1>5. CASE op.op = "copy"  BY <1>1, <1>5, CopySteps DEF Planned, Operation
  <1>6. CASE op.op = "move"  BY <1>1, <1>6, MoveSteps DEF Planned, Operation
  <1>7. CASE op.op = "delete"  BY <1>1, <1>7, DeleteSteps DEF Planned
  <1>8. CASE op.op = "all"  BY <1>1, <1>8, ReplaceAllSteps DEF Planned
  <1> QED  BY <1>1, <1>2, <1>3, <1>4, <1>5, <1>6, <1>7, <1>8

-----------------------------------------------------------------------------
(* The calls of the workspace tools.                                       *)

\* A list of operations that a call may plan: a text edit only replaces, and only what it locks.
MayPlan(c, ops, paths) ==
  \E set : /\ ops \in Seq(set) /\ \A op \in set : Operation(op)
           /\ Tool(c) = "edits" => \A op \in set : op.op = "replace" /\ op.path \in paths

\* What a call has still to plan.
QueueOK(c) == MayPlan(c, queue[c], Targets(c))

\* Where a call has its slots, where it has its handles, and where its plan was found valid.
Locked == {"reading", "holding", "validate", "checkpoint", "recheck", "staged", "commit"}
Holding == {"validate", "checkpoint", "recheck", "staged", "commit"}
Validated == {"checkpoint", "recheck", "staged", "commit"}
Captured == {"recheck", "staged", "commit"}

\* Text edits read once they have their locks; all others plan before.
ToolOK(c) ==
  /\ pc[c] \in {"planning", "preview", "shown"} => Tool(c) \in {"batch", "replace"}
  /\ pc[c] \in {"holding", "validate", "checkpoint", "recheck"} => Tool(c) # "edits"
  /\ pc[c] = "reading" => Tool(c) = "edits"

\* A call that is past its locks has the slot of each of its targets.
LocksOK(c) == pc[c] \in Locked => \A p \in Targets(c) : lock[p] = c

\* A file that a text edit has read is not a directory as long as the edit has its slot.
EditsOK(c) ==
  Tool(c) = "edits" =>
    /\ plan[c].parents = <<>> /\ plan[c].absent = {} /\ plan[c].dels = {}
    /\ Scope(plan[c]) \subseteq Targets(c)
    /\ DOMAIN plan[c].files \subseteq DOMAIN plan[c].snaps
    /\ pc[c] \in {"idle", "locking"} => Scope(plan[c]) = {}
    /\ pc[c] \in Locked => \A p \in Scope(plan[c]) : ~IsDir(p)

\* The directories of a plan are held before they are checked, and stay what they were.
HandlesOK(c) ==
  Tool(c) # "edits" =>
    /\ pc[c] \in Holding => DOMAIN plan[c].parents \subseteq held[c]
    /\ pc[c] \in Validated =>
         /\ DOMAIN plan[c].snaps \cap plan[c].absent = {}
         /\ \A q \in DOMAIN plan[c].parents : IsDir(q) /\ disk[q].id = plan[c].parents[q]
    /\ pc[c] \in Captured => \A p \in Scope(plan[c]) : before[c][p].kind # "dir"

\* What holds of each call.
CallOK(c) ==
  PlanOK(plan[c]) /\ QueueOK(c) /\ ToolOK(c) /\ LocksOK(c) /\ EditsOK(c) /\ HandlesOK(c)

\* The state has an entry for each path and each call.
Domains ==
  /\ DOMAIN disk = Path /\ DOMAIN lock = Path
  /\ DOMAIN plan = Call /\ DOMAIN queue = Call /\ DOMAIN pc = Call /\ DOMAIN held = Call
  /\ DOMAIN before = Call /\ store \subseteq Call

\* The invariant of the calls.
PlanInv == Domains /\ \A c \in Call : CallOK(c)

\* What the steps of others leave to a call.
Spared(c) ==
  /\ plan'[c] = plan[c] /\ queue'[c] = queue[c] /\ pc'[c] = pc[c]
  /\ held'[c] = held[c] /\ before'[c] = before[c]
  /\ \A p \in Path : lock[p] = c => lock'[p] = c
  /\ \A p \in Path : lock[p] = c /\ ~IsDir(p) => ~IsDir(p)'
  /\ \A q \in held[c] \cap Path : IsDir(q) => IsDir(q)' /\ disk'[q].id = disk[q].id

\* What a call is asked for.
LEMMA Asked ==
  ASSUME NEW c \in Call, Tool(c) # "apply"
  PROVE  MayPlan(c, Request[c].ops, Targets(c))
  <1> DEFINE asked == {Request[c].ops[i] : i \in DOMAIN Request[c].ops}
  <1>1. Tool(c) \in {"batch", "replace", "edits"}  BY CallAssumption DEF Tool
  <1>2. Request[c].ops \in Seq(asked)  BY CallAssumption DEF Tool
  <1>3. ASSUME NEW op \in asked
        PROVE  CASE Tool(c) = "batch" ->
                   /\ op.op \in {"mkdir", "create", "replace", "copy", "move", "delete"}
                   /\ op.path \in Path /\ (op.op \in {"copy", "move"} => op.source \in Path)
              [] Tool(c) = "replace" -> op.op = "scan" /\ op.path \in Path \cup {Root}
              [] Tool(c) = "edits" -> op.op = "replace" /\ op.path \in Path
    BY CallAssumption DEF Tool
  <1>4. \A op \in asked : Operation(op)  BY <1>1, <1>3 DEF Operation
  <1>5. Tool(c) = "edits" => \A op \in asked : op.op = "replace" /\ op.path \in Targets(c)
    BY <1>3 DEF Targets
  <1> QED  BY <1>2, <1>4, <1>5 DEF MayPlan

\* A call locks paths.
LEMMA TargetsInPath ==
  ASSUME NEW c \in Call, PlanOK(plan[c])
  PROVE  Targets(c) \subseteq Path
  <1>1. CASE Tool(c) # "edits"  BY <1>1 DEF Targets, PlanOK
  <1>2. CASE Tool(c) = "edits"
    <2>1. \A i \in DOMAIN Request[c].ops : Request[c].ops[i].path \in Path
      BY <1>2, CallAssumption DEF Tool
    <2> QED  BY <1>2, <2>1 DEF Targets
  <1> QED  BY <1>1, <1>2

\* A step of others that spares a call leaves its part of the invariant.
LEMMA SparedKeeps ==
  ASSUME NEW c \in Call, CallOK(c), Spared(c)
  PROVE  CallOK(c)'
  <1>1. PlanOK(plan[c])'  BY DEF CallOK, Spared
  <1>2. Targets(c)' = Targets(c) /\ Targets(c) \subseteq Path
    BY TargetsInPath DEF CallOK, Spared, Targets, Tool
  <1>3. QueueOK(c)'  BY <1>2 DEF CallOK, Spared, QueueOK, Tool
  <1>4. ToolOK(c)'  BY DEF CallOK, Spared, ToolOK, Tool
  <1>5. LocksOK(c)'  BY <1>2 DEF CallOK, Spared, LocksOK
  <1>6. EditsOK(c)'
    <2> SUFFICES ASSUME Tool(c) = "edits"  PROVE EditsOK(c)'
      BY DEF EditsOK, Tool
    <2>1. /\ plan[c].parents = <<>> /\ plan[c].absent = {} /\ plan[c].dels = {}
          /\ Scope(plan[c]) \subseteq Targets(c)
          /\ DOMAIN plan[c].files \subseteq DOMAIN plan[c].snaps
          /\ pc[c] \in {"idle", "locking"} => Scope(plan[c]) = {}
          /\ pc[c] \in Locked => \A p \in Scope(plan[c]) : ~IsDir(p)
      BY DEF CallOK, EditsOK
    <2>2. pc[c] \in Locked => \A p \in Scope(plan[c]) : ~IsDir(p)'
      BY <1>2, <2>1 DEF CallOK, LocksOK, Spared
    <2>3. plan'[c] = plan[c] /\ pc'[c] = pc[c]  BY DEF Spared
    <2> QED  BY <1>2, <2>1, <2>2, <2>3 DEF EditsOK
  <1>7. HandlesOK(c)'
    <2> SUFFICES ASSUME Tool(c) # "edits"  PROVE HandlesOK(c)'
      BY DEF HandlesOK, Tool
    <2>1. /\ pc[c] \in Holding => DOMAIN plan[c].parents \subseteq held[c]
          /\ pc[c] \in Validated =>
               /\ DOMAIN plan[c].snaps \cap plan[c].absent = {}
               /\ \A q \in DOMAIN plan[c].parents : IsDir(q) /\ disk[q].id = plan[c].parents[q]
          /\ pc[c] \in Captured => \A p \in Scope(plan[c]) : before[c][p].kind # "dir"
      BY DEF CallOK, HandlesOK
    <2>2. Validated \subseteq Holding  BY DEF Validated, Holding
    <2>3. plan'[c] = plan[c] /\ pc'[c] = pc[c] /\ held'[c] = held[c] /\ before'[c] = before[c]
          /\ \A q \in held[c] \cap Path : IsDir(q) => IsDir(q)' /\ disk'[q].id = disk[q].id
      BY DEF Spared
    <2>4. pc[c] \in Validated =>
            \A q \in DOMAIN plan[c].parents : IsDir(q)' /\ disk'[q].id = plan[c].parents[q]
      BY <2>1, <2>2, <2>3 DEF CallOK, PlanOK
    <2> QED  BY <2>1, <2>3, <2>4 DEF HandlesOK
  <1> QED  BY <1>1, <1>3, <1>4, <1>5, <1>6, <1>7 DEF CallOK

\* A step of one call.
Framed(d) == Domains' /\ \A c \in Call \ {d} : Spared(c)

\* A step of one call is judged by that call alone.
LEMMA FramedKeeps ==
  ASSUME PlanInv, NEW d \in Call, Framed(d), CallOK(d)'
  PROVE  PlanInv'
  BY SparedKeeps DEF PlanInv, Framed

-----------------------------------------------------------------------------
(* Planning, storing and locking.                                          *)

\* A call that fails gives back what it has.
LEMMA FailKeeps ==
  ASSUME PlanInv, NEW d \in Call, Fail(d)
  PROVE  PlanInv'
  <1>1. /\ UNCHANGED <<disk, plan, queue, before, store>> /\ pc' = [pc EXCEPT ![d] = "failed"]
        /\ lock' = [p \in Path |-> IF lock[p] = d THEN Nobody ELSE lock[p]]
        /\ held' = [held EXCEPT ![d] = {}]
    BY DEF Fail, Goes, Release, diskVars, planVars
  <1>2. Domains /\ CallOK(d)  BY DEF PlanInv
  <1>3. Framed(d)  BY <1>1, <1>2 DEF Framed, Domains, Spared, IsDir
  <1>4. pc'[d] = "failed" /\ plan'[d] = plan[d] /\ queue'[d] = queue[d]
    BY <1>1, <1>2 DEF Domains
  <1>5. CallOK(d)'
    BY <1>2, <1>4 DEF CallOK, QueueOK, ToolOK, LocksOK, EditsOK, HandlesOK, Locked, Holding, Validated,
                      Captured, Targets, Tool
  <1> QED  BY <1>3, <1>5, FramedKeeps

\* A step that leaves the workspace, the slots and the handles alone.
LEMMA QuietFrame ==
  ASSUME PlanInv, NEW d \in Call, UNCHANGED <<disk, lock, held>>, store' \subseteq Call,
         DOMAIN plan' = Call, DOMAIN queue' = Call, DOMAIN pc' = Call, DOMAIN before' = Call,
         \A c \in Call \ {d} :
           plan'[c] = plan[c] /\ queue'[c] = queue[c] /\ pc'[c] = pc[c] /\ before'[c] = before[c]
  PROVE  Framed(d)
  BY DEF PlanInv, Framed, Domains, Spared, IsDir

\* A batch, a replacement or an application begins.
LEMMA StartKeeps ==
  ASSUME PlanInv, NEW d \in Call, Start(d)
  PROVE  PlanInv'
  <1>1. /\ UNCHANGED <<disk, lock, held, plan, before, store>> /\ pc' = [pc EXCEPT ![d] = "planning"]
        /\ queue' = [queue EXCEPT ![d] = Request[d].ops] /\ Tool(d) \in {"batch", "replace"}
    BY DEF Start, Goes, diskVars, holdVars
  <1>2. Domains /\ CallOK(d)  BY DEF PlanInv
  <1>3. Framed(d)  BY <1>1, <1>2, QuietFrame DEF Domains
  <1>4. pc'[d] = "planning" /\ plan'[d] = plan[d] /\ queue'[d] = Request[d].ops
    BY <1>1, <1>2 DEF Domains
  <1>5. QueueOK(d)'
    <2>1. Tool(d) # "apply"  BY <1>1
    <2>2. Targets(d)' = Targets(d)  BY <1>1, <1>4 DEF Targets, Tool
    <2> QED  BY <1>4, <2>1, <2>2, Asked DEF QueueOK
  <1>6. CallOK(d)'
    BY <1>1, <1>2, <1>4, <1>5 DEF CallOK, ToolOK, LocksOK, EditsOK, HandlesOK, Locked, Holding,
                      Validated, Captured, Targets, Tool
  <1> QED  BY <1>3, <1>6, FramedKeeps

\* A step that only checks.
LEMMA GoesKeeps ==
  ASSUME PlanInv, NEW d \in Call, NEW to, Goes(d, to),
         UNCHANGED <<disk, lock, held, plan, queue, before>>, store' \subseteq Call,
         ToolOK(d)', LocksOK(d)', EditsOK(d)', HandlesOK(d)'
  PROVE  PlanInv'
  <1>2. Domains /\ CallOK(d)  BY DEF PlanInv
  <1>3. Framed(d)  BY <1>2, QuietFrame DEF Domains, Goes
  <1>4. plan'[d] = plan[d] /\ queue'[d] = queue[d]  OBVIOUS
  <1>5. QueueOK(d)'  BY <1>2, <1>4 DEF CallOK, QueueOK, Targets, Tool
  <1>6. CallOK(d)'  BY <1>2, <1>4, <1>5 DEF CallOK
  <1> QED  BY <1>3, <1>6, FramedKeeps

\* Text edits begin to read under their locks.
LEMMA StartEditsKeeps ==
  ASSUME PlanInv, NEW d \in Call, StartEdits(d)
  PROVE  PlanInv'
  <1>1. CASE Fail(d)  BY <1>1, FailKeeps
  <1>2. CASE ~Fail(d)
    <2>1. /\ Goes(d, "locking") /\ UNCHANGED <<disk, lock, held, plan, queue, before, store>>
          /\ pc[d] = "idle" /\ Tool(d) = "edits"
      BY <1>2 DEF StartEdits, Check, diskVars, planVars, holdVars
    <2>2. Domains /\ CallOK(d)  BY DEF PlanInv
    <2>3. pc'[d] = "locking" /\ plan'[d] = plan[d]  BY <2>1, <2>2 DEF Goes, Domains
    <2>4. ToolOK(d)' /\ LocksOK(d)' /\ EditsOK(d)' /\ HandlesOK(d)'
      BY <2>1, <2>2, <2>3 DEF CallOK, ToolOK, LocksOK, EditsOK, HandlesOK, Locked, Holding, Validated,
                              Captured, Targets, Tool
    <2> QED  BY <2>1, <2>2, <2>4, GoesKeeps DEF Domains
  <1> QED  BY <1>1, <1>2

\* A stored plan that is older than its time is gone.
LEMMA ExpireKeeps ==
  ASSUME PlanInv, NEW d \in Call, Expire(d)
  PROVE  PlanInv'
  <1>1. UNCHANGED <<disk, lock, held, plan, queue, before, pc>> /\ store' \subseteq Call
    BY DEF Expire, diskVars, planVars, holdVars, PlanInv, Domains
  <1>2. Domains /\ CallOK(d)  BY DEF PlanInv
  <1>3. Framed(d)  BY <1>1, <1>2, QuietFrame DEF Domains
  <1>4. CallOK(d)'
    BY <1>1, <1>2 DEF CallOK, QueueOK, ToolOK, LocksOK, EditsOK, HandlesOK, Targets, Tool, IsDir
  <1> QED  BY <1>3, <1>4, FramedKeeps

\* A preview is stored under its plan_id.
LEMMA StorePlanKeeps ==
  ASSUME PlanInv, NEW d \in Call, StorePlan(d)
  PROVE  PlanInv'
  <1>1. CASE Fail(d)  BY <1>1, FailKeeps
  <1>2. CASE ~Fail(d)
    <2>1. /\ Goes(d, "shown") /\ UNCHANGED <<disk, lock, held, plan, queue, before>>
          /\ store' = store \cup {d} /\ pc[d] = "preview"
      BY <1>2 DEF StorePlan, diskVars, planVars, holdVars
    <2>2. Domains /\ CallOK(d)  BY DEF PlanInv
    <2>3. pc'[d] = "shown" /\ plan'[d] = plan[d]  BY <2>1, <2>2 DEF Goes, Domains
    <2>4. ToolOK(d)' /\ LocksOK(d)' /\ EditsOK(d)' /\ HandlesOK(d)'
      BY <2>1, <2>2, <2>3 DEF CallOK, ToolOK, LocksOK, EditsOK, HandlesOK, Locked, Holding, Validated,
                              Captured, Targets, Tool
    <2> QED  BY <2>1, <2>2, <2>4, GoesKeeps DEF Domains
  <1> QED  BY <1>1, <1>2

\* workspace_plan_apply takes over the plan of a preview.
LEMMA TakeKeeps ==
  ASSUME PlanInv, NEW d \in Call, Take(d)
  PROVE  PlanInv'
  <1>1. CASE Fail(d)  BY <1>1, FailKeeps
  <1>2. CASE ~Fail(d)
    <2> DEFINE from == Request[d].from
    <2>1. /\ Goes(d, "locking") /\ UNCHANGED <<disk, lock, held, queue, before>>
          /\ store' = store \ {from} /\ pc[d] = "idle" /\ Tool(d) = "apply" /\ from \in store
          /\ plan' = [plan EXCEPT ![d] = plan[from]]
      BY <1>2 DEF Take, diskVars, holdVars
    <2>2. Domains /\ CallOK(d) /\ PlanOK(plan[from])  BY <2>1 DEF PlanInv, Domains, CallOK
    <2>3. Framed(d)  BY <2>1, <2>2, QuietFrame DEF Domains, Goes
    <2>4. pc'[d] = "locking" /\ plan'[d] = plan[from] /\ queue'[d] = queue[d]
      BY <2>1, <2>2 DEF Goes, Domains
    <2>5. QueueOK(d)'
      <3>1. \A ops, p, q : MayPlan(d, ops, p) => MayPlan(d, ops, q)  BY <2>1 DEF MayPlan
      <3> QED  BY <2>2, <2>4, <3>1 DEF CallOK, QueueOK
    <2>6. CallOK(d)'
      BY <2>1, <2>2, <2>4, <2>5 DEF CallOK, ToolOK, LocksOK, EditsOK, HandlesOK, Locked, Holding,
                              Validated, Captured, Tool
    <2> QED  BY <2>3, <2>6, FramedKeeps
  <1> QED  BY <1>1, <1>2

\* All the slots at once: no other call has one of them.
LEMMA LockKeeps ==
  ASSUME PlanInv, NEW d \in Call, Lock(d)
  PROVE  PlanInv'
  <1>1. CASE Fail(d)  BY <1>1, FailKeeps
  <1>2. CASE ~Fail(d)
    <2> DEFINE ops == IF Tool(d) = "edits" THEN Request[d].ops ELSE <<>>
               to == IF Tool(d) = "edits" THEN "reading" ELSE "holding"
    <2>1. /\ pc' = [pc EXCEPT ![d] = to] /\ UNCHANGED <<disk, held, plan, before, store>>
          /\ lock' = [p \in Path |-> IF p \in Targets(d) THEN d ELSE lock[p]]
          /\ queue' = [queue EXCEPT ![d] = ops]
          /\ pc[d] = "locking" /\ \A p \in Targets(d) : lock[p] = Nobody
      BY <1>2 DEF Lock, Goes, diskVars
    <2>2. Domains /\ CallOK(d) /\ Nobody \notin Call  BY CallAssumption DEF PlanInv
    <2>3. Framed(d)  BY <2>1, <2>2 DEF Framed, Spared, Domains, IsDir
    <2>4. pc'[d] = to /\ plan'[d] = plan[d] /\ queue'[d] = ops /\ Targets(d)' = Targets(d)
          /\ Targets(d) \subseteq Path
      BY <2>1, <2>2, TargetsInPath DEF Domains, Targets, Tool, CallOK
    <2>5. QueueOK(d)'
      <3>1. CASE Tool(d) = "edits"
        <4>1. Tool(d) # "apply"  BY <3>1
        <4>2. queue'[d] = Request[d].ops  BY <2>4, <3>1
        <4> QED  BY <2>4, <4>1, <4>2, Asked DEF QueueOK
      <3>2. CASE Tool(d) # "edits"
        <4>1. queue'[d] \in Seq({})  BY <2>4, <3>2
        <4> QED  BY <3>2, <4>1 DEF QueueOK, MayPlan, Tool
      <3> QED  BY <3>1, <3>2
    <2>6. ToolOK(d)'  BY <2>4 DEF ToolOK, Tool
    <2>7. LocksOK(d)'  BY <2>1, <2>4 DEF LocksOK
    <2>8. EditsOK(d)'
      BY <2>1, <2>2, <2>4 DEF CallOK, EditsOK, Tool
    <2>9. HandlesOK(d)'
      BY <2>4 DEF HandlesOK, Holding, Validated, Captured, Tool
    <2> QED  BY <2>2, <2>3, <2>4, <2>5, <2>6, <2>7, <2>8, <2>9, FramedKeeps DEF CallOK
  <1> QED  BY <1>1, <1>2

\* The files a scan selected are operations of a replacement.
LEMMA SelectedFiles ==
  ASSUME NEW p \in Path \cup {Root}
  PROVE  \E set : Selected(p) \in Seq(set) /\ \A op \in set : Operation(op)
  <1> DEFINE files == IF p \in Path /\ ~IsDir(p) THEN {p}
                      ELSE {q \in IF p = Root THEN Path ELSE Below(p) : IsFile(q)}
             order == Seqs!SetToSeq(files)
             N == Cardinality(files)
             set == {[op |-> "all", path |-> q] : q \in Path}
  <1>1. files \subseteq Path  BY DEF Below
  <1>2. IsFiniteSet(files)  BY <1>1, PathAssumption, FS_Subset
  <1>3. N \in Nat /\ order \in [1..N -> files]  BY <1>2, SetOrdered
  <1>4. Selected(p) = [i \in 1..N |-> [op |-> "all", path |-> order[i]]]  BY DEF Selected
  <1>5. \A i \in 1..N : order[i] \in Path  BY <1>1, <1>3
  <1> HIDE DEF order, N, files
  <1>6. Selected(p) \in [1..N -> set]  BY <1>4, <1>5
  <1>7. Selected(p) \in Seq(set)  BY <1>3, <1>6
  <1>8. \A op \in set : Operation(op)  BY DEF Operation
  <1> QED  BY <1>7, <1>8

\* workspace_replace has listed the files it looks at.
LEMMA ScanKeeps ==
  ASSUME PlanInv, NEW d \in Call, Scan(d)
  PROVE  PlanInv'
  <1>1. /\ UNCHANGED <<disk, lock, held, plan, pc, before, store>>
        /\ queue' = [queue EXCEPT ![d] = Selected(Head(queue[d]).path) \o Tail(queue[d])]
        /\ pc[d] = "planning" /\ queue[d] # <<>> /\ Head(queue[d]).op = "scan"
    BY DEF Scan, diskVars, holdVars
  <1>2. Domains /\ CallOK(d)  BY DEF PlanInv
  <1>3. Framed(d)  BY <1>1, <1>2, QuietFrame DEF Domains
  <1>4. queue'[d] = Selected(Head(queue[d]).path) \o Tail(queue[d])  BY <1>1, <1>2 DEF Domains
  <1>5. Tool(d) \in {"batch", "replace"}  BY <1>1, <1>2 DEF CallOK, ToolOK
  <1>6. QueueOK(d)'
    <2>1. PICK set : queue[d] \in Seq(set) /\ \A op \in set : Operation(op)
      BY <1>2 DEF CallOK, QueueOK, MayPlan
    <2>2. Head(queue[d]) \in set /\ Tail(queue[d]) \in Seq(set)  BY <1>1, <2>1
    <2>3. Head(queue[d]).path \in Path \cup {Root}  BY <1>1, <2>1, <2>2 DEF Operation
    <2>4. PICK more : Selected(Head(queue[d]).path) \in Seq(more) /\ \A op \in more : Operation(op)
      BY <2>3, SelectedFiles
    <2>5. queue'[d] \in Seq(set \cup more)  BY <1>4, <2>2, <2>4
    <2>6. \A op \in set \cup more : Operation(op)  BY <2>1, <2>4
    <2>7. Tool(d)' # "edits"  BY <1>5 DEF Tool
    <2> QED  BY <2>5, <2>6, <2>7 DEF QueueOK, MayPlan, Tool
  <1>7. ToolOK(d)' /\ LocksOK(d)' /\ EditsOK(d)' /\ HandlesOK(d)' /\ PlanOK(plan[d])'
    BY <1>1, <1>2, <1>5 DEF CallOK, ToolOK, LocksOK, EditsOK, HandlesOK, Locked, Holding, Validated,
                            Captured, Tool
  <1> QED  BY <1>3, <1>6, <1>7, FramedKeeps DEF CallOK

\* An operation is planned; a text edit reads a file whose slot it has.
LEMMA PlanOpKeeps ==
  ASSUME PlanInv, NEW d \in Call, PlanOp(d)
  PROVE  PlanInv'
  <1>1. CASE Fail(d)  BY <1>1, FailKeeps
  <1>2. CASE ~Fail(d)
    <2> DEFINE op == Head(queue[d])
    <2>1. PICK r \in Planned(plan[d], op) :
            /\ plan' = [plan EXCEPT ![d] = [r EXCEPT !.ops = Append(@, op)]]
            /\ queue' = [queue EXCEPT ![d] = Tail(queue[d])]
            /\ UNCHANGED <<disk, lock, held, pc, before, store>>
      BY <1>2 DEF PlanOp, diskVars, holdVars
    <2>2. pc[d] \in {"planning", "reading"} /\ queue[d] # <<>> /\ op.op # "scan"  BY DEF PlanOp
    <2>3. Domains /\ CallOK(d)  BY DEF PlanInv
    <2>4. Framed(d)  BY <2>1, <2>3, QuietFrame DEF Domains
    <2> DEFINE s == [r EXCEPT !.ops = Append(r.ops, op)]
    <2>5. plan'[d] = s /\ queue'[d] = Tail(queue[d])  BY <2>1, <2>3 DEF Domains
    <2>6. PICK set : /\ queue[d] \in Seq(set) /\ \A o \in set : Operation(o)
                     /\ Tool(d) = "edits" => \A o \in set : o.op = "replace" /\ o.path \in Targets(d)
      BY <2>3 DEF CallOK, QueueOK, MayPlan
    <2>7. op \in set /\ Tail(queue[d]) \in Seq(set)  BY <2>2, <2>6
    <2>8. Operation(op) /\ (Tool(d) = "edits" => op.op = "replace" /\ op.path \in Targets(d))
      BY <2>6, <2>7
    <2> HIDE DEF op
    <2>9. Steps(r, plan[d], op)  BY <2>2, <2>3, <2>8, PlannedSteps DEF CallOK, op
    <2>10. PlanIs(s, r.snaps, r.absent, r.changes, r.dels, r.dirs, r.parents, r.files, r.removed)
      BY <2>9, PlanOps DEF Steps, PlanOK
    <2> HIDE DEF s
    <2>11. /\ PlanRecord(s) /\ s.snaps = r.snaps /\ s.absent = r.absent /\ s.changes = r.changes
           /\ s.dels = r.dels /\ s.dirs = r.dirs /\ s.parents = r.parents
           /\ s.files = r.files /\ s.removed = r.removed
      BY <2>10 DEF PlanIs
    <2>12. Scope(s) = Scope(r)  BY <2>11 DEF Scope
    <2>13. PlanOK(s)  BY <2>9, <2>11, <2>12 DEF Steps, PlanOK
    <2>14. pc'[d] = pc[d]  BY <2>1
    <2>15. Tool(d) = "edits" => Targets(d)' = Targets(d)  BY DEF Targets, Tool
    <2>16. QueueOK(d)'  BY <2>5, <2>6, <2>7, <2>15 DEF QueueOK, MayPlan, Tool
    <2>17. ToolOK(d)'  BY <2>3, <2>14 DEF CallOK, ToolOK, Tool
    <2>18. LocksOK(d)'
      <3>1. pc[d] \in Locked => Tool(d) = "edits"  BY <2>2, <2>3 DEF CallOK, ToolOK, Locked
      <3> QED  BY <2>1, <2>3, <2>15, <3>1 DEF CallOK, LocksOK
    <2>19. HandlesOK(d)'  BY <2>2, <2>14 DEF HandlesOK, Holding, Validated, Captured
    <2>20. EditsOK(d)'
      <3> SUFFICES ASSUME Tool(d) = "edits"  PROVE EditsOK(d)'
        BY DEF EditsOK, Tool
      <3>1. /\ plan[d].parents = <<>> /\ plan[d].absent = {} /\ plan[d].dels = {}
            /\ Scope(plan[d]) \subseteq Targets(d)
            /\ DOMAIN plan[d].files \subseteq DOMAIN plan[d].snaps
            /\ pc[d] \in Locked => \A p \in Scope(plan[d]) : ~IsDir(p)
        BY <2>3 DEF CallOK, EditsOK
      <3>2. /\ s.parents = <<>> /\ s.absent = {} /\ s.dels = {}
            /\ Scope(s) \subseteq Scope(plan[d]) \cup {op.path}
            /\ DOMAIN s.files \subseteq DOMAIN s.snaps
        BY <2>8, <2>9, <2>11, <2>12, <3>1 DEF Steps
      <3>3. IsFile(op.path) \/ op.path \in Scope(plan[d])
        BY <2>8, <2>9, <3>1 DEF Steps, Scope
      <3>4. pc[d] \in Locked => \A p \in Scope(s) : ~IsDir(p)
        BY <3>1, <3>2, <3>3 DEF IsFile, IsDir
      <3>5. \A p : IsDir(p)' = IsDir(p)  BY <2>1 DEF IsDir
      <3>6. Scope(s) \subseteq Targets(d)  BY <2>8, <3>1, <3>2
      <3>7. pc[d] \notin {"idle", "locking"}  BY <2>2
      <3> QED  BY <2>5, <2>14, <2>15, <3>2, <3>4, <3>5, <3>6, <3>7 DEF EditsOK
    <2>21. CallOK(d)'
      BY <2>5, <2>13, <2>16, <2>17, <2>18, <2>19, <2>20 DEF CallOK
    <2> QED  BY <2>4, <2>21, FramedKeeps
  <1> QED  BY <1>1, <1>2

\* The plan is complete: it is bound to the directories of its targets.
LEMMA BindKeeps ==
  ASSUME PlanInv, NEW d \in Call, Bind(d)
  PROVE  PlanInv'
  <1>1. CASE Fail(d)  BY <1>1, FailKeeps
  <1>2. CASE ~Fail(d)
    <2> DEFINE bound == ParentsBound(plan[d])
               parents == [q \in bound |-> disk[q].id]
               to == IF Request[d].preview THEN "preview" ELSE "locking"
               s == [plan[d] EXCEPT !.parents = parents]
    <2>1. /\ plan' = [plan EXCEPT ![d].parents = parents] /\ Goes(d, to)
          /\ UNCHANGED <<disk, lock, held, queue, before, store>>
          /\ pc[d] = "planning"
      BY <1>2 DEF Bind, diskVars, holdVars
    <2>2. Domains /\ CallOK(d)  BY DEF PlanInv
    <2>3. Framed(d)  BY <2>1, <2>2, QuietFrame DEF Domains, Goes
    <2>4. plan'[d] = s /\ pc'[d] = to /\ queue'[d] = queue[d]  BY <2>1, <2>2 DEF Domains, Goes
    <2>5. bound \subseteq Path /\ DOMAIN parents = bound  BY <2>2 DEF ParentsBound, Ancestors, CallOK, PlanOK
    <2> HIDE DEF parents
    <2>6. PlanIs(s, plan[d].snaps, plan[d].absent, plan[d].changes, plan[d].dels, plan[d].dirs,
                 parents, plan[d].files, plan[d].removed)
      BY <2>2, PlanParents DEF CallOK, PlanOK
    <2> HIDE DEF s
    <2>7. PlanOK(s)  BY <2>2, <2>5, <2>6 DEF PlanIs, PlanOK, CallOK, Scope
    <2>8. Tool(d) \in {"batch", "replace"}  BY <2>1, <2>2 DEF CallOK, ToolOK
    <2>9. QueueOK(d)'  BY <2>2, <2>4, <2>8 DEF CallOK, QueueOK, MayPlan, Tool
    <2>10. ToolOK(d)' /\ LocksOK(d)' /\ EditsOK(d)' /\ HandlesOK(d)'
      BY <2>4, <2>8 DEF ToolOK, LocksOK, EditsOK, HandlesOK, Locked, Holding, Validated, Captured, Tool
    <2>11. CallOK(d)'  BY <2>4, <2>7, <2>9, <2>10 DEF CallOK
    <2> QED  BY <2>3, <2>11, FramedKeeps
  <1> QED  BY <1>1, <1>2

\* The handles of the directories are opened.
LEMMA HoldKeeps ==
  ASSUME PlanInv, NEW d \in Call, Hold(d)
  PROVE  PlanInv'
  <1>1. CASE Fail(d)  BY <1>1, FailKeeps
  <1>2. CASE ~Fail(d)
    <2> DEFINE kept == Kept(plan[d])
               more == kept \cup UNION {Ancestors[p] : p \in kept}
    <2>1. /\ held' = [held EXCEPT ![d] = more] /\ Goes(d, "validate")
          /\ UNCHANGED <<disk, lock, plan, queue, before, store>>
          /\ pc[d] = "holding"
      BY <1>2 DEF Hold, diskVars, planVars
    <2>2. Domains /\ CallOK(d)  BY DEF PlanInv
    <2>3. Framed(d)  BY <2>1, <2>2 DEF Framed, Spared, Domains, IsDir, Goes
    <2>4. plan'[d] = plan[d] /\ pc'[d] = "validate" /\ queue'[d] = queue[d] /\ held'[d] = more
      BY <2>1, <2>2 DEF Domains, Goes
    <2>5. DOMAIN plan[d].parents \subseteq more  BY DEF Kept
    <2>6. Tool(d) # "edits"  BY <2>1, <2>2 DEF CallOK, ToolOK
    <2>7. Targets(d)' = Targets(d)  BY <2>4 DEF Targets, Tool
    <2>8. QueueOK(d)'  BY <2>2, <2>4, <2>7 DEF CallOK, QueueOK, MayPlan, Tool
    <2>9. LocksOK(d)'  BY <2>1, <2>2, <2>7 DEF CallOK, LocksOK, Locked
    <2>10. ToolOK(d)' /\ EditsOK(d)'
      BY <2>4, <2>6 DEF ToolOK, EditsOK, Tool
    <2> HIDE DEF more
    <2>11. HandlesOK(d)'
      BY <2>4, <2>5, <2>6 DEF HandlesOK, Validated, Captured, Tool
    <2>12. CallOK(d)'  BY <2>2, <2>4, <2>8, <2>9, <2>10, <2>11 DEF CallOK
    <2> QED  BY <2>3, <2>12, FramedKeeps
  <1> QED  BY <1>1, <1>2

-----------------------------------------------------------------------------
(* Holding, checking and committing.                                       *)

\* A call that goes from one label to the next and changes nothing else.
LEMMA ChecksKeep ==
  ASSUME PlanInv, NEW d \in Call, NEW to, Goes(d, to),
         UNCHANGED <<disk, lock, held, plan, queue, before, store>>,
         pc[d] \in Locked, to \in Locked \ {"reading"},
         to \in {"holding", "validate", "checkpoint", "recheck"} => Tool(d) # "edits",
         Tool(d) # "edits" =>
           /\ to \in Holding => pc[d] \in Holding
           /\ to \in Validated => pc[d] \in Validated \/ Valid(plan[d])
           /\ to \in Captured => pc[d] \in Captured
  PROVE  PlanInv'
  <1>1. Domains /\ CallOK(d)  BY DEF PlanInv
  <1>2. pc'[d] = to /\ plan'[d] = plan[d] /\ held'[d] = held[d] /\ before'[d] = before[d]
    BY <1>1 DEF Goes, Domains
  <1>3. Targets(d)' = Targets(d)  BY DEF Targets, Tool
  <1>4. ToolOK(d)'  BY <1>2 DEF ToolOK, Locked, Tool
  <1>5. LocksOK(d)'  BY <1>1, <1>3 DEF CallOK, LocksOK
  <1>6. \A p : IsDir(p)' = IsDir(p)  BY DEF IsDir
  <1>7. EditsOK(d)'
    BY <1>1, <1>2, <1>3, <1>6 DEF CallOK, EditsOK, Locked, Tool
  <1>8. HandlesOK(d)'
    <2> SUFFICES ASSUME Tool(d) # "edits"  PROVE HandlesOK(d)'
      BY DEF HandlesOK, Tool
    <2>1. to \in Holding => DOMAIN plan[d].parents \subseteq held[d]
      BY <1>1 DEF CallOK, HandlesOK
    <2>2. to \in Captured => \A p \in Scope(plan[d]) : before[d][p].kind # "dir"
      BY <1>1 DEF CallOK, HandlesOK
    <2>3. Valid(plan[d]) => DOMAIN plan[d].snaps \cap plan[d].absent = {}
      BY <1>1 DEF Valid, IsAbsent, CallOK, PlanOK
    <2>4. to \in Validated =>
            /\ DOMAIN plan[d].snaps \cap plan[d].absent = {}
            /\ \A q \in DOMAIN plan[d].parents : IsDir(q) /\ disk[q].id = plan[d].parents[q]
      BY <1>1, <2>3 DEF CallOK, HandlesOK, Valid
    <2> QED  BY <1>2, <1>6, <2>1, <2>2, <2>4 DEF HandlesOK
  <1> QED  BY <1>4, <1>5, <1>7, <1>8, GoesKeeps, <1>1 DEF Domains

\* Release and the last label of a call that succeeds.
LEMMA DoneKeeps ==
  ASSUME PlanInv, NEW d \in Call, Done(d), DOMAIN disk' = Path,
         \A c \in Call \ {d} :
           /\ \A p \in Path : lock[p] = c /\ ~IsDir(p) => ~IsDir(p)'
           /\ \A q \in held[c] \cap Path : IsDir(q) => IsDir(q)' /\ disk'[q].id = disk[q].id
  PROVE  PlanInv'
  <1>1. /\ UNCHANGED <<plan, queue, before, store>> /\ pc' = [pc EXCEPT ![d] = "done"]
        /\ lock' = [p \in Path |-> IF lock[p] = d THEN Nobody ELSE lock[p]]
        /\ held' = [held EXCEPT ![d] = {}]
    BY DEF Done, Goes, Release, planVars
  <1>2. Domains /\ CallOK(d)  BY DEF PlanInv
  <1>3. Framed(d)  BY <1>1, <1>2 DEF Framed, Domains, Spared
  <1>4. pc'[d] = "done" /\ plan'[d] = plan[d] /\ queue'[d] = queue[d]
    BY <1>1, <1>2 DEF Domains
  <1>5. Targets(d)' = Targets(d)  BY <1>4 DEF Targets, Tool
  <1>6. QueueOK(d)'  BY <1>2, <1>4, <1>5 DEF CallOK, QueueOK, MayPlan, Tool
  <1>7. CallOK(d)'
    BY <1>2, <1>4, <1>5, <1>6 DEF CallOK, ToolOK, LocksOK, EditsOK, HandlesOK, Locked, Holding,
                      Validated, Captured, Tool
  <1> QED  BY <1>3, <1>7, FramedKeeps

\* _validate_plan: the directories are the ones the plan was bound to.
LEMMA ValidateKeeps ==
  ASSUME PlanInv, NEW d \in Call, Validate(d)
  PROVE  PlanInv'
  <1>1. CASE Fail(d)  BY <1>1, FailKeeps
  <1>2. CASE Done(d) /\ UNCHANGED disk
    BY <1>2, DoneKeeps DEF PlanInv, Domains, IsDir
  <1>3. CASE Check(d, Valid(plan[d]), "checkpoint") /\ ~Fail(d)
    <2>1. pc[d] = "validate"  BY DEF Validate
    <2>2. /\ Goes(d, "checkpoint") /\ UNCHANGED <<disk, lock, held, plan, queue, before, store>>
          /\ Valid(plan[d])
      BY <1>3 DEF Check, diskVars, planVars, holdVars
    <2>3. Tool(d) # "edits"  BY <2>1 DEF PlanInv, CallOK, ToolOK
    <2> QED  BY <2>1, <2>2, <2>3, ChecksKeep DEF Locked, Holding, Validated, Captured
  <1> QED  BY <1>1, <1>2, <1>3 DEF Validate, diskVars

\* The second validation, after the checkpoint.
LEMMA RecheckKeeps ==
  ASSUME PlanInv, NEW d \in Call, Recheck(d)
  PROVE  PlanInv'
  <1>1. CASE Fail(d)  BY <1>1, FailKeeps
  <1>2. CASE ~Fail(d)
    <2>1. /\ Goes(d, "staged") /\ UNCHANGED <<disk, lock, held, plan, queue, before, store>>
          /\ pc[d] = "recheck"
      BY <1>2 DEF Recheck, Check, diskVars, planVars, holdVars
    <2> QED  BY <2>1, ChecksKeep DEF Locked, Holding, Validated, Captured
  <1> QED  BY <1>1, <1>2

\* The checks of the transaction before it writes.
LEMMA PreflightKeeps ==
  ASSUME PlanInv, NEW d \in Call, Preflight(d)
  PROVE  PlanInv'
  <1>1. CASE Fail(d)  BY <1>1, FailKeeps
  <1>2. CASE ~Fail(d)
    <2>1. /\ Goes(d, "commit") /\ UNCHANGED <<disk, lock, held, plan, queue, before, store>>
          /\ pc[d] = "staged"
      BY <1>2 DEF Preflight, Check, diskVars, planVars, holdVars
    <2> QED  BY <2>1, ChecksKeep DEF Locked, Holding, Validated, Captured
  <1> QED  BY <1>1, <1>2

\* The checkpoint reads what the commit will overwrite: no directory.
LEMMA CheckpointKeeps ==
  ASSUME PlanInv, NEW d \in Call, Checkpoint(d)
  PROVE  PlanInv'
  <1>1. CASE Fail(d)  BY <1>1, FailKeeps
  <1>2. CASE ~Fail(d)
    <2> DEFINE to == IF Tool(d) = "edits" THEN "staged" ELSE "recheck"
               texts == Texts(Scope(plan[d]))
    <2>1. /\ before' = [before EXCEPT ![d] = texts] /\ Goes(d, to)
          /\ UNCHANGED <<disk, lock, held, plan, queue, store>>
          /\ pc[d] \in {"checkpoint", "reading"}
          /\ Tool(d) = "edits" \/ AsPlanned(plan[d])
      BY <1>2 DEF Checkpoint, diskVars, holdVars
    <2>2. Domains /\ CallOK(d)  BY DEF PlanInv
    <2>3. Framed(d)  BY <2>1, <2>2, QuietFrame DEF Domains, Goes
    <2>4. plan'[d] = plan[d] /\ pc'[d] = to /\ before'[d] = texts
      BY <2>1, <2>2 DEF Domains, Goes
    <2>5. Tool(d) = "edits" <=> pc[d] = "reading"  BY <2>1, <2>2 DEF CallOK, ToolOK
    <2>6. Targets(d)' = Targets(d)  BY <2>4 DEF Targets, Tool
    <2>7. QueueOK(d)'  BY <2>1, <2>2, <2>6 DEF CallOK, QueueOK, MayPlan, Tool
    <2>8. ToolOK(d)'  BY <2>4 DEF ToolOK, Tool
    <2>9. LocksOK(d)'  BY <2>1, <2>2, <2>6 DEF CallOK, LocksOK, Locked
    <2>10. \A p : IsDir(p)' = IsDir(p)  BY <2>1 DEF IsDir
    <2>11. EditsOK(d)'
      BY <2>1, <2>2, <2>4, <2>6, <2>10 DEF CallOK, EditsOK, Locked, Tool
    <2>12. HandlesOK(d)'
      <3> SUFFICES ASSUME Tool(d) # "edits"  PROVE HandlesOK(d)'
        BY DEF HandlesOK, Tool
      <3>1. pc[d] = "checkpoint"  BY <2>1, <2>5
      <3>2. \A p \in Scope(plan[d]) : texts[p].kind # "dir"
        BY <2>1 DEF Texts, AsPlanned, IsFile, IsAbsent
      <3>3. DOMAIN plan[d].parents \subseteq held[d]
        BY <2>2, <3>1 DEF CallOK, HandlesOK, Holding
      <3>4. /\ DOMAIN plan[d].snaps \cap plan[d].absent = {}
            /\ \A q \in DOMAIN plan[d].parents : IsDir(q) /\ disk[q].id = plan[d].parents[q]
        BY <2>2, <3>1 DEF CallOK, HandlesOK, Validated
      <3> HIDE DEF texts
      <3> QED  BY <2>1, <2>4, <2>10, <3>2, <3>3, <3>4 DEF HandlesOK
    <2>13. CallOK(d)'  BY <2>2, <2>4, <2>7, <2>8, <2>9, <2>11, <2>12 DEF CallOK
    <2> QED  BY <2>3, <2>13, FramedKeeps
  <1> QED  BY <1>1, <1>2

\* What a commit overwrites is no directory.
LEMMA CommitSpares ==
  ASSUME PlanInv, NEW d \in Call, pc[d] = "commit",
         NEW p \in Written(plan[d]) \cup plan[d].dirs,
         Texts(Written(plan[d]) \cup plan[d].dirs)[p] = before[d][p]
  PROVE  ~IsDir(p) /\ p \in Targets(d) /\ lock[p] = d
  <1>1. CallOK(d)  BY DEF PlanInv
  <1>2. p \in Scope(plan[d])  BY DEF Written, Scope
  <1>3. before[d][p].kind = disk[p].kind  BY DEF Texts
  <1>4. ~IsDir(p)
    <2>1. CASE Tool(d) = "edits"  BY <1>1, <1>2, <2>1 DEF CallOK, EditsOK, Locked
    <2>2. CASE Tool(d) # "edits"
      BY <1>1, <1>2, <1>3, <2>2 DEF CallOK, HandlesOK, Captured, IsDir
    <2> QED  BY <2>1, <2>2
  <1>5. p \in Targets(d)
    BY <1>1, <1>2 DEF CallOK, EditsOK, Targets
  <1> QED  BY <1>1, <1>4, <1>5 DEF CallOK, LocksOK, Locked

\* The commit.
LEMMA CommitKeeps ==
  ASSUME PlanInv, NEW d \in Call, Commit(d)
  PROVE  PlanInv'
  <1>1. CASE Fail(d)  BY <1>1, FailKeeps
  <1>2. CASE ~Fail(d)
    <2> DEFINE writes == Written(plan[d]) \cup plan[d].dirs
    <2>1. /\ disk' = Outcome(plan[d]) /\ Done(d) /\ pc[d] = "commit"
          /\ \A p \in writes : Texts(writes)[p] = before[d][p]
      BY <1>2 DEF Commit
    <2>2. \A p \in writes : ~IsDir(p) /\ lock[p] = d  BY <2>1, CommitSpares
    <2>3. DOMAIN disk' = Path
          /\ \A p \in Path : /\ p \notin writes => disk'[p] = disk[p]
                             /\ p \notin plan[d].dirs => disk'[p].kind \in {"file", "absent", disk[p].kind}
      BY <2>1 DEF Outcome, Entry, Missing, Written
    <2>4. \A c \in Call \ {d} : \A p \in Path : lock[p] = c /\ ~IsDir(p) => ~IsDir(p)'
      BY <2>2, <2>3 DEF IsDir
    <2>5. \A q \in Path : IsDir(q) => IsDir(q)' /\ disk'[q].id = disk[q].id
      BY <2>2, <2>3 DEF IsDir
    <2> QED  BY <2>1, <2>3, <2>4, <2>5, DoneKeeps
  <1> QED  BY <1>1, <1>2

-----------------------------------------------------------------------------
(* What is above a path.                                                   *)

\* The parents of what is above a path are above it, up to the root.
LEMMA AncestorsClosed ==
  ASSUME NEW p \in Path
  PROVE  /\ Ancestors[p] \subseteq Path
         /\ \A r \in Ancestors[p] \cup {p} : Parent[r] \in Ancestors[p] \cup {Root}
  <1> DEFINE closed(up) == \A r \in up \cup {p} : Parent[r] \in up \cup {Root}
  <1>1. Ancestors[p] = {q \in Path : \A up \in SUBSET Path : closed(up) => q \in up}
    BY DEF Ancestors
  <1>2. ASSUME NEW r \in Ancestors[p] \cup {p}, Parent[r] # Root
        PROVE  Parent[r] \in Ancestors[p]
    <2>1. r \in Path /\ Parent[r] \in Path  BY <1>1, <1>2, PathAssumption
    <2>2. ASSUME NEW up \in SUBSET Path, closed(up)  PROVE Parent[r] \in up
      <3>1. r \in up \cup {p}  BY <1>1, <2>2
      <3> QED  BY <1>2, <2>2, <3>1
    <2> QED  BY <1>1, <2>1, <2>2
  <1> QED  BY <1>1, <1>2

\* Nothing else is.
LEMMA AncestorsLeast ==
  ASSUME NEW p \in Path, NEW up \in SUBSET Path,
         \A r \in up \cup {p} : Parent[r] \in up \cup {Root}
  PROVE  Ancestors[p] \subseteq up
  BY DEF Ancestors

\* Whatever is above a path is the directory of one that is above it, or of the path.
LEMMA AncestorsChain ==
  ASSUME NEW p \in Path, NEW q \in Ancestors[p] \cup {Root}
  PROVE  \E r \in Ancestors[p] \cup {p} : Parent[r] = q
  <1> SUFFICES ASSUME \A r \in Ancestors[p] \cup {p} : Parent[r] # q  PROVE FALSE
    OBVIOUS
  <1>1. CASE q = Root
    <2> DEFINE set == Ancestors[p] \cup {p}
    <2>1. set \in SUBSET Path /\ set # {}  BY AncestorsClosed
    <2>2. \A r \in set : Parent[r] \in set  BY <1>1, AncestorsClosed
    <2> HIDE DEF set
    <2> QED  BY <2>1, <2>2, PathAssumption
  <1>2. CASE q # Root
    <2> DEFINE up == Ancestors[p] \ {q}
    <2>1. up \in SUBSET Path  BY AncestorsClosed
    <2>2. \A r \in up \cup {p} : Parent[r] \in up \cup {Root}  BY AncestorsClosed
    <2>3. q \notin up  OBVIOUS
    <2> HIDE DEF up
    <2>4. Ancestors[p] \subseteq up  BY <2>1, <2>2, AncestorsLeast
    <2> QED  BY <1>2, <2>3, <2>4
  <1> QED  BY <1>1, <1>2

\* The parent of a path is above it, and so is all that is above the parent.
LEMMA AncestorsAbove ==
  ASSUME NEW p \in Path, Parent[p] # Root
  PROVE  /\ Parent[p] \in Path /\ Parent[p] \in Ancestors[p]
         /\ Ancestors[Parent[p]] \subseteq Ancestors[p]
  <1>1. Parent[p] \in Path  BY PathAssumption
  <1>2. Parent[p] \in Ancestors[p]  BY AncestorsClosed
  <1>3. \A r \in Ancestors[p] \cup {Parent[p]} : Parent[r] \in Ancestors[p] \cup {Root}
    BY <1>2, AncestorsClosed
  <1>4. Ancestors[p] \in SUBSET Path  BY AncestorsClosed
  <1> QED  BY <1>1, <1>2, <1>3, <1>4, AncestorsLeast

\* And nothing more than these.
LEMMA AncestorsOfParent ==
  ASSUME NEW p \in Path
  PROVE  IF Parent[p] = Root THEN Ancestors[p] = {}
         ELSE Ancestors[p] \subseteq Ancestors[Parent[p]] \cup {Parent[p]}
  <1>1. CASE Parent[p] = Root
    <2> DEFINE none == {}
    <2>1. none \in SUBSET Path /\ \A r \in none \cup {p} : Parent[r] \in none \cup {Root}  BY <1>1
    <2> HIDE DEF none
    <2>2. Ancestors[p] \subseteq none  BY <2>1, AncestorsLeast
    <2> QED  BY <1>1, <2>2 DEF none
  <1>2. CASE Parent[p] # Root
    <2> DEFINE up == Ancestors[Parent[p]] \cup {Parent[p]}
    <2>1. Parent[p] \in Path  BY <1>2, AncestorsAbove
    <2>2. up \in SUBSET Path  BY <2>1, AncestorsClosed
    <2>3. \A r \in up : Parent[r] \in Ancestors[Parent[p]] \cup {Root}
      BY <2>1, AncestorsClosed
    <2>4. \A r \in up \cup {p} : Parent[r] \in up \cup {Root}  BY <2>3
    <2> HIDE DEF up
    <2>5. Ancestors[p] \subseteq up  BY <2>2, <2>4, AncestorsLeast
    <2> QED  BY <1>2, <2>5 DEF up
  <1> QED  BY <1>1, <1>2

\* Nothing is above itself.
LEMMA NoCycle ==
  ASSUME NEW p \in Path
  PROVE  p \notin Ancestors[p]
  <1> SUFFICES ASSUME p \in Ancestors[p]  PROVE FALSE
    OBVIOUS
  <1> DEFINE set == {r \in Ancestors[p] : p \in Ancestors[r]}
  <1>1. set \in SUBSET Path /\ set # {}  BY AncestorsClosed
  <1>2. ASSUME NEW r \in set  PROVE Parent[r] \in set
    <2>1. r \in Path /\ r \in Ancestors[p] /\ p \in Ancestors[r]  BY <1>1
    <2>2. Parent[r] # Root /\ p \in Ancestors[Parent[r]] \cup {Parent[r]}
      BY <2>1, AncestorsOfParent
    <2>3. Parent[r] \in Ancestors[p]  BY <2>1, <2>2, AncestorsClosed
    <2>4. p \in Ancestors[Parent[r]]  BY <2>2
    <2> QED  BY <2>3, <2>4
  <1> HIDE DEF set
  <1> QED  BY <1>1, <1>2, PathAssumption

-----------------------------------------------------------------------------
(* The workspace.                                                          *)

\* The workspace is a tree; the next file is newer than any other.
DiskOK ==
  /\ stamp \in Nat /\ \A p \in Path : disk[p].id \in Nat /\ disk[p].id < stamp
  /\ \A p \in Path : disk[p].kind \in {"absent", "file", "dir"}
  /\ \A p \in Path : ~IsAbsent(p) /\ Parent[p] # Root => IsDir(Parent[p])

\* What a step makes of the workspace: a path keeps what it has, loses it or gets a new file.
Renews ==
  /\ stamp \in Nat /\ stamp' \in Nat /\ stamp <= stamp'
  /\ \A p \in Path :
       \/ disk'[p] = disk[p]
       \/ disk'[p] = Missing
       \/ disk'[p].kind \in {"file", "dir"} /\ disk'[p].id = stamp /\ stamp < stamp'

\* Such a step leaves every identity older than the next one.
LEMMA RenewsIds ==
  ASSUME DiskOK, Renews
  PROVE  /\ stamp' \in Nat /\ \A p \in Path : disk'[p].id \in Nat /\ disk'[p].id < stamp'
         /\ \A p \in Path : disk'[p].kind \in {"absent", "file", "dir"}
  <1> SUFFICES ASSUME NEW p \in Path
               PROVE  /\ disk'[p].id \in Nat /\ disk'[p].id < stamp'
                      /\ disk'[p].kind \in {"absent", "file", "dir"}
    BY DEF Renews
  <1>1. stamp \in Nat /\ stamp' \in Nat /\ stamp <= stamp' /\ disk[p].id \in Nat /\ disk[p].id < stamp
        /\ disk[p].kind \in {"absent", "file", "dir"}
    BY DEF DiskOK, Renews
  <1>2. CASE disk'[p] = disk[p]  BY <1>1, <1>2
  <1>3. CASE disk'[p] = Missing  BY <1>1, <1>3 DEF Missing, Entry
  <1>4. CASE disk'[p].kind \in {"file", "dir"} /\ disk'[p].id = stamp /\ stamp < stamp'
    BY <1>1, <1>4
  <1> QED  BY <1>2, <1>3, <1>4 DEF Renews

\* What stands above a path that is there is a directory.
LEMMA AncestorsAreDirectories ==
  ASSUME DiskOK, NEW p \in Path, ~IsAbsent(p)
  PROVE  \A q \in Ancestors[p] : IsDir(q)
  <1> DEFINE up == {q \in Ancestors[p] : IsDir(q)}
  <1>1. up \in SUBSET Path  BY AncestorsClosed
  <1>2. ASSUME NEW r \in up \cup {p}, Parent[r] # Root  PROVE Parent[r] \in up
    <2>1. r \in Path /\ ~IsAbsent(r) /\ r \in Ancestors[p] \cup {p}  BY <1>1 DEF IsDir, IsAbsent
    <2>2. IsDir(Parent[r])  BY <1>2, <2>1 DEF DiskOK
    <2>3. Parent[r] \in Ancestors[p]  BY <1>2, <2>1, AncestorsClosed
    <2> QED  BY <2>2, <2>3
  <1>3. Ancestors[p] \subseteq up
    <2>1. \A r \in up \cup {p} : Parent[r] \in up \cup {Root}  BY <1>2
    <2> HIDE DEF up
    <2> QED  BY <1>1, <2>1, AncestorsLeast
  <1> QED  BY <1>3

\* A commit writes into directories that are there or that it makes: the tree stays a tree.
LEMMA CommitRenews ==
  ASSUME PlanInv, DiskOK, NEW d \in Call, Commit(d), ~Fail(d)
  PROVE  Renews /\ DiskOK'
  <1> DEFINE pl == plan[d]
             writes == Written(pl) \cup pl.dirs
  <1>1. /\ disk' = Outcome(pl) /\ stamp' = stamp + 1 /\ pc[d] = "commit"
        /\ \A p \in writes : Texts(writes)[p] = before[d][p]
        /\ \A p \in writes : Parent[p] = Root \/ Parent[p] \in pl.dirs \/ IsDir(Parent[p])
    BY DEF Commit
  <1>2. \A p \in writes : ~IsDir(p)  BY <1>1, CommitSpares
  <1>3. CallOK(d) /\ stamp \in Nat  BY DEF PlanInv, DiskOK
  <1>4. pl.dirs \cap DOMAIN pl.changes = {}
    <2>1. PlanOK(pl)  BY <1>3 DEF CallOK
    <2>2. CASE Tool(d) = "edits"
      <3>1. pl.dirs = {}  BY <1>3, <2>1, <2>2 DEF CallOK, EditsOK, PlanOK
      <3> QED  BY <3>1
    <2>3. CASE Tool(d) # "edits"
      <3>1. DOMAIN pl.snaps \cap pl.absent = {}
        BY <1>1, <1>3, <2>3 DEF CallOK, HandlesOK, Validated
      <3> QED  BY <2>1, <3>1 DEF PlanOK
    <2> QED  BY <2>2, <2>3
  <1>5. \A p \in Path :
          /\ p \in DOMAIN pl.changes => disk'[p].kind = "file" /\ disk'[p].id = stamp
          /\ p \in pl.dirs => disk'[p].kind = "dir" /\ disk'[p].id = stamp
          /\ p \in writes \/ disk'[p] = disk[p]
          /\ p \in DOMAIN pl.changes \/ p \in pl.dirs \/ disk'[p] = Missing \/ disk'[p] = disk[p]
    BY <1>1, <1>4 DEF Outcome, Entry, Written
  <1>6. Renews  BY <1>1, <1>3, <1>5 DEF Renews
  <1>7. ASSUME NEW p \in Path, ~IsAbsent(p)', Parent[p] # Root  PROVE IsDir(Parent[p])'
    <2>1. Parent[p] \in Path  BY <1>7, PathAssumption
    <2>2. Parent[p] \in pl.dirs \/ IsDir(Parent[p])
      <3>1. CASE p \in writes  BY <1>1, <1>7, <3>1
      <3>2. CASE disk'[p] = disk[p]  BY <1>7, <3>2 DEF DiskOK, IsAbsent
      <3> QED  BY <1>5, <3>1, <3>2
    <2>3. CASE Parent[p] \in pl.dirs  BY <1>5, <2>1, <2>3 DEF IsDir
    <2>4. CASE IsDir(Parent[p])  BY <1>2, <1>5, <2>1, <2>4 DEF IsDir
    <2> QED  BY <2>2, <2>3, <2>4
  <1>8. DiskOK'
    BY <1>6, <1>7, RenewsIds DEF DiskOK
  <1> QED  BY <1>6, <1>8

\* Every other step of a call leaves the workspace as it is.
LEMMA CallsRenew ==
  ASSUME PlanInv, DiskOK, NEW d \in Call, Calls(d)
  PROVE  Renews /\ DiskOK'
  <1>1. CASE Commit(d) /\ ~Fail(d)  BY <1>1, CommitRenews
  <1>2. CASE UNCHANGED <<disk, stamp>>
    BY <1>2 DEF DiskOK, Renews, IsAbsent, IsDir
  <1>3. ASSUME ~(Commit(d) /\ ~Fail(d))  PROVE UNCHANGED <<disk, stamp>>
    BY <1>3 DEF Calls, Start, StartEdits, Scan, PlanOp, Bind, StorePlan, Expire, Take, Lock, Hold, Validate,
                Checkpoint, Recheck, Preflight, CommitFails, Check, Fail, diskVars
  <1> QED  BY <1>1, <1>2, <1>3

-----------------------------------------------------------------------------
(* The programs of the user, and restarts.                                 *)

\* A program that changes what nobody holds.
LEMMA OutsideKeeps ==
  ASSUME PlanInv, UNCHANGED <<plan, queue, before, lock, held, pc, store>>, DOMAIN disk' = Path,
         \A p \in Path : ~IsDir(p) => ~IsDir(p)',
         \A q \in Path : IsDir(q) /\ q \in Held => IsDir(q)' /\ disk'[q].id = disk[q].id
  PROVE  PlanInv'
  <1>1. Domains'  BY DEF PlanInv, Domains
  <1>2. ASSUME NEW c \in Call  PROVE Spared(c)
    <2>1. held[c] \subseteq Held  BY DEF Held
    <2> QED  BY <2>1 DEF Spared
  <1>3. \A c \in Call : CallOK(c)'  BY <1>2, SparedKeeps DEF PlanInv
  <1> QED  BY <1>1, <1>3 DEF PlanInv

\* The user writes or removes a file: a slot does not stop that, but no directory comes or goes.
LEMMA EditKeeps ==
  ASSUME PlanInv, DiskOK, NEW p \in Path, ~IsDir(p), NEW entry, Edit(p, entry),
         entry = Missing \/ (/\ entry.kind = "file" /\ entry.id = stamp
                             /\ Parent[p] = Root \/ IsDir(Parent[p]))
  PROVE  PlanInv' /\ Renews /\ DiskOK'
  <1>1. /\ UNCHANGED <<plan, queue, before, lock, held, pc, store>>
        /\ disk' = [disk EXCEPT ![p] = entry] /\ stamp' = stamp + 1
    BY DEF Edit, planVars, holdVars
  <1>2. DOMAIN disk = Path /\ stamp \in Nat  BY DEF PlanInv, Domains, DiskOK
  <1>3. DOMAIN disk' = Path /\ disk'[p] = entry /\ \A q \in Path \ {p} : disk'[q] = disk[q]
    BY <1>1, <1>2
  <1>4. entry.kind # "dir" /\ (entry.kind # "absent" => Parent[p] = Root \/ IsDir(Parent[p]))
    BY DEF Missing, Entry
  <1>5. PlanInv'  BY <1>1, <1>3, <1>4, OutsideKeeps DEF IsDir
  <1>6. Renews  BY <1>1, <1>2, <1>3 DEF Renews
  <1>7. ASSUME NEW q \in Path, ~IsAbsent(q)', Parent[q] # Root  PROVE IsDir(Parent[q])'
    <2>1. Parent[q] \in Path  BY <1>7, PathAssumption
    <2>2. IsDir(Parent[q])  BY <1>3, <1>4, <1>7 DEF DiskOK, IsAbsent
    <2> QED  BY <1>3, <2>1, <2>2 DEF IsDir
  <1>8. DiskOK'  BY <1>6, <1>7, RenewsIds DEF DiskOK
  <1> QED  BY <1>5, <1>6, <1>8

\* The user replaces a directory that nobody holds.
LEMMA SwapKeeps ==
  ASSUME PlanInv, DiskOK, NEW q \in Path, NEW keeps \in BOOLEAN, SwapDirectory(q, keeps)
  PROVE  PlanInv' /\ Renews /\ DiskOK'
  <1>1. /\ UNCHANGED <<plan, queue, before, lock, held, pc, store>> /\ stamp' = stamp + 1
        /\ disk' = [p \in Path |-> IF p = q THEN Entry("dir", stamp, NoText)
                                   ELSE IF p \in Below(q) /\ ~keeps THEN Missing
                                   ELSE disk[p]]
        /\ IsDir(q) /\ q \notin Held /\ Below(q) \cap Held = {}
    BY DEF SwapDirectory, planVars, holdVars
  <1>2. stamp \in Nat  BY DEF DiskOK
  <1>3. /\ DOMAIN disk' = Path /\ disk'[q].kind = "dir" /\ disk'[q].id = stamp
        /\ \A p \in Path \ {q} : disk'[p] = IF p \in Below(q) /\ ~keeps THEN Missing ELSE disk[p]
    BY <1>1 DEF Entry
  <1>4. \A p \in Path : ~IsDir(p) => ~IsDir(p)'  BY <1>1, <1>3 DEF IsDir, Missing, Entry
  <1>5. \A p \in Path : p \in Held => disk'[p] = disk[p]  BY <1>1, <1>3
  <1>6. PlanInv'  BY <1>1, <1>3, <1>4, <1>5, OutsideKeeps DEF IsDir
  <1>7. Renews  BY <1>1, <1>2, <1>3 DEF Renews
  <1>8. ASSUME NEW p \in Path, ~IsAbsent(p)', Parent[p] # Root  PROVE IsDir(Parent[p])'
    <2>1. Parent[p] \in Path /\ Parent[p] \in Ancestors[p] /\ Ancestors[Parent[p]] \subseteq Ancestors[p]
      BY <1>8, AncestorsAbove
    <2>2. CASE Parent[p] = q  BY <1>3, <2>2 DEF IsDir
    <2>3. CASE Parent[p] # q
      <3>1. p = q \/ disk'[p] = disk[p]  BY <1>3, <1>8 DEF IsAbsent, Missing, Entry
      <3>2. IsDir(Parent[p])  BY <1>1, <1>8, <3>1 DEF DiskOK, IsAbsent, IsDir
      <3>3. disk'[Parent[p]] = disk[Parent[p]]
        <4>1. CASE keeps  BY <1>3, <2>1, <2>3, <4>1
        <4>2. CASE ~keeps /\ p # q
          <5>1. p \notin Below(q)  BY <1>3, <1>8, <4>2 DEF IsAbsent, Missing, Entry
          <5>2. Parent[p] \notin Below(q)  BY <2>1, <5>1 DEF Below
          <5> QED  BY <1>3, <2>1, <2>3, <5>2
        <4>3. CASE p = q
          <5>1. Parent[p] \notin Below(q)  BY <2>1, <4>3, NoCycle DEF Below
          <5> QED  BY <1>3, <2>1, <2>3, <5>1
        <4> QED  BY <4>1, <4>2, <4>3
      <3> QED  BY <3>2, <3>3 DEF IsDir
    <2> QED  BY <2>2, <2>3
  <1>9. DiskOK'  BY <1>7, <1>8, RenewsIds DEF DiskOK
  <1> QED  BY <1>6, <1>7, <1>9

\* A restart ends every call.
LEMMA RestartKeeps ==
  ASSUME PlanInv, DiskOK, Restart
  PROVE  PlanInv' /\ Renews /\ DiskOK'
  <1>1. /\ UNCHANGED <<disk, stamp, plan, queue, before>> /\ store' = {}
        /\ pc' = [c \in Call |-> IF pc[c] \in Stopped THEN pc[c] ELSE "dead"]
        /\ lock' = [p \in Path |-> Nobody] /\ held' = [c \in Call |-> {}]
    BY DEF Restart, diskVars, planVars
  <1>2. Domains'  BY <1>1 DEF PlanInv, Domains
  <1>3. ASSUME NEW c \in Call  PROVE CallOK(c)'
    <2>1. CallOK(c)  BY DEF PlanInv
    <2>2. plan'[c] = plan[c] /\ queue'[c] = queue[c] /\ (pc'[c] = pc[c] \/ pc'[c] = "dead")
          /\ pc'[c] \in Stopped
      BY <1>1 DEF Stopped
    <2>3. Targets(c)' = Targets(c)  BY <2>2 DEF Targets, Tool
    <2>4. QueueOK(c)'  BY <2>1, <2>2, <2>3 DEF CallOK, QueueOK, MayPlan, Tool
    <2> QED
      BY <2>1, <2>2, <2>3, <2>4 DEF CallOK, ToolOK, LocksOK, EditsOK, HandlesOK, Locked, Holding,
                                    Validated, Captured, Stopped, Tool
  <1>4. DiskOK' /\ Renews  BY <1>1 DEF DiskOK, Renews, IsAbsent, IsDir
  <1> QED  BY <1>2, <1>3, <1>4 DEF PlanInv

\* Each step of a call.
LEMMA CallsKeep ==
  ASSUME PlanInv, NEW d \in Call, Calls(d)
  PROVE  PlanInv'
  <1>1. CASE CommitFails(d)  BY <1>1, FailKeeps DEF CommitFails
  <1> QED
    BY <1>1, StartKeeps, StartEditsKeeps, ScanKeeps, PlanOpKeeps, BindKeeps, StorePlanKeeps, ExpireKeeps,
       TakeKeeps, LockKeeps, HoldKeeps, ValidateKeeps, CheckpointKeeps, RecheckKeeps, PreflightKeeps,
       CommitKeeps
    DEF Calls

\* Each step of the others.
LEMMA OthersKeep ==
  ASSUME PlanInv, DiskOK, Others
  PROVE  PlanInv' /\ Renews /\ DiskOK'
  <1>1. ASSUME NEW p \in Path, NEW text, EditFile(p, text)  PROVE PlanInv' /\ Renews /\ DiskOK'
    <2> DEFINE entry == Entry("file", stamp, text)
    <2>1. Edit(p, entry) /\ ~IsDir(p) /\ ~IsAbsent(p)  BY <1>1 DEF EditFile, IsFile, IsDir, IsAbsent
    <2>2. Parent[p] = Root \/ IsDir(Parent[p])  BY <2>1 DEF DiskOK
    <2>3. entry.kind = "file" /\ entry.id = stamp  BY DEF Entry
    <2> HIDE DEF entry
    <2> QED  BY <2>1, <2>2, <2>3, EditKeeps
  <1>2. ASSUME NEW p \in Path, NEW text, MakeFile(p, text)  PROVE PlanInv' /\ Renews /\ DiskOK'
    <2> DEFINE entry == Entry("file", stamp, text)
    <2>1. Edit(p, entry) /\ ~IsDir(p)  BY <1>2 DEF MakeFile, IsDir, IsAbsent
    <2>2. Parent[p] = Root \/ IsDir(Parent[p])  BY <1>2 DEF MakeFile
    <2>3. entry.kind = "file" /\ entry.id = stamp  BY DEF Entry
    <2> HIDE DEF entry
    <2> QED  BY <2>1, <2>2, <2>3, EditKeeps
  <1>3. ASSUME NEW p \in Path, RemoveFile(p)  PROVE PlanInv' /\ Renews /\ DiskOK'
    BY <1>3, EditKeeps DEF RemoveFile, IsFile, IsDir
  <1> QED  BY <1>1, <1>2, <1>3, SwapKeeps, RestartKeeps DEF Others

\* Every step of WorkspacePlan.
LEMMA NextKeeps ==
  ASSUME PlanInv, DiskOK, Next
  PROVE  PlanInv' /\ Renews /\ DiskOK'
  BY CallsKeep, CallsRenew, OthersKeep DEF Next

\* The invariant holds at first.
LEMMA InitPlan ==
  Init => PlanInv /\ DiskOK
  <1> SUFFICES ASSUME Init  PROVE PlanInv /\ DiskOK
    OBVIOUS
  <1>1. Domains  BY InitialAssumption DEF Init, Domains
  <1>2. ASSUME NEW c \in Call  PROVE CallOK(c)
    <2>1. plan[c] = EmptyPlan /\ queue[c] = <<>> /\ pc[c] \in {"idle", "dead"}  BY <1>2 DEF Init
    <2>2. /\ EmptyPlan.snaps = <<>> /\ EmptyPlan.absent = {} /\ EmptyPlan.changes = <<>>
          /\ EmptyPlan.dels = {} /\ EmptyPlan.dirs = {} /\ EmptyPlan.parents = <<>>
          /\ EmptyPlan.files = <<>> /\ EmptyPlan.removed = {} /\ PlanRecord(EmptyPlan)
      BY DEF EmptyPlan, PlanRecord
    <2>3. DOMAIN <<>> = {}  OBVIOUS
    <2>4. Scope(EmptyPlan) = {}  BY <2>2, <2>3 DEF Scope
    <2>5. PlanOK(EmptyPlan)  BY <2>2, <2>3, <2>4 DEF PlanOK
    <2>6. QueueOK(c)
      <3>1. queue[c] \in Seq({})  BY <2>1
      <3> QED  BY <3>1 DEF QueueOK, MayPlan
    <2>7. ToolOK(c) /\ LocksOK(c) /\ HandlesOK(c)
      BY <2>1 DEF ToolOK, LocksOK, HandlesOK, Locked, Holding, Validated, Captured
    <2>8. EditsOK(c)  BY <2>1, <2>2, <2>4 DEF EditsOK, Locked
    <2> QED  BY <2>1, <2>5, <2>6, <2>7, <2>8 DEF CallOK
  <1>3. DiskOK
    <2>1. Cardinality(Path) \in Nat  BY PathAssumption, FS_CardinalityType
    <2> QED  BY <2>1, InitialAssumption DEF Init, DiskOK, IsAbsent, IsDir
  <1> QED  BY <1>1, <1>2, <1>3 DEF PlanInv

\* Staging and the user's Git leave the workspace and the calls alone.
LEMMA GitKeepsCalls ==
  ASSUME PlanInv, DiskOK, [GitNext]_allVars
  PROVE  PlanInv' /\ Renews /\ DiskOK'
  <1>1. CASE UNCHANGED <<disk, stamp, plan, queue, pc, lock, held, before, store>>
    <2>1. Domains'  BY <1>1 DEF PlanInv, Domains
    <2>2. \A c \in Call : Spared(c)  BY <1>1 DEF Spared, IsDir
    <2>3. DiskOK' /\ Renews  BY <1>1 DEF DiskOK, Renews, IsAbsent, IsDir
    <2> QED  BY <2>1, <2>2, <2>3, SparedKeeps DEF PlanInv
  <1>2. CASE Next  BY <1>2, NextKeeps
  <1>3. CASE Staging
    BY <1>1, <1>3 DEF Staging, ContainmentFails, StageBegins, PlanPruning, PinHead, PinPacked, PinRef,
      ListDirectory, CopyFile, ListGit, CopyHead, CopyConfig, CopyIndex, CopyPacked, ListRefs, CopyRef,
      CopyPack, CopyLoose, Complete, RunCommand, CommandFails, BatchEnds, EndGit, GitFails, Then, Moves, vars
  <1>4. CASE UserOfGit
    BY <1>1, <1>4 DEF UserOfGit, UserIndexes, UserSwitches, UserPrunesRef, UserCommits, UserPacksRefs,
      UserRepacks, UserGit, planVars, holdVars
  <1>5. CASE UNCHANGED allVars  BY <1>1, <1>5 DEF allVars, vars
  <1> QED  BY <1>2, <1>3, <1>4, <1>5 DEF GitNext, Elsewhere

\* Type correctness of the plans, the locks and handles of the calls, and the tree of the workspace,
\* in every state: what run_workspace_plan and text_file_apply rely on.
THEOREM CallInvariant == GitSpec => [](PlanInv /\ DiskOK)
  <1>1. GitInit => PlanInv /\ DiskOK  BY InitPlan DEF GitInit
  <1>2. PlanInv /\ DiskOK /\ [GitNext]_allVars => (PlanInv /\ DiskOK)'  BY GitKeepsCalls
  <1> QED  BY <1>1, <1>2, PTL DEF GitSpec

\* The action of StaysInDirectories.
InsideWhenDone ==
  \A c \in Call : Succeeds(c) =>
       \A q \in DOMAIN plan[c].parents : IsDir(q) /\ disk[q].id = plan[c].parents[q]

\* Only a call whose plan is valid succeeds, or one that has its directories held since it was.
LEMMA SucceedsInside ==
  ASSUME PlanInv, [GitNext]_allVars, NEW c \in Call, Succeeds(c)
  PROVE  \A q \in DOMAIN plan[c].parents : IsDir(q) /\ disk[q].id = plan[c].parents[q]
  <1>1. pc[c] # "done" /\ pc'[c] = "done"  BY DEF Succeeds
  <1>2. CallOK(c) /\ Domains  BY DEF PlanInv
  <1>3. Next
    <2>1. CASE Staging
      BY <1>1, <2>1 DEF Staging, ContainmentFails, StageBegins, PlanPruning, PinHead, PinPacked, PinRef,
      ListDirectory, CopyFile, ListGit, CopyHead, CopyConfig, CopyIndex, CopyPacked, ListRefs, CopyRef,
      CopyPack, CopyLoose, Complete, RunCommand, CommandFails, BatchEnds, EndGit, GitFails, Then, Moves, vars
    <2>2. CASE UserOfGit
      BY <1>1, <2>2 DEF UserOfGit, UserIndexes, UserSwitches, UserPrunesRef, UserCommits, UserPacksRefs,
      UserRepacks, UserGit
    <2>3. CASE UNCHANGED allVars  BY <1>1, <2>3 DEF allVars, vars
    <2> QED  BY <2>1, <2>2, <2>3 DEF GitNext, Elsewhere
  <1>4. ~Others
    BY <1>1, <1>2 DEF Others, EditFile, MakeFile, RemoveFile, Edit, SwapDirectory, Restart, Domains
  <1>5. PICK d \in Call : Calls(d)  BY <1>3, <1>4 DEF Next
  <1>6. d = c /\ ((Validate(c) /\ Valid(plan[c])) \/ (Commit(c) /\ ~Fail(c)))
    <2>1. Validate(d) \/ Commit(d)
      BY <1>1, <1>2, <1>5 DEF Calls, Start, StartEdits, Scan, PlanOp, Bind, StorePlan, Expire, Take, Lock,
         Hold, Checkpoint, Recheck, Preflight, CommitFails, Check, Fail, Goes, Domains
    <2> QED
      BY <1>1, <1>2, <2>1 DEF Validate, Commit, Check, Done, Fail, Goes, Domains
  <1>7. CASE Valid(plan[c])  BY <1>7 DEF Valid
  <1>8. CASE pc[c] = "commit"
    <2>1. CASE Tool(c) = "edits"
      <3>1. DOMAIN plan[c].parents = {}  BY <1>2, <2>1 DEF CallOK, EditsOK
      <3> QED  BY <3>1
    <2>2. CASE Tool(c) # "edits"  BY <1>2, <1>8, <2>2 DEF CallOK, HandlesOK, Validated
    <2> QED  BY <2>1, <2>2
  <1> QED  BY <1>6, <1>7, <1>8 DEF Commit

\* A plan succeeds only in the very directories it was made for (_validate_plan, and the handles that
\* the call keeps from before it to the end): whatever the user moves, replaces or removes meanwhile.
THEOREM PlansStayInDirectories == GitSpec => StaysInDirectories
  <1>1. PlanInv /\ DiskOK /\ [GitNext]_allVars => [InsideWhenDone]_vars
    BY SucceedsInside DEF InsideWhenDone
  <1> QED  BY <1>1, CallInvariant, PTL DEF GitSpec, StaysInDirectories, InsideWhenDone

-----------------------------------------------------------------------------
(* The copy of the workspace.                                              *)

\* A list.
IsList(t) == \E set : t \in Seq(set)

\* What is on a list.
Listed(t) == {t[i] : i \in DOMAIN t}

\* The first entry is taken from a list.
LEMMA ListedFirst ==
  ASSUME NEW t, IsList(t), t # <<>>
  PROVE  /\ IsList(Tail(t)) /\ Listed(t) \subseteq {Head(t)} \cup Listed(Tail(t))
         /\ Listed(Tail(t)) \subseteq Listed(t)
  <1>1. PICK set : t \in Seq(set)  BY DEF IsList
  <1>2. Tail(t) \in Seq(set) /\ Len(t) \in Nat /\ Len(t) # 0 /\ Len(Tail(t)) = Len(t) - 1
        /\ Head(t) = t[1] /\ \A i \in 1..Len(t) - 1 : Tail(t)[i] = t[i + 1]
    BY <1>1
  <1>3. DOMAIN t = 1..Len(t) /\ DOMAIN Tail(t) = 1..Len(t) - 1  BY <1>1, <1>2
  <1>4. ASSUME NEW i \in DOMAIN t  PROVE t[i] \in {Head(t)} \cup Listed(Tail(t))
    <2>1. CASE i = 1  BY <1>2, <2>1
    <2>2. CASE i # 1
      <3>1. i - 1 \in DOMAIN Tail(t) /\ Tail(t)[i - 1] = t[i]  BY <1>2, <1>3, <2>2
      <3> QED  BY <3>1 DEF Listed
    <2> QED  BY <2>1, <2>2
  <1>5. ASSUME NEW i \in DOMAIN Tail(t)  PROVE Tail(t)[i] \in Listed(t)
    <2>1. i + 1 \in DOMAIN t /\ Tail(t)[i] = t[i + 1]  BY <1>2, <1>3
    <2> QED  BY <2>1 DEF Listed
  <1> QED  BY <1>2, <1>4, <1>5 DEF IsList, Listed

\* Two lists, one after the other.
LEMMA ListedConcat ==
  ASSUME NEW s, NEW t, IsList(s), IsList(t)
  PROVE  IsList(s \o t) /\ Listed(s) \subseteq Listed(s \o t) /\ Listed(t) \subseteq Listed(s \o t)
  <1>1. PICK set : s \in Seq(set)  BY DEF IsList
  <1>2. PICK more : t \in Seq(more)  BY DEF IsList
  <1> DEFINE all == set \cup more
             u == s \o t
  <1>3. s \in Seq(all) /\ t \in Seq(all)  BY <1>1, <1>2
  <1> HIDE DEF all
  <1>4. /\ u \in Seq(all) /\ Len(u) = Len(s) + Len(t) /\ Len(s) \in Nat /\ Len(t) \in Nat
        /\ DOMAIN s = 1..Len(s) /\ DOMAIN t = 1..Len(t) /\ DOMAIN u = 1..Len(s) + Len(t)
    BY <1>3
  <1>5. \A i \in 1..Len(s) : u[i] = s[i]  BY <1>3
  <1>6. \A i \in 1..Len(t) : u[Len(s) + i] = t[i]  BY <1>3
  <1> HIDE DEF u
  <1>7. ASSUME NEW i \in DOMAIN s  PROVE s[i] \in Listed(u)
    <2>1. i \in DOMAIN u /\ u[i] = s[i]  BY <1>4, <1>5
    <2> QED  BY <2>1 DEF Listed
  <1>8. ASSUME NEW i \in DOMAIN t  PROVE t[i] \in Listed(u)
    <2>1. Len(s) + i \in DOMAIN u /\ u[Len(s) + i] = t[i]  BY <1>4, <1>6
    <2> QED  BY <2>1 DEF Listed
  <1>9. IsList(u)  BY <1>4 DEF IsList
  <1> QED  BY <1>7, <1>8, <1>9 DEF Listed, u

\* Items misses no member of its set.
LEMMA ItemsAll ==
  ASSUME NEW kind, NEW set, IsFiniteSet(set)
  PROVE  IsList(Items(kind, set)) /\ Entries(kind, set) \subseteq Listed(Items(kind, set))
  <1> DEFINE N == Cardinality(set)
             order == Seqs!SetToSeq(set)
             t == Items(kind, set)
  <1>1. N \in Nat /\ order \in [1..N -> set] /\ \A x \in set : \E i \in 1..N : order[i] = x
    BY SetOrdered
  <1>2. t = [i \in 1..N |-> Item(kind, order[i])]  BY <1>1 DEF Items
  <1> HIDE DEF order, N, t
  <1>3. t \in [1..N -> Entries(kind, set)]  BY <1>1, <1>2, Zenon DEF Entries
  <1>4. t \in Seq(Entries(kind, set)) /\ DOMAIN t = 1..N  BY <1>1, <1>3
  <1>5. ASSUME NEW x \in set  PROVE Item(kind, x) \in Listed(t)
    <2>1. PICK i \in 1..N : order[i] = x  BY <1>1
    <2>2. i \in DOMAIN t /\ t[i] = Item(kind, x)  BY <1>2, <2>1
    <2> QED  BY <2>2 DEF Listed
  <1> QED  BY <1>4, <1>5 DEF IsList, Entries, t

\* A file that nobody touched since the staging began.
Untouched(p) == began[p].kind = "file" /\ disk[p] = began[p]

\* Neither it nor a directory above it is left out or passed over.
Wanted(p) == ~Under(p, copy.pruned) /\ ~Under(p, request.protected)

\* A file that is still wanted is in the copy, on the list, or below a directory on the list.
Coming(p) ==
  \/ p \in DOMAIN copy.files \/ Item("file", p) \in Listed(todo)
  \/ \E q \in Ancestors[p] \cup {Root} : Item("dir", q) \in Listed(todo)

\* The workspace as it was when the staging began is older than any file to come.
BeganOK == \A p \in Path : began[p].id \in Nat /\ began[p].id < stamp

\* What is left out has no tracked file in it: the index it was read from is held, unless there
\* was none.
PrunedOK ==
  /\ stage = "idle" => copy.pruned = {}
  /\ stage \in Planning \cup {"copy"} =>
       \/ copy.pruned = {} \/ IndexAppeared
       \/ "index" \in pins /\ copy.pruned \subseteq CanPrune(copy.pruned, copy.index)

\* A file that was copied and that nobody touched is copied as it is, attributes made inert.
FilesOK ==
  /\ stage \in Planning => copy.files = <<>>
  /\ \A p \in Path : Untouched(p) /\ p \in DOMAIN copy.files => copy.files[p] = Projected(p)

\* A tracked file that the walk may miss.
Excused(p) == Under(p, request.protected) \/ (IndexAppeared /\ Under(p, copy.pruned))

\* The walk misses no file that is wanted, and none that is tracked once it is through.
WalkComing ==
  stage = "copy" => IsList(todo) /\ \A p \in Path : Untouched(p) /\ Wanted(p) => Coming(p)
Brought ==
  stage = "run" =>
    \A p \in Tracked(copy.index) : Untouched(p) => p \in DOMAIN copy.files \/ Excused(p)
AllComing == WalkComing /\ Brought

\* The invariant of the walk.
WalkInv == CopyRecord(copy) /\ SeenNow /\ BeganOK /\ PrunedOK /\ FilesOK /\ AllComing

\* A file has no way back to what it was when the staging began: its identity is never used again.
LEMMA UntouchedBefore ==
  ASSUME BeganOK, Renews, began' = began
  PROVE  BeganOK' /\ \A p \in Path : Untouched(p)' => Untouched(p) /\ disk'[p] = disk[p]
  <1>1. stamp \in Nat /\ stamp' \in Nat /\ stamp <= stamp'  BY DEF Renews
  <1>2. ASSUME NEW p \in Path  PROVE (began[p].id \in Nat /\ began[p].id < stamp')
    BY <1>1 DEF BeganOK
  <1>3. ASSUME NEW p \in Path, Untouched(p)'  PROVE Untouched(p) /\ disk'[p] = disk[p]
    <2>1. began[p].kind = "file" /\ disk'[p] = began[p]  BY <1>3 DEF Untouched
    <2>2. disk'[p] # Missing  BY <2>1 DEF Missing, Entry
    <2>3. disk'[p].id # stamp  BY <2>1 DEF BeganOK, Renews
    <2> QED  BY <2>1, <2>2, <2>3 DEF Renews, Untouched
  <1> QED  BY <1>2, <1>3 DEF BeganOK

\* What the walk needs of the copy.
SameWalk(d, c) == CopyRecord(d) /\ d.files = c.files /\ d.pruned = c.pruned /\ d.index = c.index

\* An assignment to what the walk does not need.
LEMMA CopySpares ==
  ASSUME NEW c, CopyRecord(c), NEW v
  PROVE  /\ SameWalk([c EXCEPT !.head = v], c) /\ SameWalk([c EXCEPT !.loose = v], c)
         /\ SameWalk([c EXCEPT !.packed = v], c) /\ SameWalk([c EXCEPT !.objects = v], c)
  <1>1. SameWalk([c EXCEPT !.head = v], c)  BY DEF CopyRecord, SameWalk
  <1>2. SameWalk([c EXCEPT !.loose = v], c)  BY DEF CopyRecord, SameWalk
  <1>3. SameWalk([c EXCEPT !.packed = v], c)  BY DEF CopyRecord, SameWalk
  <1>4. SameWalk([c EXCEPT !.objects = v], c)  BY DEF CopyRecord, SameWalk
  <1> QED  BY <1>1, <1>2, <1>3, <1>4

\* A step of the staging leaves the workspace as it is.
LEMMA Stands ==
  ASSUME WalkInv, UNCHANGED <<disk, stamp, began>>
  PROVE  BeganOK' /\ \A p : Untouched(p)' <=> Untouched(p)
  BY DEF WalkInv, BeganOK, Untouched

\* A staging that failed or ended.
LEMMA StopsWalk ==
  ASSUME WalkInv, UNCHANGED <<disk, stamp, began, request>>, CopyRecord(copy'),
         stage' \in {"failed", "ended"}, copy'.files \in {copy.files, <<>>}
  PROVE  WalkInv'
  <1>1. BeganOK' /\ \A p : Untouched(p)' <=> Untouched(p)  BY Stands
  <1>2. DOMAIN <<>> = {}  OBVIOUS
  <1>3. FilesOK'  BY <1>1, <1>2 DEF WalkInv, FilesOK, Projected, Planning
  <1>4. PrunedOK' /\ AllComing' /\ SeenNow'
    BY DEF PrunedOK, AllComing, WalkComing, Brought, SeenNow, Planning
  <1> QED  BY <1>1, <1>3, <1>4 DEF WalkInv

\* The staging fails.
LEMMA GitFailsWalk == ASSUME WalkInv, GitFails  PROVE WalkInv'
  BY StopsWalk DEF GitFails, Moves, vars, WalkInv, CopyRecord

\* The commands are through and the copy is removed.
LEMMA EndGitWalk == ASSUME WalkInv, EndGit  PROVE WalkInv'
  <1>1. CopyRecord(copy') /\ copy'.files = <<>>  BY DEF EndGit, Nothing, CopyRecord
  <1> QED  BY <1>1, StopsWalk DEF EndGit, Moves, vars

\* Planning the copy.
LEMMA PlansWalk ==
  ASSUME WalkInv, UNCHANGED <<disk, stamp>>, began' \in {began, disk}, SeenNow',
         DiskOK, stage \in Planning, CopyRecord(copy'), copy'.files = copy.files, PrunedOK',
         stage' \in Planning \/ (stage' = "copy" /\ CopyBegins)
  PROVE  WalkInv'
  <1>1. copy'.files = <<>> /\ DOMAIN <<>> = {}  BY DEF WalkInv, FilesOK
  <1>2. FilesOK'  BY <1>1 DEF FilesOK
  <1>3. BeganOK'  BY DEF WalkInv, BeganOK, DiskOK
  <1>4. AllComing'
    <2>1. CASE stage' \in Planning  BY <2>1 DEF AllComing, WalkComing, Brought, Planning
    <2>2. CASE stage' = "copy" /\ CopyBegins
      <3> DEFINE root == Item("dir", Root)
      <3>1. todo' = <<root>>  BY <2>2 DEF CopyBegins
      <3>2. <<root>> \in Seq({root}) /\ 1 \in DOMAIN <<root>> /\ <<root>>[1] = root  OBVIOUS
      <3>3. IsList(todo)' /\ root \in Listed(todo)'  BY <3>1, <3>2 DEF IsList, Listed
      <3>4. \A p \in Path : Coming(p)'  BY <3>3 DEF Coming
      <3> QED  BY <2>2, <3>3, <3>4 DEF AllComing, WalkComing, Brought
    <2> QED  BY <2>1, <2>2
  <1> QED  BY <1>2, <1>3, <1>4 DEF WalkInv

\* Each step of the planning: pruning keeps the index it was read from.
LEMMA PlanningWalk ==
  ASSUME WalkInv, DiskOK, StageBegins \/ PlanPruning \/ PinHead \/ PinPacked \/ PinRef
  PROVE  WalkInv'
  <1>1. CopyRecord(copy)  BY DEF WalkInv
  <1>2. CASE StageBegins
    <2>1. PrunedOK'  BY <1>2 DEF StageBegins, WalkInv, PrunedOK, Planning
    <2>2. SeenNow'  BY <1>2 DEF StageBegins, SeenNow, Pair, Resolved
    <2> QED  BY <1>1, <1>2, <2>1, <2>2, PlansWalk DEF StageBegins, Planning, vars
  <1>a. ASSUME UNCHANGED <<repo, seen>>, stage \in Planning \ {"idle"}  PROVE SeenNow'
    BY <1>a DEF WalkInv, SeenNow, Planning, Pair, Resolved
  <1>3. CASE PlanPruning
    <2>0. SeenNow'  BY <1>3, <1>a DEF PlanPruning, Moves, Planning
    <2>1. CASE UNCHANGED <<pins, copy>>
      <3>1. PrunedOK'
        BY <1>3, <2>1 DEF PlanPruning, Moves, WalkInv, PrunedOK, IndexAppeared, Planning
      <3> QED  BY <1>1, <1>3, <2>0, <2>1, <3>1, PlansWalk DEF PlanPruning, Moves, Planning, vars
    <2>2. CASE ~UNCHANGED <<pins, copy>>
      <3> DEFINE w == CanPrune(IgnoreRules, repo.index)
                 d == [copy EXCEPT !.index = repo.index]
      <3>1. pins' = (IF repo.index = NoIndex THEN pins ELSE Keep("index")) /\ copy' = [copy EXCEPT !.index = repo.index, !.pruned = w]
        BY <1>3, <2>2 DEF PlanPruning
      <3>2. w \subseteq CanPrune(w, repo.index)  BY DEF CanPrune
      <3>3. copy' = [d EXCEPT !.pruned = w]  BY <3>1
      <3> HIDE DEF w
      <3>4. CopyRecord(d) /\ d.files = copy.files /\ d.index = repo.index  BY <1>1 DEF CopyRecord
      <3> HIDE DEF d
      <3>5. CopyRecord(copy') /\ copy'.files = d.files /\ copy'.index = d.index /\ copy'.pruned = w
        BY <3>3, <3>4 DEF CopyRecord
      <3>6. "index" \in pins' \/ IndexAppeared'
        <4>1. Pair(repo) \in seen'  BY <1>3 DEF PlanPruning, Moves, WalkInv, SeenNow
        <4>2. repo.index = NoIndex => IndexAppeared'  BY <4>1 DEF IndexAppeared, Pair
        <4> QED  BY <3>1, <4>2 DEF Keep
      <3>7. PrunedOK'
        BY <1>3, <3>2, <3>4, <3>5, <3>6 DEF PlanPruning, Moves, PrunedOK, CanPrune, Tracked
      <3> QED  BY <1>3, <2>0, <3>4, <3>5, <3>7, PlansWalk DEF PlanPruning, Moves, Planning, vars
    <2> QED  BY <2>1, <2>2
  <1>4. ASSUME SameWalk(copy', copy), pins \subseteq pins', stage \in Planning,
               stage # "idle", stage' \in (Planning \ {"idle"}) \/ (stage' = "copy" /\ CopyBegins),
               UNCHANGED <<disk, stamp, began, repo, seen>>
        PROVE  WalkInv'
    <2>1. PrunedOK'
      BY <1>4 DEF SameWalk, WalkInv, PrunedOK, IndexAppeared, CanPrune, Tracked, Planning
    <2>2. SeenNow'  BY <1>4, <1>a
    <2> QED  BY <1>4, <2>1, <2>2, PlansWalk DEF SameWalk
  <1>5. SameWalk(copy, copy)  BY <1>1 DEF SameWalk
  <1>6. CASE PinHead
    <2>1. SameWalk(copy', copy)  BY <1>1, <1>5, <1>6, CopySpares DEF PinHead
    <2> QED  BY <1>4, <1>6, <2>1 DEF PinHead, Moves, Keep, Planning, vars
  <1>7. CASE PinPacked
    <2>1. SameWalk(copy', copy)  BY <1>1, <1>5, <1>7, CopySpares DEF PinPacked
    <2> QED  BY <1>4, <1>7, <2>1 DEF PinPacked, Moves, Keep, Planning, vars
  <1>8. CASE PinRef
    <2>1. SameWalk(copy', copy)
      <3> DEFINE b == copy.head
                 v == [copy.loose EXCEPT ![b] = repo.loose[b]]
      <3>1. copy' = copy \/ copy' = [copy EXCEPT !.loose = v]  BY <1>8 DEF PinRef
      <3> HIDE DEF v
      <3> QED  BY <1>1, <1>5, <3>1, CopySpares
    <2> QED  BY <1>4, <1>8, <2>1 DEF PinRef, Moves, Keep, Planning, vars
  <1> QED  BY <1>2, <1>3, <1>6, <1>7, <1>8

\* An entry is taken from the list and others are put in its place.
LEMMA ListsKept ==
  ASSUME WalkInv, stage = "copy", todo # <<>>, NEW more, IsList(more), todo' = more \o Tail(todo)
  PROVE  /\ IsList(todo)' /\ Listed(more) \subseteq Listed(todo)'
         /\ Listed(todo) \subseteq {Head(todo)} \cup Listed(todo)'
  <1> DEFINE rest == Tail(todo)
             next == more \o rest
  <1>1. IsList(todo)  BY DEF WalkInv, AllComing, WalkComing, Brought
  <1>2. IsList(rest) /\ Listed(todo) \subseteq {Head(todo)} \cup Listed(rest)  BY <1>1, ListedFirst
  <1>3. todo' = next  OBVIOUS
  <1> HIDE DEF rest
  <1>4. IsList(next) /\ Listed(more) \subseteq Listed(next) /\ Listed(rest) \subseteq Listed(next)
    BY <1>2, ListedConcat
  <1> HIDE DEF next
  <1> QED  BY <1>2, <1>3, <1>4 DEF IsList, Listed

\* A step that takes neither a file nor a directory from the list.
LEMMA StepWalks ==
  ASSUME WalkInv, UNCHANGED <<disk, stamp, began, request, repo, seen>>, stage' = "copy",
         CopyRecord(copy'), copy'.files = copy.files, copy'.pruned = copy.pruned, PrunedOK',
         NEW kind, kind \notin {"dir", "file"}, Turn(kind),
         NEW more, IsList(more), todo' = more \o Tail(todo)
  PROVE  WalkInv'
  <1>1. BeganOK' /\ \A p : Untouched(p)' <=> Untouched(p)  BY Stands
  <1>2. stage = "copy" /\ todo # <<>> /\ Head(todo).kind = kind  BY DEF Turn
  <1>3. IsList(todo)' /\ Listed(todo) \subseteq {Head(todo)} \cup Listed(todo)'
    BY <1>2, ListsKept
  <1>4. FilesOK' /\ SeenNow'
    BY <1>1, <1>2 DEF WalkInv, FilesOK, Projected, SeenNow, Pair, Resolved, Planning
  <1>5. ASSUME NEW p \in Path, Untouched(p)', Wanted(p)'  PROVE Coming(p)'
    <2>1. Coming(p)  BY <1>1, <1>2, <1>5 DEF WalkInv, AllComing, WalkComing, Brought, Wanted, Under
    <2>2. CASE p \in DOMAIN copy.files  BY <2>2 DEF Coming
    <2>3. CASE Item("file", p) \in Listed(todo)
      <3>1. Item("file", p) # Head(todo)  BY <1>2 DEF Item
      <3> QED  BY <1>3, <2>3, <3>1 DEF Coming
    <2>4. CASE \E q \in Ancestors[p] \cup {Root} : Item("dir", q) \in Listed(todo)
      <3>1. PICK q \in Ancestors[p] \cup {Root} : Item("dir", q) \in Listed(todo)  BY <2>4
      <3>2. Item("dir", q) # Head(todo)  BY <1>2 DEF Item
      <3>3. Item("dir", q) \in Listed(todo)'  BY <1>3, <3>1, <3>2
      <3> QED  BY <3>1, <3>3 DEF Coming
    <2> QED  BY <2>1, <2>2, <2>3, <2>4 DEF Coming
  <1>6. AllComing'  BY <1>3, <1>5 DEF AllComing, WalkComing, Brought
  <1> QED  BY <1>1, <1>4, <1>6 DEF WalkInv

\* Lists that are written out.
LEMMA Literals ==
  /\ IsList(<<>>)
  /\ \A a : IsList(<<a>>)
  /\ \A a, b : IsList(<<a, b>>)
  /\ \A a, b, c : IsList(<<a, b, c>>)
  <1>1. <<>> \in Seq({})  OBVIOUS
  <1>2. ASSUME NEW a  PROVE <<a>> \in Seq({a})  OBVIOUS
  <1>3. ASSUME NEW a, NEW b  PROVE <<a, b>> \in Seq({a, b})  OBVIOUS
  <1>4. ASSUME NEW a, NEW b, NEW c  PROVE <<a, b, c>> \in Seq({a, b, c})  OBVIOUS
  <1> QED  BY <1>1, <1>2, <1>3, <1>4 DEF IsList

\* The steps over .git.
LEMMA MetadataWalks ==
  ASSUME WalkInv,
         ListGit \/ CopyHead \/ CopyConfig \/ CopyIndex \/ CopyPacked \/ ListRefs \/ CopyRef
         \/ CopyPack \/ CopyLoose
  PROVE  WalkInv'
  <1>1. CopyRecord(copy) /\ PrunedOK  BY DEF WalkInv
  <1>2. ASSUME NEW kind, kind \notin {"dir", "file"}, Turn(kind), NEW more, IsList(more), Then(more),
               SameWalk(copy', copy), pins' = pins
        PROVE  WalkInv'
    <2>1. stage = "copy" /\ stage' = "copy" /\ UNCHANGED <<disk, stamp, began, request, repo, seen>>
          /\ todo' = more \o Tail(todo)
      BY <1>2 DEF Turn, Then, Moves, vars
    <2>2. PrunedOK'  BY <1>1, <1>2, <2>1 DEF SameWalk, PrunedOK, IndexAppeared, CanPrune, Tracked
    <2> QED  BY <1>2, <2>1, <2>2, StepWalks DEF SameWalk
  <1>3. SameWalk(copy, copy)  BY <1>1 DEF SameWalk
  <1>4. CASE ListGit
    <2>1. CASE GitFails  BY <2>1, GitFailsWalk
    <2>2. CASE ~GitFails
      <3> DEFINE first == <<Item("HEAD", Root), Item("config", Root)>>
                 index == IF repo.index # NoIndex THEN <<Item("index", Root)>> ELSE <<>>
                 packed == IF HasPackedRefs(repo) THEN <<Item("packed-refs", Root)>> ELSE <<>>
                 last == <<Item("refs", Root), Item("pack", Root), Item("loose", Root)>>
      <3>1. IsList(first) /\ IsList(index) /\ IsList(packed) /\ IsList(last)  BY Literals
      <3>2. Turn("git") /\ Then(first \o index \o packed \o last) /\ UNCHANGED <<pins, copy>>
        BY <1>4, <2>2 DEF ListGit
      <3> HIDE DEF first, index, packed, last
      <3>a. IsList(first \o index)  BY <3>1, ListedConcat
      <3>3. IsList((first \o index) \o packed)  BY <3>1, <3>a, ListedConcat
      <3>4. IsList(((first \o index) \o packed) \o last)  BY <3>1, <3>3, ListedConcat
      <3> QED  BY <1>2, <1>3, <3>2, <3>4
    <2> QED  BY <2>1, <2>2
  <1>5. CASE CopyHead
    <2>1. SameWalk(copy', copy)  BY <1>1, <1>3, <1>5, CopySpares DEF CopyHead
    <2> QED  BY <1>2, <1>5, <2>1, Literals DEF CopyHead
  <1>6. CASE CopyConfig  BY <1>2, <1>3, <1>6, Literals, GitFailsWalk DEF CopyConfig
  <1>7. CASE CopyIndex
    <2>1. Turn("index") /\ Then(<<>>) /\ pins' = Keep("index")  BY <1>7 DEF CopyIndex
    <2>2. /\ stage = "copy" /\ stage' = "copy" /\ UNCHANGED <<disk, stamp, began, request, repo, seen>>
          /\ todo' = <<>> \o Tail(todo) /\ IsList(<<>>)
      BY <2>1, Literals DEF Turn, Then, Moves, vars
    <2>3. CASE "index" \in pins
      <3>1. copy' = copy  BY <1>7, <2>3 DEF CopyIndex
      <3>2. PrunedOK'
        BY <1>1, <2>1, <2>2, <3>1 DEF PrunedOK, IndexAppeared, Keep, CanPrune, Tracked
      <3> QED  BY <1>1, <2>1, <2>2, <3>1, <3>2, StepWalks
    <2>4. CASE "index" \notin pins
      <3>1. copy' = [copy EXCEPT !.index = repo.index]  BY <1>7, <2>4 DEF CopyIndex
      <3>2. CopyRecord(copy') /\ copy'.files = copy.files /\ copy'.pruned = copy.pruned
        BY <1>1, <3>1 DEF CopyRecord
      <3>3. copy.pruned = {} \/ IndexAppeared  BY <1>1, <2>2, <2>4 DEF PrunedOK
      <3>4. PrunedOK'  BY <2>2, <3>2, <3>3 DEF PrunedOK, IndexAppeared
      <3> QED  BY <2>1, <2>2, <3>2, <3>4, StepWalks
    <2> QED  BY <2>3, <2>4
  <1>8. CASE CopyPacked
    <2>1. SameWalk(copy', copy)  BY <1>1, <1>3, <1>8, CopySpares DEF CopyPacked
    <2> QED  BY <1>2, <1>8, <2>1, Literals DEF CopyPacked
  <1>9. CASE ListRefs
    <2>1. CASE GitFails  BY <2>1, GitFailsWalk
    <2>2. CASE ~GitFails
      <3> DEFINE refs == {b \in Branch : repo.loose[b] # NoCommit /\ (FullRefs \/ b = copy.head)}
      <3>1. Turn("refs") /\ Then(Items("branch", refs)) /\ UNCHANGED <<pins, copy>>
        BY <1>9, <2>2 DEF ListRefs
      <3>2. IsFiniteSet(refs)  BY GitAssumption, FS_Subset
      <3> HIDE DEF refs
      <3>3. IsList(Items("branch", refs))  BY <3>2, ItemsAll
      <3> QED  BY <1>2, <1>3, <3>1, <3>3
    <2> QED  BY <2>1, <2>2
  <1>10. CASE CopyRef
    <2>1. CASE GitFails  BY <2>1, GitFailsWalk
    <2>2. CASE ~GitFails
      <3> DEFINE b == Head(todo).of
                 v == [copy.loose EXCEPT ![b] = repo.loose[b]]
      <3>1. copy' = copy \/ copy' = [copy EXCEPT !.loose = v]  BY <1>10, <2>2 DEF CopyRef
      <3> HIDE DEF v
      <3>2. SameWalk(copy', copy)  BY <1>1, <1>3, <3>1, CopySpares
      <3> QED  BY <1>2, <1>10, <2>2, <3>2, Literals DEF CopyRef
    <2> QED  BY <2>1, <2>2
  <1>11. CASE CopyPack
    <2> DEFINE v == copy.objects \cup repo.pack
    <2>1. copy' = [copy EXCEPT !.objects = v]  BY <1>11 DEF CopyPack
    <2> HIDE DEF v
    <2>2. SameWalk(copy', copy)  BY <1>1, <2>1, CopySpares
    <2> QED  BY <1>2, <1>11, <2>2, Literals DEF CopyPack
  <1>12. CASE CopyLoose
    <2> DEFINE v == copy.objects \cup repo.unpacked
    <2>1. copy' = [copy EXCEPT !.objects = v]  BY <1>12 DEF CopyLoose
    <2> HIDE DEF v
    <2>2. SameWalk(copy', copy)  BY <1>1, <2>1, CopySpares
    <2> QED  BY <1>2, <1>12, <2>2, Literals DEF CopyLoose
  <1> QED  BY <1>4, <1>5, <1>6, <1>7, <1>8, <1>9, <1>10, <1>11, <1>12

\* A file is copied.
LEMMA FileWalks ==
  ASSUME WalkInv, CopyFile
  PROVE  WalkInv'
  <1>1. CASE GitFails  BY <1>1, GitFailsWalk
  <1>2. CASE ~GitFails
    <2> DEFINE f == Head(todo).of
               w == With(copy.files, f, Projected(f))
    <2>1. /\ stage = "copy" /\ todo # <<>> /\ Head(todo).kind = "file" /\ IsFile(f)
          /\ stage' = "copy" /\ UNCHANGED <<disk, stamp, began, request, repo, seen, pins>>
          /\ todo' = <<>> \o Tail(todo)
          /\ copy' = [copy EXCEPT !.files = w]
      BY <1>2 DEF CopyFile, Turn, Then, Moves, vars
    <2>2. /\ DOMAIN w = DOMAIN copy.files \cup {f}
          /\ \A p \in DOMAIN w : w[p] = IF p = f THEN Projected(f) ELSE copy.files[p]
      BY DEF With
    <2>3. CopyRecord(copy) /\ PrunedOK  BY DEF WalkInv
    <2> HIDE DEF w
    <2>4. CopyRecord(copy') /\ copy'.files = w /\ copy'.pruned = copy.pruned /\ copy'.index = copy.index
      BY <2>1, <2>3 DEF CopyRecord
    <2>5. BeganOK' /\ \A p : Untouched(p)' <=> Untouched(p)  BY <2>1, Stands
    <2>6. PrunedOK' /\ SeenNow'
      BY <2>1, <2>3, <2>4
      DEF WalkInv, PrunedOK, IndexAppeared, SeenNow, Pair, Resolved, CanPrune, Tracked
    <2>7. FilesOK'
      <3>1. ASSUME NEW p \in Path, Untouched(p)', p \in DOMAIN w  PROVE w[p] = Projected(p)
        BY <2>2, <2>5, <3>1 DEF WalkInv, FilesOK
      <3>2. \A p : Projected(p)' = Projected(p)  BY <2>1 DEF Projected
      <3> QED  BY <2>1, <2>4, <3>1, <3>2 DEF FilesOK, Planning
    <2>8. IsList(todo)' /\ Listed(todo) \subseteq {Head(todo)} \cup Listed(todo)'
      BY <2>1, Literals, ListsKept
    <2>9. ASSUME NEW p \in Path, Untouched(p)', Wanted(p)'  PROVE Coming(p)'
      <3>1. Coming(p)  BY <2>1, <2>4, <2>5, <2>9 DEF WalkInv, AllComing, WalkComing, Brought, Wanted, Under
      <3>2. CASE p \in DOMAIN copy.files  BY <2>2, <2>4, <3>2 DEF Coming
      <3>3. CASE Item("file", p) \in Listed(todo)
        <4>1. Item("file", p) \in Listed(todo)' \/ p = f  BY <2>8, <3>3 DEF Item
        <4> QED  BY <2>2, <2>4, <4>1 DEF Coming
      <3>4. CASE \E q \in Ancestors[p] \cup {Root} : Item("dir", q) \in Listed(todo)
        <4>1. PICK q \in Ancestors[p] \cup {Root} : Item("dir", q) \in Listed(todo)  BY <3>4
        <4>2. Item("dir", q) # Head(todo)  BY <2>1 DEF Item
        <4>3. Item("dir", q) \in Listed(todo)'  BY <2>8, <4>1, <4>2
        <4> QED  BY <4>1, <4>3 DEF Coming
      <3> QED  BY <3>1, <3>2, <3>3, <3>4 DEF Coming
    <2> QED  BY <2>1, <2>4, <2>5, <2>6, <2>7, <2>8, <2>9 DEF WalkInv, AllComing, WalkComing, Brought
  <1> QED  BY <1>1, <1>2

\* A directory is listed: what it held of a wanted file, the file or the directory above it, is
\* on the list now.  The directory above is there, for the file is, and it is not left out.
LEMMA DirectoryWalks ==
  ASSUME WalkInv, DiskOK, ListDirectory
  PROVE  WalkInv'
  <1>1. CASE GitFails  BY <1>1, GitFailsWalk
  <1>2. CASE ~GitFails
    <2> DEFINE d == Head(todo).of
               within == Inside(d) \ request.protected
               fs == {p \in within : IsFile(p)}
               ds == {p \in within : IsDir(p)} \ copy.pruned
               fl == Items("file", fs)
               dl == Items("dir", ds)
               gl == IF d = Root THEN <<Item("git", Root)>> ELSE <<>>
    <2>1. /\ stage = "copy" /\ todo # <<>> /\ Head(todo).kind = "dir"
          /\ stage' = "copy" /\ UNCHANGED <<disk, stamp, began, request, repo, seen, pins, copy>>
          /\ todo' = (fl \o dl \o gl) \o Tail(todo)
      BY <1>2 DEF ListDirectory, Turn, Then, Moves, vars
    <2>2. IsFiniteSet(fs) /\ IsFiniteSet(ds)  BY PathAssumption, FS_Subset DEF Inside
    <2>3. IsList(gl)  BY Literals
    <2>4. /\ \A p \in fs : Item("file", p) \in Entries("file", fs)
          /\ \A p \in ds : Item("dir", p) \in Entries("dir", ds)
      BY DEF Entries
    <2>5. \A p \in Path : Parent[p] = d /\ p \notin request.protected =>
            (IsFile(p) => p \in fs) /\ (IsDir(p) /\ p \notin copy.pruned => p \in ds)
      BY DEF Inside
    <2> HIDE DEF fs, ds
    <2>6. /\ IsList(fl) /\ \A p \in fs : Item("file", p) \in Listed(fl)
          /\ IsList(dl) /\ \A p \in ds : Item("dir", p) \in Listed(dl)
      BY <2>2, <2>4, ItemsAll
    <2> HIDE DEF fl, dl, gl
    <2>7. IsList(fl \o dl) /\ Listed(fl) \subseteq Listed(fl \o dl) /\ Listed(dl) \subseteq Listed(fl \o dl)
      BY <2>6, ListedConcat
    <2> DEFINE more == fl \o dl \o gl
    <2>8. IsList(more) /\ Listed(fl \o dl) \subseteq Listed(more)  BY <2>3, <2>7, ListedConcat
    <2>9. todo' = more \o Tail(todo)  BY <2>1
    <2>10. Listed(fl) \subseteq Listed(more) /\ Listed(dl) \subseteq Listed(more)  BY <2>7, <2>8
    <2> HIDE DEF more
    <2>11. /\ IsList(todo)' /\ Listed(more) \subseteq Listed(todo)'
           /\ Listed(todo) \subseteq {Head(todo)} \cup Listed(todo)'
      BY <2>1, <2>8, <2>9, ListsKept
    <2>12. BeganOK' /\ \A p : Untouched(p)' <=> Untouched(p)  BY <2>1, Stands
    <2>13. PrunedOK' /\ FilesOK' /\ SeenNow'
      BY <2>1, <2>12
      DEF WalkInv, PrunedOK, IndexAppeared, FilesOK, Projected, SeenNow, Pair, Resolved, CanPrune,
        Tracked, Planning
    <2>14. ASSUME NEW p \in Path, Untouched(p), Wanted(p)  PROVE Coming(p)'
      <3>1. Coming(p)  BY <2>1, <2>14 DEF WalkInv, AllComing, WalkComing, Brought
      <3>2. CASE p \in DOMAIN copy.files  BY <2>1, <3>2 DEF Coming
      <3>3. CASE Item("file", p) \in Listed(todo)
        <4>1. Item("file", p) # Head(todo)  BY <2>1 DEF Item
        <4> QED  BY <2>11, <3>3, <4>1 DEF Coming
      <3>4. CASE \E q \in Ancestors[p] \cup {Root} : Item("dir", q) \in Listed(todo)
        <4>1. PICK q \in Ancestors[p] \cup {Root} : Item("dir", q) \in Listed(todo)  BY <3>4
        <4>2. CASE Item("dir", q) \in Listed(todo)'  BY <4>1, <4>2 DEF Coming
        <4>3. CASE Item("dir", q) \notin Listed(todo)'
          <5>1. d = q  BY <2>11, <4>1, <4>3 DEF Item
          <5>2. PICK r \in Ancestors[p] \cup {p} : Parent[r] = d  BY <4>1, <5>1, AncestorsChain
          <5>3. IsFile(p) /\ ~IsAbsent(p)  BY <2>14 DEF Untouched, IsFile, IsAbsent
          <5>4. r \notin copy.pruned /\ r \notin request.protected  BY <2>14, <5>2 DEF Wanted, Under
          <5>5. CASE r = p
            <6>1. Item("file", p) \in Listed(todo)'
              BY <2>5, <2>6, <2>10, <2>11, <5>2, <5>3, <5>4, <5>5
            <6> QED  BY <6>1 DEF Coming
          <5>6. CASE r \in Ancestors[p]
            <6>1. r \in Path /\ IsDir(r)  BY <5>3, <5>6, AncestorsClosed, AncestorsAreDirectories
            <6>2. Item("dir", r) \in Listed(todo)'  BY <2>5, <2>6, <2>10, <2>11, <5>2, <5>4, <6>1
            <6> QED  BY <5>6, <6>2 DEF Coming
          <5> QED  BY <5>5, <5>6
        <4> QED  BY <4>2, <4>3
      <3> QED  BY <3>1, <3>2, <3>3, <3>4 DEF Coming
    <2>15. AllComing'  BY <2>1, <2>11, <2>12, <2>14 DEF AllComing, WalkComing, Brought, Wanted, Under
    <2>16. CopyRecord(copy')  BY <2>1 DEF WalkInv
    <2> QED  BY <2>12, <2>13, <2>15, <2>16 DEF WalkInv
  <1> QED  BY <1>1, <1>2

\* The list is empty: what is tracked is wanted, and what is wanted and not on a list is copied.
LEMMA CompleteWalks ==
  ASSUME WalkInv, Complete
  PROVE  WalkInv'
  <1>1. CASE GitFails  BY <1>1, GitFailsWalk
  <1>2. CASE ~GitFails
    <2>1. stage = "copy" /\ todo = <<>> /\ stage' = "run"
          /\ UNCHANGED <<disk, stamp, began, request, repo, seen, copy>>
      BY <1>2 DEF Complete, Moves, vars
    <2>2. BeganOK' /\ \A p : Untouched(p)' <=> Untouched(p)  BY <2>1, Stands
    <2>3. PrunedOK' /\ FilesOK' /\ SeenNow' /\ CopyRecord(copy')
      BY <2>1, <2>2 DEF WalkInv, PrunedOK, FilesOK, Projected, SeenNow, Pair, Resolved, Planning
    <2>4. Listed(todo) = {}  BY <2>1 DEF Listed
    <2>5. ASSUME NEW p \in Tracked(copy.index), Untouched(p), ~Excused(p)
          PROVE  p \in DOMAIN copy.files
      <3>1. p \in Path  BY DEF Tracked
      <3>2. Wanted(p)
        <4>1. CASE copy.pruned = {} \/ IndexAppeared  BY <2>5, <4>1 DEF Wanted, Excused, Under
        <4>2. CASE copy.pruned \subseteq CanPrune(copy.pruned, copy.index)
          <5>1. ASSUME NEW q \in copy.pruned, q \in Ancestors[p] \cup {p}  PROVE FALSE
            <6>1. Tracked(copy.index) \cap (Below(q) \cup {q}) = {}  BY <4>2, <5>1 DEF CanPrune
            <6>2. p \in Below(q) \cup {q}  BY <3>1, <5>1 DEF Below
            <6> QED  BY <2>5, <6>1, <6>2
          <5> QED  BY <2>5, <5>1 DEF Wanted, Excused, Under
        <4> QED  BY <2>1, <4>1, <4>2 DEF WalkInv, PrunedOK
      <3>3. Coming(p)  BY <2>1, <2>5, <3>1, <3>2 DEF WalkInv, AllComing, WalkComing, Brought
      <3> QED  BY <2>4, <3>3 DEF Coming
    <2>6. AllComing'
      <3>1. \A p : Excused(p)' <=> Excused(p)  BY <2>1 DEF Excused, IndexAppeared, Under
      <3> QED  BY <2>1, <2>2, <2>5, <3>1 DEF AllComing, WalkComing, Brought
    <2> QED  BY <2>2, <2>3, <2>6 DEF WalkInv
  <1> QED  BY <1>1, <1>2

\* Each step of the staging.
LEMMA StagingWalks ==
  ASSUME WalkInv, DiskOK, Staging
  PROVE  WalkInv'
  <1>1. CASE RunCommand
    <2>1. stage = "run" /\ stage' = "run" /\ UNCHANGED <<disk, stamp, began, request, repo, seen, copy>>
      BY <1>1 DEF RunCommand, Moves, vars
    <2>2. BeganOK' /\ \A p : Untouched(p)' <=> Untouched(p)  BY <2>1, Stands
    <2>3. \A p : (Excused(p)' <=> Excused(p)) /\ Projected(p)' = Projected(p)
      BY <2>1 DEF Excused, IndexAppeared, Under, Projected
    <2>4. SeenNow'  BY <2>1 DEF WalkInv, SeenNow, Pair, Resolved
    <2> QED
      BY <2>1, <2>2, <2>3, <2>4
      DEF WalkInv, PrunedOK, FilesOK, AllComing, WalkComing, Brought, Planning
  <1>2. CASE CommandFails \/ BatchEnds  BY <1>2, EndGitWalk DEF CommandFails, BatchEnds
  <1>3. CASE ContainmentFails  BY <1>3, GitFailsWalk DEF ContainmentFails
  <1> QED
    BY <1>1, <1>2, <1>3, PlanningWalk, MetadataWalks, FileWalks, DirectoryWalks, CompleteWalks
    DEF Staging

\* The user's Git and the rest of the server leave the copy alone.
LEMMA OthersWalk ==
  ASSUME WalkInv, Renews, UserOfGit \/ Elsewhere \/ UNCHANGED allVars
  PROVE  WalkInv'
  <1>1. CASE UNCHANGED <<stage, todo, pins, copy, began, request>> /\ seen \subseteq seen' /\ SeenNow'
    <2>1. BeganOK' /\ \A p \in Path : Untouched(p)' => Untouched(p) /\ disk'[p] = disk[p]
      BY <1>1, UntouchedBefore DEF WalkInv
    <2>2. CopyRecord(copy') /\ PrunedOK'
      BY <1>1 DEF WalkInv, PrunedOK, IndexAppeared, CanPrune, Tracked
    <2>3. FilesOK'  BY <1>1, <2>1 DEF WalkInv, FilesOK, Projected
    <2>4. AllComing'
      <3>0. \A p : Excused(p) => Excused(p)'  BY <1>1 DEF Excused, IndexAppeared, Under
      <3>1. Tracked(copy.index) \subseteq Path  BY DEF Tracked
      <3>2. WalkComing'
        BY <1>1, <2>1 DEF WalkInv, AllComing, WalkComing, Wanted, Under, Coming, Listed, IsList
      <3>3. stage' = "run" =>
              \A p \in Tracked(copy.index) : Untouched(p)' => p \in DOMAIN copy.files \/ Excused(p)'
        BY <1>1, <2>1, <3>0, <3>1 DEF WalkInv, AllComing, Brought
      <3>4. ASSUME stage' = "run", NEW p \in Tracked(copy'.index), Untouched(p)'
            PROVE  p \in DOMAIN copy'.files \/ Excused(p)'
        BY <1>1, <3>3, <3>4
      <3>5. Brought'  BY <3>4 DEF Brought
      <3> QED  BY <3>2, <3>5 DEF AllComing
    <2> QED  BY <1>1, <2>1, <2>2, <2>3, <2>4 DEF WalkInv
  <1>2. CASE stage' \in {"failed", "ended"} /\ UNCHANGED <<copy, began, request>>
    <2>1. BeganOK' /\ \A p \in Path : Untouched(p)' => Untouched(p) /\ disk'[p] = disk[p]
      BY <1>2, UntouchedBefore DEF WalkInv
    <2>2. CopyRecord(copy') /\ PrunedOK' /\ AllComing' /\ SeenNow'
      BY <1>2 DEF WalkInv, PrunedOK, AllComing, WalkComing, Brought, SeenNow, Planning
    <2>3. FilesOK'  BY <1>2, <2>1 DEF WalkInv, FilesOK, Projected, Planning
    <2> QED  BY <2>1, <2>2, <2>3 DEF WalkInv
  <1>3. CASE UserOfGit
    <2>1. seen' = seen \cup {Pair(repo')} /\ UNCHANGED <<stage, todo, pins, copy, began, request>>
      BY <1>3 DEF UserOfGit, UserIndexes, UserSwitches, UserPrunesRef, UserCommits, UserPacksRefs,
        UserRepacks, UserGit
    <2>2. SeenNow'  BY <2>1 DEF SeenNow, Pair, Resolved
    <2> QED  BY <1>1, <2>1, <2>2
  <1>4. ASSUME UNCHANGED gitVars  PROVE WalkInv'
    <2>1. SeenNow'  BY <1>4 DEF gitVars, WalkInv, SeenNow, Pair, Resolved
    <2> QED  BY <1>1, <1>4, <2>1 DEF gitVars
  <1>5. CASE Elsewhere
    <2>1. CASE UNCHANGED gitVars  BY <1>4, <2>1
    <2>2. CASE ~UNCHANGED gitVars  BY <1>2, <1>5, <2>2 DEF Elsewhere
    <2> QED  BY <2>1, <2>2
  <1> QED  BY <1>3, <1>4, <1>5 DEF allVars

\* The invariant of the walk holds at first.
LEMMA InitWalk ==
  ASSUME GitInit  PROVE WalkInv
  <1>1. copy = Nothing /\ began = Initial /\ stamp = 1 + Cardinality(Path) /\ stage \in {"idle", "ended"}
    BY DEF GitInit, Init
  <1>2. CopyRecord(copy) /\ copy.files = <<>> /\ copy.pruned = {} /\ DOMAIN <<>> = {}
    BY <1>1 DEF Nothing, CopyRecord
  <1>3. BeganOK
    <2>1. Cardinality(Path) \in Nat  BY PathAssumption, FS_CardinalityType
    <2> QED  BY <1>1, <2>1, InitialAssumption DEF BeganOK
  <1> QED  BY <1>1, <1>2, <1>3 DEF WalkInv, PrunedOK, FilesOK, AllComing, WalkComing, Brought, SeenNow

\* Leaving out ignored directories never makes a tracked file look deleted (_can_prune_root_directory
\* and the walk of stage_git_repository): one that nobody touched is in the copy, as it is on the disk,
\* unless no tool may read it, or its directory was left out before there was an index.
THEOREM GitCopiesTracked == GitSpec => []TrackedIsCopied
  <1>1. GitInit => PlanInv /\ DiskOK /\ WalkInv  BY InitPlan, InitWalk DEF GitInit
  <1>2. ASSUME PlanInv, DiskOK, WalkInv, [GitNext]_allVars  PROVE (PlanInv /\ DiskOK /\ WalkInv)'
    <2>1. PlanInv' /\ Renews /\ DiskOK'  BY <1>2, GitKeepsCalls
    <2>2. WalkInv'  BY <1>2, <2>1, StagingWalks, OthersWalk DEF GitNext
    <2> QED  BY <2>1, <2>2
  <1>3. WalkInv => TrackedIsCopied
    <2> SUFFICES ASSUME WalkInv, stage = "run", NEW p \in Tracked(copy.index),
                        began[p].kind = "file" /\ disk[p] = began[p], ~Excused(p)
                 PROVE  p \in DOMAIN copy.files /\ copy.files[p] = Projected(p)
      BY DEF TrackedIsCopied, Excused
    <2>1. p \in Path /\ Untouched(p)  BY DEF Tracked, Untouched
    <2> QED  BY <2>1 DEF WalkInv, AllComing, WalkComing, Brought, FilesOK
  <1>4. PlanInv /\ DiskOK /\ WalkInv /\ [GitNext]_allVars => (PlanInv /\ DiskOK /\ WalkInv)'
    BY <1>2
  <1> QED  BY <1>1, <1>3, <1>4, PTL DEF GitSpec
=============================================================================
