-------------------------- MODULE FilesystemProofs --------------------------
(***************************************************************************)
(* Proofs about PathResolution and Filesystem for all finite sets of       *)
(* threads and descriptor tables, any number of descriptors, files, mount  *)
(* points and paths.                                                       *)
(***************************************************************************)
EXTENDS Filesystem, SequenceTheorems, FiniteSetTheorems, WellFoundedInduction,
        TLAPS

-----------------------------------------------------------------------------
(* Paths *)

Dirs == Seq(STRING)

\* A nonempty set of natural numbers has a least element.
LEMMA LeastOf ==
    ASSUME NEW T \in SUBSET Nat, T # {}
    PROVE  \E x \in T : \A y \in T : x <= y
<1> DEFINE R == OpToRel(<, Nat)
<1>1. IsWellFoundedOn(R, Nat)
    BY NatLessThanWellFounded
<1>2. R = {ss \in Nat \X Nat : ss[1] < ss[2]}
    BY DEF OpToRel
<1> HIDE DEF R
<1>3. PICK x \in T : \A y \in T : ~(<<y, x>> \in R)
    BY <1>1, WFMin
<1>4. \A y \in T : x <= y
    <2> TAKE y \in T
    <2>1. <<y, x>> \in Nat \X Nat /\ <<y, x>>[1] = y /\ <<y, x>>[2] = x
        OBVIOUS
    <2>2. ~(y < x)
        BY <1>2, <1>3, <2>1
    <2> QED BY <2>2
<1> QED BY <1>4

\* The first n components of a path.
LEMMA PrefixIs ==
    ASSUME NEW dir \in Dirs, NEW n \in 0 .. Len(dir)
    PROVE  /\ Prefix(dir, n) \in Dirs /\ Len(Prefix(dir, n)) = n
           /\ \A i \in 1 .. n : Prefix(dir, n)[i] = dir[i]
<1>1. Len(dir) \in Nat /\ \A i \in 1 .. n : dir[i] \in STRING
    BY LenProperties DEF Dirs
<1>2. /\ SubSeq(dir, 1, n) \in Seq(STRING)
      /\ Len(SubSeq(dir, 1, n)) = IF 1 <= n THEN n - 1 + 1 ELSE 0
      /\ \A i \in 1 .. n - 1 + 1 : SubSeq(dir, 1, n)[i] = dir[1 + i - 1]
    BY <1>1, SubSeqProperties
<1> QED BY <1>1, <1>2 DEF Prefix, Dirs

\* Paths with the same components are the same.
LEMMA SameDir ==
    ASSUME NEW a \in Dirs, NEW b \in Dirs, Len(a) = Len(b),
           \A i \in 1 .. Len(a) : a[i] = b[i]
    PROVE  a = b
BY SeqEqual DEF Dirs

\* All of a path is a prefix of it.
LEMMA WholePrefix ==
    ASSUME NEW dir \in Dirs
    PROVE  Len(dir) \in Nat /\ Prefix(dir, Len(dir)) = dir
<1>1. Len(dir) \in Nat
    BY LenProperties DEF Dirs
<1> QED BY <1>1, PrefixIs, SameDir

\* What two paths with a common beginning have as prefixes.
LEMMA CommonPrefix ==
    ASSUME NEW a \in Dirs, NEW b \in Dirs, NEW n \in 0 .. Len(a), n <= Len(b),
           \A i \in 1 .. n : a[i] = b[i]
    PROVE  Prefix(a, n) = Prefix(b, n)
<1>1. Len(a) \in Nat /\ Len(b) \in Nat
    BY LenProperties DEF Dirs
<1>2. n \in 0 .. Len(b)
    BY <1>1
<1>3. /\ Prefix(a, n) \in Dirs /\ Len(Prefix(a, n)) = n
      /\ \A i \in 1 .. n : Prefix(a, n)[i] = a[i]
    BY PrefixIs
<1>4. /\ Prefix(b, n) \in Dirs /\ Len(Prefix(b, n)) = n
      /\ \A i \in 1 .. n : Prefix(b, n)[i] = b[i]
    BY <1>2, PrefixIs
<1> QED BY <1>3, <1>4, SameDir

\* The directory above one.
LEMMA UpIs ==
    ASSUME NEW dir \in Dirs, dir # <<>>
    PROVE  /\ Up(dir) \in Dirs /\ Len(dir) \in Nat \ {0} /\ Len(Up(dir)) = Len(dir) - 1
           /\ \A n \in 0 .. Len(dir) - 1 : Prefix(Up(dir), n) = Prefix(dir, n)
<1>1. Len(dir) \in Nat /\ Len(dir) # 0
    BY LenProperties, EmptySeq DEF Dirs
<1>2. Len(dir) - 1 \in 0 .. Len(dir)
    BY <1>1
<1>3. /\ Up(dir) \in Dirs /\ Len(Up(dir)) = Len(dir) - 1
      /\ \A i \in 1 .. Len(dir) - 1 : Up(dir)[i] = dir[i]
    BY <1>2, PrefixIs DEF Up
<1>4. ASSUME NEW n \in 0 .. Len(dir) - 1 PROVE Prefix(Up(dir), n) = Prefix(dir, n)
    <2>1. n \in 0 .. Len(Up(dir)) /\ n <= Len(dir) /\ \A i \in 1 .. n : Up(dir)[i] = dir[i]
        BY <1>1, <1>3
    <2> QED BY <1>3, <2>1, CommonPrefix
<1> QED BY <1>1, <1>3, <1>4

\* m is the innermost mount point that dir is at or below.
IsInnermost(mounts, dir, m) ==
    /\ m \in mounts
    /\ \E n \in 0 .. Len(dir) : m = Prefix(dir, n)
    /\ \A n \in Len(m) + 1 .. Len(dir) : Prefix(dir, n) \notin mounts

\* There is one innermost mount point only.
LEMMA InnermostUnique ==
    ASSUME NEW mounts, NEW dir \in Dirs, NEW m, IsInnermost(mounts, dir, m)
    PROVE  m = Innermost(mounts, dir)
<1>1. Innermost(mounts, dir) = CHOOSE x \in mounts : IsInnermost(mounts, dir, x)
    BY DEF Innermost, IsInnermost
<1>2. IsInnermost(mounts, dir, Innermost(mounts, dir))
    BY <1>1 DEF IsInnermost
<1>3. Len(dir) \in Nat
    BY LenProperties DEF Dirs
<1>4. PICK k \in 0 .. Len(dir) : m = Prefix(dir, k)
    BY DEF IsInnermost
<1>5. PICK n \in 0 .. Len(dir) : Innermost(mounts, dir) = Prefix(dir, n)
    BY <1>2 DEF IsInnermost
<1>6. Len(Prefix(dir, k)) = k /\ Len(Prefix(dir, n)) = n
    BY PrefixIs
<1>7. ~(k < n)
    BY <1>2, <1>3, <1>4, <1>5, <1>6 DEF IsInnermost
<1>8. ~(n < k)
    BY <1>2, <1>3, <1>4, <1>5, <1>6 DEF IsInnermost
<1>9. k = n
    BY <1>3, <1>7, <1>8
<1> QED BY <1>4, <1>5, <1>9

\* States of a resolution that is under way.
Resolutions == [result : {0}, path : Dirs, fs : Dirs, depthIntoFs : Int]

\* The filesystem is the innermost one, and the depth that of the directory
\* in it.
Tracks(mounts, r) ==
    /\ r \in Resolutions
    /\ IsInnermost(mounts, r.path, r.fs)
    /\ r.depthIntoFs = 1 + Len(r.path) - Len(r.fs)

\* A resolution starts in the root.
LEMMA StartTracks ==
    ASSUME NEW mounts, <<>> \in mounts
    PROVE  Tracks(mounts, Start)
<1>1. <<>> \in Dirs /\ Len(<<>>) = 0
    BY EmptySeq DEF Dirs
<1>2. Prefix(<<>>, 0) = <<>>
    BY <1>1, WholePrefix
<1>3. IsInnermost(mounts, <<>>, <<>>)
    BY <1>1, <1>2 DEF IsInnermost
<1> QED BY <1>1, <1>3 DEF Start, Tracks, Resolutions

\* recursiveFindFs() finds the innermost mount point of a prefix.
LEMMA FindFs ==
    ASSUME NEW mounts, <<>> \in mounts, NEW r \in Resolutions, NEW from \in 0 .. Len(r.path)
    PROVE  LET q == recursiveFindFs(mounts, r, from) IN
           /\ q \in Resolutions /\ q.result = 0 /\ q.path = r.path
           /\ IsInnermost(mounts, Prefix(r.path, from), q.fs)
           /\ q.depthIntoFs = 1 + from - Len(q.fs)
<1> DEFINE P(n) == /\ n = 0 \/ Prefix(r.path, n) \in mounts
                   /\ \A k \in n + 1 .. from : Prefix(r.path, k) \notin mounts
           found == CHOOSE n \in 0 .. from : P(n)
<1>1. r.path \in Dirs /\ r.result = 0 /\ Len(r.path) \in Nat /\ from \in Nat /\ from <= Len(r.path)
    BY LenProperties DEF Resolutions, Dirs
<1>2. \E n \in 0 .. from : P(n)
    <2>1. PICK T : T = {k \in Nat : k <= from /\ (from - k = 0 \/ Prefix(r.path, from - k) \in mounts)}
        OBVIOUS
    <2>2. from \in T /\ T \subseteq Nat
        BY <1>1, <2>1
    <2>3. PICK x \in T : \A y \in T : x <= y
        BY <2>2, LeastOf
    <2>4. x \in Nat /\ x <= from /\ (from - x = 0 \/ Prefix(r.path, from - x) \in mounts)
        BY <2>1
    <2>5. ASSUME NEW k \in (from - x) + 1 .. from PROVE Prefix(r.path, k) \notin mounts
        <3>1. from - k \in Nat /\ from - k < x /\ from - k <= from /\ from - (from - k) = k
            BY <1>1, <2>4
        <3>2. from - k \notin T
            BY <2>3, <2>4, <3>1
        <3> QED BY <2>1, <3>1, <3>2
    <2>6. from - x \in 0 .. from
        BY <1>1, <2>4
    <2> QED BY <2>4, <2>5, <2>6
<1>3. found \in 0 .. from /\ P(found)
    BY <1>2
<1> HIDE DEF found
<1>4. found \in 0 .. Len(r.path) /\ found \in Nat
    BY <1>1, <1>3
<1>5. /\ Prefix(r.path, found) \in Dirs /\ Len(Prefix(r.path, found)) = found
      /\ Prefix(r.path, from) \in Dirs /\ Len(Prefix(r.path, from)) = from
      /\ \A i \in 1 .. from : Prefix(r.path, from)[i] = r.path[i]
    BY <1>1, <1>4, PrefixIs
<1>6. ASSUME NEW n \in 0 .. from PROVE Prefix(Prefix(r.path, from), n) = Prefix(r.path, n)
    <2>1. /\ n \in 0 .. Len(Prefix(r.path, from)) /\ n <= Len(r.path)
          /\ \A i \in 1 .. n : Prefix(r.path, from)[i] = r.path[i]
        BY <1>1, <1>5
    <2> QED BY <1>1, <1>5, <2>1, CommonPrefix
<1>7. Prefix(r.path, found) \in mounts
    <2>1. CASE found = 0
        <3>1. Prefix(r.path, 0) = <<>>
            BY <1>5, <2>1, EmptySeq DEF Dirs
        <3> QED BY <2>1, <3>1
    <2> QED BY <1>3, <2>1
<1>8. IsInnermost(mounts, Prefix(r.path, from), Prefix(r.path, found))
    <2>1. \E n \in 0 .. from : Prefix(r.path, found) = Prefix(Prefix(r.path, from), n)
        BY <1>3, <1>6
    <2>2. ASSUME NEW n \in found + 1 .. from
          PROVE  Prefix(Prefix(r.path, from), n) \notin mounts
        <3>1. n \in 0 .. from
            BY <1>4
        <3> QED BY <1>3, <1>6, <3>1
    <2> QED BY <1>5, <1>7, <2>1, <2>2 DEF IsInnermost
<1>9. recursiveFindFs(mounts, r, from)
        = [r EXCEPT !.fs = Prefix(r.path, found), !.depthIntoFs = 1 + from - found]
    BY DEF recursiveFindFs, found
<1>10. 1 + from - found \in Int
    BY <1>1, <1>4
<1> QED BY <1>1, <1>5, <1>8, <1>9, <1>10 DEF Resolutions

\* A ".." that leaves the filesystem it is in.
Leaves(mounts, r, name) == name = ".." /\ r.path \in mounts \ {<<>>}

\* The depth tells whether a directory is a mount point.
LEMMA DepthTells ==
    ASSUME NEW mounts, NEW r, Tracks(mounts, r), r.path # <<>>
    PROVE  r.path \in mounts <=> ~(r.depthIntoFs - 1 > 0)
<1>1. r.path \in Dirs /\ r.depthIntoFs = 1 + Len(r.path) - Len(r.fs)
    BY DEF Tracks, Resolutions
<1>2. Len(r.path) \in Nat /\ Prefix(r.path, Len(r.path)) = r.path
    BY <1>1, WholePrefix
<1>3. PICK n \in 0 .. Len(r.path) : r.fs = Prefix(r.path, n)
    BY DEF Tracks, IsInnermost
<1>4. Len(r.fs) = n
    BY <1>1, <1>3, PrefixIs
<1>5. CASE n = Len(r.path)
    BY <1>1, <1>2, <1>3, <1>4, <1>5 DEF Tracks, IsInnermost
<1>6. CASE n # Len(r.path)
    <2>1. Len(r.path) \in Len(r.fs) + 1 .. Len(r.path)
        BY <1>2, <1>4, <1>6
    <2>2. r.path \notin mounts
        BY <1>2, <2>1 DEF Tracks, IsInnermost
    <2> QED BY <1>1, <1>2, <1>4, <1>6, <2>2
<1> QED BY <1>5, <1>6

\* A name leads into the filesystem mounted there, or stays in this one.
LEMMA NormalTracks ==
    ASSUME NEW mounts, NEW r, Tracks(mounts, r), NEW name \in STRING
    PROVE  LET q == normalPathComponent(mounts, r, name) IN
           Tracks(mounts, q) /\ q.path = Append(r.path, name)
<1>1. PICK dir : dir = Append(r.path, name)
    OBVIOUS
<1>2. r \in Resolutions /\ r.path \in Dirs /\ r.result = 0 /\ r.fs \in Dirs
      /\ r.depthIntoFs = 1 + Len(r.path) - Len(r.fs) /\ r.depthIntoFs \in Int
    BY DEF Tracks, Resolutions
<1>3. /\ Len(r.path) \in Nat /\ Len(r.fs) \in Nat
      /\ dir \in Dirs /\ Len(dir) = Len(r.path) + 1
      /\ \A i \in 1 .. Len(r.path) : dir[i] = r.path[i]
    BY <1>1, <1>2, AppendProperties, LenProperties DEF Dirs
<1>4. ASSUME NEW n \in 0 .. Len(r.path) PROVE Prefix(dir, n) = Prefix(r.path, n)
    <2>1. n \in 0 .. Len(dir) /\ n <= Len(r.path) /\ \A i \in 1 .. n : dir[i] = r.path[i]
        BY <1>3
    <2> QED BY <1>2, <1>3, <2>1, CommonPrefix
<1>5. Prefix(dir, Len(dir)) = dir
    BY <1>3, WholePrefix
<1>6. CASE dir \in mounts
    <2>1. normalPathComponent(mounts, r, name)
            = [result |-> 0, path |-> dir, fs |-> dir, depthIntoFs |-> 1]
        BY <1>1, <1>2, <1>6 DEF normalPathComponent, Resolutions
    <2>2. IsInnermost(mounts, dir, dir)
        BY <1>3, <1>5, <1>6 DEF IsInnermost
    <2> QED BY <1>1, <1>3, <2>1, <2>2 DEF Tracks, Resolutions
<1>7. CASE dir \notin mounts
    <2>1. normalPathComponent(mounts, r, name)
            = [result |-> 0, path |-> dir, fs |-> r.fs, depthIntoFs |-> r.depthIntoFs + 1]
        BY <1>1, <1>2, <1>7 DEF normalPathComponent, Resolutions
    <2>2. \E n \in 0 .. Len(dir) : r.fs = Prefix(dir, n)
        <3>1. PICK n \in 0 .. Len(r.path) : r.fs = Prefix(r.path, n)
            BY DEF Tracks, IsInnermost
        <3>2. n \in 0 .. Len(dir) /\ r.fs = Prefix(dir, n)
            BY <1>3, <1>4, <3>1
        <3> QED BY <3>2
    <2>3. ASSUME NEW n \in Len(r.fs) + 1 .. Len(dir) PROVE Prefix(dir, n) \notin mounts
        <3>1. CASE n = Len(dir)
            BY <1>5, <1>7, <3>1
        <3>2. CASE n # Len(dir)
            <4>1. n \in 0 .. Len(r.path) /\ n \in Len(r.fs) + 1 .. Len(r.path)
                BY <1>3, <3>2
            <4> QED BY <1>4, <4>1 DEF Tracks, IsInnermost
        <3> QED BY <3>1, <3>2
    <2>4. IsInnermost(mounts, dir, r.fs)
        BY <2>2, <2>3 DEF IsInnermost, Tracks
    <2>5. r.depthIntoFs + 1 = 1 + Len(dir) - Len(r.fs) /\ r.depthIntoFs + 1 \in Int
        BY <1>2, <1>3
    <2> QED BY <1>1, <1>2, <1>3, <2>1, <2>4, <2>5 DEF Tracks, Resolutions
<1> QED BY <1>6, <1>7

\* ".." inside a filesystem, or out of it into the innermost one around it,
\* or of the directory above when it is the last component.
LEMMA UpTracks ==
    ASSUME NEW mounts, <<>> \in mounts, NEW r, Tracks(mounts, r), r.path # <<>>,
           NEW last \in BOOLEAN
    PROVE  LET q == upPathComponent(mounts, r, last) IN
           /\ q \in Resolutions /\ q.path = Up(r.path)
           /\ ~(last /\ r.path \in mounts) => Tracks(mounts, q)
           /\ last /\ r.path \in mounts =>
                IsInnermost(mounts, IF q.path # <<>> THEN Up(q.path) ELSE q.path, q.fs)
<1>1. r \in Resolutions /\ r.path \in Dirs /\ r.result = 0 /\ r.fs \in Dirs
      /\ r.depthIntoFs = 1 + Len(r.path) - Len(r.fs) /\ r.depthIntoFs \in Int
    BY DEF Tracks, Resolutions
<1>2. /\ Up(r.path) \in Dirs /\ Len(r.path) \in Nat \ {0}
      /\ Len(Up(r.path)) = Len(r.path) - 1
      /\ \A n \in 0 .. Len(r.path) - 1 : Prefix(Up(r.path), n) = Prefix(r.path, n)
    BY <1>1, UpIs
<1>3. PICK up : up = [r EXCEPT !.path = Up(r.path), !.depthIntoFs = r.depthIntoFs - 1]
    OBVIOUS
<1>4. /\ up \in Resolutions /\ up.path = Up(r.path) /\ up.fs = r.fs
      /\ up.depthIntoFs = r.depthIntoFs - 1 /\ up.result = 0
    <2>1. PICK depth : depth = r.depthIntoFs - 1
        OBVIOUS
    <2>2. depth \in Int
        BY <1>1, <2>1
    <2>3. up = [r EXCEPT !.path = Up(r.path), !.depthIntoFs = depth]
        BY <1>3, <2>1
    <2>4. up = [result |-> 0, path |-> Up(r.path), fs |-> r.fs, depthIntoFs |-> depth]
        BY <1>1, <2>3 DEF Resolutions
    <2> QED BY <1>1, <1>2, <2>1, <2>2, <2>4 DEF Resolutions
<1>5. r.path \in mounts <=> ~(up.depthIntoFs > 0)
    BY <1>4, DepthTells
<1>6. CASE up.depthIntoFs > 0
    <2>1. upPathComponent(mounts, r, last) = up
        BY <1>3, <1>6 DEF upPathComponent
    <2>2. PICK n \in 0 .. Len(r.path) : r.fs = Prefix(r.path, n)
        BY DEF Tracks, IsInnermost
    <2>3. Len(r.fs) = n
        BY <1>1, <2>2, PrefixIs
    <2>4. n \in 0 .. Len(r.path) - 1
        BY <1>1, <1>2, <1>4, <1>6, <2>3
    <2>5. \E k \in 0 .. Len(up.path) : up.fs = Prefix(up.path, k)
        BY <1>2, <1>4, <2>2, <2>4
    <2>6. ASSUME NEW k \in Len(up.fs) + 1 .. Len(up.path) PROVE Prefix(up.path, k) \notin mounts
        <3>1. k \in 0 .. Len(r.path) - 1 /\ k \in Len(r.fs) + 1 .. Len(r.path)
            BY <1>2, <1>4, <2>3
        <3> QED BY <1>2, <1>4, <3>1 DEF Tracks, IsInnermost
    <2>7. IsInnermost(mounts, up.path, up.fs)
        BY <1>4, <2>5, <2>6 DEF IsInnermost, Tracks
    <2>8. up.depthIntoFs = 1 + Len(up.path) - Len(up.fs)
        BY <1>1, <1>2, <1>4, <2>3
    <2> QED BY <1>4, <1>5, <1>6, <2>1, <2>7, <2>8 DEF Tracks
<1>7. CASE ~(up.depthIntoFs > 0)
    <2>1. PICK from : from = IF last THEN Max0(Len(up.path) - 1) ELSE Len(up.path)
        OBVIOUS
    <2>2. upPathComponent(mounts, r, last) = recursiveFindFs(mounts, up, from)
        BY <1>3, <1>7, <2>1 DEF upPathComponent
    <2>3. Len(up.path) \in Nat /\ from \in 0 .. Len(up.path)
        BY <1>2, <1>4, <2>1 DEF Max0
    <2>4. PICK q : q = recursiveFindFs(mounts, up, from)
        OBVIOUS
    <2>5. /\ q \in Resolutions /\ q.result = 0 /\ q.path = up.path
          /\ IsInnermost(mounts, Prefix(up.path, from), q.fs)
          /\ q.depthIntoFs = 1 + from - Len(q.fs)
        BY <1>4, <2>3, <2>4, FindFs
    <2>6. CASE ~last
        <3>1. from = Len(up.path) /\ Prefix(up.path, from) = up.path
            BY <1>2, <1>4, <2>1, <2>6, WholePrefix
        <3> QED BY <1>4, <2>2, <2>4, <2>5, <2>6, <3>1 DEF Tracks
    <2>7. CASE last
        <3>1. Prefix(up.path, from) = IF up.path # <<>> THEN Up(up.path) ELSE up.path
            <4>1. CASE up.path = <<>>
                <5>1. Len(up.path) = 0 /\ from = Len(up.path)
                    BY <2>1, <2>7, <4>1, EmptySeq DEF Max0
                <5> QED BY <1>2, <1>4, <4>1, <5>1, WholePrefix
            <4>2. CASE up.path # <<>>
                <5>1. Len(up.path) \in Nat \ {0}
                    BY <1>2, <1>4, <4>2, UpIs
                <5>2. from = Len(up.path) - 1
                    BY <2>1, <2>7, <5>1 DEF Max0
                <5> QED BY <4>2, <5>2 DEF Up
            <4> QED BY <4>1, <4>2
        <3> QED BY <1>4, <1>5, <1>7, <2>2, <2>4, <2>5, <2>7, <3>1
    <2> QED BY <2>6, <2>7
<1> QED BY <1>6, <1>7

\* One component.
LEMMA NextTracks ==
    ASSUME NEW mounts, <<>> \in mounts, NEW r, r = ENOENT \/ Tracks(mounts, r),
           NEW name \in STRING, NEW last \in BOOLEAN
    PROVE  LET q == nextComponent(mounts, r, name, last) IN
           /\ q = ENOENT \/ q \in Resolutions
           /\ ~(last /\ Leaves(mounts, r, name)) => q = ENOENT \/ Tracks(mounts, q)
           /\ last /\ Leaves(mounts, r, name) /\ q # ENOENT =>
                IsInnermost(mounts, IF q.path # <<>> THEN Up(q.path) ELSE q.path, q.fs)
           /\ q.path = nextComponent(mounts, r, name, FALSE).path
<1>1. ENOENT.result < 0 /\ ENOENT.path = <<>>
    BY DEF ENOENT, Start
<1>2. CASE r = ENOENT
    BY <1>1, <1>2 DEF nextComponent, Leaves
<1>3. CASE Tracks(mounts, r)
    <2>1. r \in Resolutions /\ ~(r.result < 0)
        BY <1>3 DEF Tracks, Resolutions
    <2>2. CASE name = "."
        BY <1>3, <2>1, <2>2 DEF nextComponent, Leaves
    <2>3. CASE name = ".."
        <3>1. \A b : nextComponent(mounts, r, name, b) = upPathComponent(mounts, r, b)
            BY <2>1, <2>3 DEF nextComponent
        <3>2. CASE r.path = <<>>
            BY <1>3, <3>1, <3>2 DEF upPathComponent, Leaves
        <3>3. CASE r.path # <<>>
            <4>1. upPathComponent(mounts, r, FALSE).path = Up(r.path)
                BY <1>3, <3>3, UpTracks
            <4>2. /\ upPathComponent(mounts, r, last) \in Resolutions
                  /\ upPathComponent(mounts, r, last).path = Up(r.path)
                BY <1>3, <3>3, UpTracks
            <4>3. ~(last /\ r.path \in mounts) => Tracks(mounts, upPathComponent(mounts, r, last))
                BY <1>3, <3>3, UpTracks
            <4>4. last /\ r.path \in mounts =>
                    LET q == upPathComponent(mounts, r, last) IN
                    IsInnermost(mounts, IF q.path # <<>> THEN Up(q.path) ELSE q.path, q.fs)
                BY <1>3, <3>3, UpTracks
            <4> QED BY <2>3, <3>1, <3>3, <4>1, <4>2, <4>3, <4>4 DEF Leaves
        <3> QED BY <3>2, <3>3
    <2>4. CASE name # "." /\ name # ".."
        <3>1. \A b : nextComponent(mounts, r, name, b) = normalPathComponent(mounts, r, name)
            BY <2>1, <2>4 DEF nextComponent
        <3>2. Tracks(mounts, normalPathComponent(mounts, r, name))
            BY <1>3, NormalTracks
        <3> QED BY <2>4, <3>1, <3>2 DEF Leaves, Tracks
    <2> QED BY <2>2, <2>3, <2>4
<1> QED BY <1>2, <1>3

\* The states of the resolution of the first n components.
Steps(mounts, path, n, f) ==
    f = [i \in 0 .. n |->
           IF i = 0 THEN Start ELSE nextComponent(mounts, f[i - 1], path[i], i = Len(path))]

\* They are defined for every path.
LEMMA StepsExist ==
    ASSUME NEW mounts, NEW path, NEW N \in Nat
    PROVE  \E f : Steps(mounts, path, N, f)
<1> DEFINE Bad == {n \in Nat : ~\E f : Steps(mounts, path, n, f)}
<1>1. SUFFICES ASSUME Bad # {} PROVE FALSE
    OBVIOUS
<1>2. PICK n \in Bad : \A y \in Bad : n <= y
    BY <1>1, LeastOf
<1>3. n \in Nat /\ ~\E f : Steps(mounts, path, n, f)
    OBVIOUS
<1>4. CASE n = 0
    <2>1. PICK f : f = [i \in 0 .. 0 |-> Start]
        OBVIOUS
    <2>2. Steps(mounts, path, 0, f)
        BY <2>1 DEF Steps
    <2> QED BY <1>3, <1>4, <2>2
<1>5. CASE n # 0
    <2>1. n - 1 \in Nat /\ n - 1 \notin Bad
        BY <1>2, <1>3, <1>5
    <2>2. PICK f : Steps(mounts, path, n - 1, f)
        BY <2>1
    <2>3. PICK new : new = nextComponent(mounts, f[n - 1], path[n], n = Len(path))
        OBVIOUS
    <2>4. PICK g : g = [i \in 0 .. n |-> IF i = n THEN new ELSE f[i]]
        OBVIOUS
    <2>5. \A i \in 0 .. n - 1 : g[i] = f[i]
        BY <1>3, <2>4
    <2>6. ASSUME NEW i \in 0 .. n
          PROVE  g[i] = IF i = 0 THEN Start
                        ELSE nextComponent(mounts, g[i - 1], path[i], i = Len(path))
        <3>1. CASE i = n
            <4>1. n - 1 \in 0 .. n - 1 /\ g[i] = new
                BY <1>3, <1>5, <2>4, <3>1
            <4> QED BY <1>5, <2>3, <2>5, <3>1, <4>1
        <3>2. CASE i # n
            <4>1. i \in 0 .. n - 1 /\ (i # 0 => i - 1 \in 0 .. n - 1)
                BY <1>3, <3>2
            <4>2. f[i] = IF i = 0 THEN Start
                         ELSE nextComponent(mounts, f[i - 1], path[i], i = Len(path))
                BY <2>2, <4>1 DEF Steps
            <4> QED BY <2>5, <4>1, <4>2
        <3> QED BY <3>1, <3>2
    <2>7. Steps(mounts, path, n, g)
        BY <2>4, <2>6 DEF Steps
    <2> QED BY <1>3, <2>7
<1> QED BY <1>4, <1>5

\* So resolvePath() is the last of them.
LEMMA ResolveIs ==
    ASSUME NEW mounts, <<>> \in mounts, NEW path \in Dirs
    PROVE  \E f : Steps(mounts, path, Len(path), f) /\ resolvePath(mounts, path) = f[Len(path)]
<1>1. PICK f : f = CHOOSE to : Steps(mounts, path, Len(path), to)
    OBVIOUS
<1>2. Len(path) \in Nat
    BY LenProperties DEF Dirs
<1>3. Steps(mounts, path, Len(path), f)
    BY <1>1, <1>2, StepsExist
<1>4. resolvePath(mounts, path) = f[Len(path)]
    BY <1>1 DEF resolvePath, Steps
<1> QED BY <1>3, <1>4

\* Up to the last component but one every state is on track.
LEMMA StepsTrack ==
    ASSUME NEW mounts, <<>> \in mounts, NEW path \in Dirs, NEW f,
           Steps(mounts, path, Len(path), f), NEW i \in 0 .. Len(path),
           i = Len(path) => i = 0
    PROVE  f[i] = ENOENT \/ Tracks(mounts, f[i])
<1> DEFINE Ok(k) == f[k] = ENOENT \/ Tracks(mounts, f[k])
           Bad == {n \in Nat : n <= i /\ ~Ok(n)}
<1>1. SUFFICES ASSUME Bad # {} PROVE FALSE
    OBVIOUS
<1>2. PICK n \in Bad : \A y \in Bad : n <= y
    BY <1>1, LeastOf
<1>3. n \in Nat /\ n <= i /\ ~Ok(n) /\ Len(path) \in Nat /\ i \in Nat /\ i <= Len(path)
    BY LenProperties DEF Dirs
<1>4. n # 0
    <2>1. f[0] = Start
        BY <1>3 DEF Steps
    <2> QED BY <1>3, <2>1, StartTracks
<1>5. n - 1 \in Nat /\ n - 1 \notin Bad
    BY <1>2, <1>3, <1>4
<1>6. Ok(n - 1)
    BY <1>3, <1>5
<1>7. n \in 0 .. Len(path) /\ n # Len(path) /\ n \in 1 .. Len(path)
    BY <1>3, <1>4
<1>8. f[n] = nextComponent(mounts, f[n - 1], path[n], FALSE)
    BY <1>4, <1>7 DEF Steps
<1>9. path[n] \in STRING
    BY <1>7, LenProperties DEF Dirs
<1> QED BY <1>3, <1>6, <1>8, <1>9, NextTracks

\* Resolving all but the last component takes the same components.
LEMMA UpResolves ==
    ASSUME NEW mounts, <<>> \in mounts, NEW path \in Dirs, path # <<>>, NEW f,
           Steps(mounts, path, Len(path), f)
    PROVE  resolvePath(mounts, Up(path)).path = f[Len(path) - 1].path
<1>1. PICK N : N = Len(path)
    OBVIOUS
<1>2. /\ Up(path) \in Dirs /\ N \in Nat \ {0} /\ Len(Up(path)) = N - 1
      /\ \A i \in 1 .. N - 1 : Up(path)[i] = path[i]
    <2>1. N - 1 \in 0 .. N
        BY <1>1, UpIs
    <2> QED BY <1>1, <2>1, UpIs, PrefixIs DEF Up
<1>3. PICK g : Steps(mounts, Up(path), N - 1, g) /\ resolvePath(mounts, Up(path)) = g[N - 1]
    BY <1>2, ResolveIs
<1>4. /\ f[0] = Start
      /\ \A i \in 1 .. N : f[i] = nextComponent(mounts, f[i - 1], path[i], i = N)
    BY <1>1, <1>2 DEF Steps
<1>5. /\ g[0] = Start
      /\ \A i \in 1 .. N - 1 : g[i] = nextComponent(mounts, g[i - 1], path[i], i = N - 1)
    BY <1>2, <1>3 DEF Steps
<1>6. ASSUME NEW k \in 0 .. N - 2 PROVE f[k] = g[k]
    <2> DEFINE Bad == {n \in Nat : n <= N - 2 /\ f[n] # g[n]}
    <2>1. SUFFICES ASSUME Bad # {} PROVE FALSE
        BY <1>2
    <2>2. PICK n \in Bad : \A y \in Bad : n <= y
        BY <2>1, LeastOf
    <2>3. n \in Nat /\ n <= N - 2 /\ f[n] # g[n]
        OBVIOUS
    <2>4. n # 0
        BY <1>4, <1>5, <2>3
    <2>5. n - 1 \in Nat /\ n - 1 \notin Bad
        BY <2>2, <2>3, <2>4
    <2>6. f[n - 1] = g[n - 1]
        BY <1>2, <2>3, <2>5
    <2>7. n \in 1 .. N - 1 /\ n \in 1 .. N /\ n # N /\ n # N - 1
        BY <1>2, <2>3, <2>4
    <2>8. f[n] = nextComponent(mounts, f[n - 1], path[n], FALSE)
        BY <1>4, <2>7
    <2>9. g[n] = nextComponent(mounts, g[n - 1], path[n], FALSE)
        BY <1>5, <2>7
    <2> QED BY <2>3, <2>6, <2>8, <2>9
<1>7. CASE N = 1
    BY <1>1, <1>3, <1>4, <1>5, <1>7
<1>8. CASE N # 1
    <2>1. N - 1 \in 1 .. N - 1 /\ N - 1 \in 1 .. N /\ N - 1 # N /\ (N - 1) - 1 \in 0 .. N - 2
          /\ N - 2 = (N - 1) - 1 /\ N - 2 \in 0 .. N /\ N - 2 # N
        BY <1>2, <1>8
    <2>2. f[N - 1] = nextComponent(mounts, f[N - 2], path[N - 1], FALSE)
        BY <1>4, <2>1
    <2>3. g[N - 1] = nextComponent(mounts, g[N - 2], path[N - 1], TRUE)
        BY <1>5, <2>1
    <2>4. f[N - 2] = g[N - 2]
        BY <1>6, <2>1
    <2>5. f[N - 2] = ENOENT \/ Tracks(mounts, f[N - 2])
        BY <1>1, <2>1, StepsTrack
    <2>6. path[N - 1] \in STRING
        BY <1>1, <2>1, LenProperties DEF Dirs
    <2>7. nextComponent(mounts, f[N - 2], path[N - 1], TRUE).path
            = nextComponent(mounts, f[N - 2], path[N - 1], FALSE).path
        BY <2>5, <2>6, NextTracks
    <2> QED BY <1>1, <1>3, <2>2, <2>3, <2>4, <2>7
<1> QED BY <1>7, <1>8

\* What resolvePath() returns, for every path and everything mounted.
LEMMA ResolveFinds ==
    ASSUME NEW mounts, <<>> \in mounts, NEW path \in Dirs
    PROVE  LET r == resolvePath(mounts, path) IN
           \/ r = ENOENT
           \/ /\ r \in Resolutions
              /\ IsInnermost(mounts, IF EndsLeavingMount(mounts, path) /\ r.path # <<>>
                                     THEN Up(r.path) ELSE r.path, r.fs)
<1>1. PICK f : Steps(mounts, path, Len(path), f) /\ resolvePath(mounts, path) = f[Len(path)]
    BY ResolveIs
<1>2. PICK N : N = Len(path)
    OBVIOUS
<1>3. N \in Nat
    BY <1>2, LenProperties DEF Dirs
<1>4. CASE path = <<>>
    <2>1. N = 0 /\ N \in 0 .. Len(path) /\ ~EndsLeavingMount(mounts, path)
        BY <1>2, <1>3, <1>4, EmptySeq DEF EndsLeavingMount
    <2>2. f[N] = ENOENT \/ Tracks(mounts, f[N])
        BY <1>1, <1>2, <2>1, StepsTrack
    <2> QED BY <1>1, <1>2, <2>1, <2>2 DEF Tracks
<1>5. CASE path # <<>>
    <2>1. N \in Nat \ {0} /\ N \in 1 .. N /\ N - 1 \in 0 .. N /\ N - 1 # N /\ N \in 0 .. N /\ N # 0
        BY <1>2, <1>5, UpIs
    <2>2. f[N - 1] = ENOENT \/ Tracks(mounts, f[N - 1])
        BY <1>1, <1>2, <2>1, StepsTrack
    <2>3. f[N] = nextComponent(mounts, f[N - 1], path[N], TRUE)
        BY <1>1, <1>2, <2>1 DEF Steps
    <2>4. path[N] \in STRING
        BY <1>2, <2>1, LenProperties DEF Dirs
    <2>5. EndsLeavingMount(mounts, path) <=> Leaves(mounts, f[N - 1], path[N])
        BY <1>1, <1>2, <1>5, UpResolves DEF EndsLeavingMount, Leaves
    <2>6. PICK q : q = nextComponent(mounts, f[N - 1], path[N], TRUE)
        OBVIOUS
    <2>7. /\ q = ENOENT \/ q \in Resolutions
          /\ ~Leaves(mounts, f[N - 1], path[N]) => q = ENOENT \/ Tracks(mounts, q)
          /\ Leaves(mounts, f[N - 1], path[N]) /\ q # ENOENT =>
               IsInnermost(mounts, IF q.path # <<>> THEN Up(q.path) ELSE q.path, q.fs)
        BY <2>2, <2>4, <2>6, NextTracks
    <2>8. resolvePath(mounts, path) = q
        BY <1>1, <1>2, <2>3, <2>6
    <2>9. CASE q = ENOENT
        BY <2>8, <2>9
    <2>10. CASE q # ENOENT /\ Leaves(mounts, f[N - 1], path[N])
        BY <2>5, <2>7, <2>8, <2>10
    <2>11. CASE q # ENOENT /\ ~Leaves(mounts, f[N - 1], path[N])
        BY <2>5, <2>7, <2>8, <2>11 DEF Tracks
    <2> QED BY <2>9, <2>10, <2>11
<1> QED BY <1>4, <1>5

\* The form the steps of Filesystem need.
LEMMA ResolveMounted ==
    ASSUME NEW mounts \in SUBSET Dirs, NEW path \in Dirs,
           ~(resolvePath(mounts, path).result < 0)
    PROVE  resolvePath(mounts, path).fs \in mounts
<1>1. ENOENT.result < 0
    BY DEF ENOENT, Start
<1>2. <<>> \in mounts
    BY <1>1 DEF resolvePath
<1>3. resolvePath(mounts, path) # ENOENT
    BY <1>1
<1> QED BY <1>2, <1>3, ResolveFinds DEF IsInnermost

\* Whatever is mounted, and at every moment: open() takes the innermost
\* filesystem at or above the directory its path leads to, and the one above
\* that after a final ".." out of a filesystem.
THEOREM PathsResolveToInnermost == Spec => []ResolvesToInnermost
<1>1. ASSUME NEW path \in Paths, resolvePath(Mounted, path).result = 0
      PROVE  LET r == resolvePath(Mounted, path) IN
             r.fs = Innermost(Mounted, IF EndsLeavingMount(Mounted, path) /\ r.path # <<>>
                                       THEN Up(r.path) ELSE r.path)
    <2>1. ENOENT.result # 0
        BY DEF ENOENT, Start
    <2>2. <<>> \in Mounted
        BY <1>1, <2>1 DEF resolvePath
    <2>3. path \in Dirs
        BY FilesystemAssumption DEF Dirs
    <2>4. PICK r : r = resolvePath(Mounted, path)
        OBVIOUS
    <2>5. PICK dir : dir = IF EndsLeavingMount(Mounted, path) /\ r.path # <<>>
                           THEN Up(r.path) ELSE r.path
        OBVIOUS
    <2>6. r \in Resolutions /\ IsInnermost(Mounted, dir, r.fs)
        BY <1>1, <2>1, <2>2, <2>3, <2>4, <2>5, ResolveFinds
    <2>7. dir \in Dirs
        BY <2>5, <2>6, UpIs DEF Resolutions
    <2>8. r.fs = Innermost(Mounted, dir)
        BY <2>6, <2>7, InnermostUnique
    <2> QED BY <2>4, <2>5, <2>8
<1>2. ResolvesToInnermost
    BY <1>1 DEF ResolvesToInnermost
<1> QED BY <1>2, PTL

-----------------------------------------------------------------------------
(* The inductive invariant of Filesystem *)

Callers == Users \cup Admins

\* TypeOK, as the proofs use it.
BaseType ==
    /\ filesystems \in [MountPoints -> Fs \cup {NoFs}]
    /\ mutex \in Admins \cup {NoThread}
    /\ fileTables \in Seq(Tables)
    /\ files \in [Tables -> [Fds -> Files \cup {NoFile}]]
    /\ busy \in [Tables -> Users \cup {NoThread}]
    /\ parent \in [Files -> Fs \cup {NoFs}]
    /\ refs \in [Files -> Nat]
    /\ call \in [Callers -> Calls]
    /\ late \subseteq Files
    /\ torn \subseteq Files

OpenOps   == {"open", "resolved", "created", "published"}
UmountOps == {"scan", "close", "check", "erase"}
Once(s)   == \A i, j \in DOMAIN s : s[i] = s[j] => i = j

\* Who holds which lock follows from what each thread is doing; a process
\* whose threads are in a call is not deleted.
LockInv ==
    /\ \A t \in Users : /\ call[t].op \in OpenOps \cup {"idle", "use"}
                        /\ call[t].op \in OpenOps <=> busy[TableOf[t]] = t
                        /\ call[t].op # "idle" => Listed(TableOf[t])
    /\ \A t \in Admins : /\ call[t].op \in UmountOps \cup {"idle"}
                         /\ call[t].op \in UmountOps <=> mutex = t
    /\ Once(fileTables)

\* The loop of umount() stays inside the tables, and what it is to unmount
\* stays mounted.
UmountInv ==
    \A t \in Admins : call[t].op \in UmountOps =>
       /\ call[t].targets \subseteq Mounted
       /\ call[t].op = "scan"  => call[t].entry <= Len(fileTables) * Cardinality(Fds) + 1
       /\ call[t].op = "close" => call[t].entry <= Len(fileTables) * Cardinality(Fds)

\* A file is in one entry at most; the entry an open() is to fill is empty
\* until it does, and who empties it again tears the file.  Nothing is known
\* of what has been torn.
EntryInv ==
    /\ \A d, e \in Tables, i, j \in Fds :
          files[d][i] # NoFile /\ files[d][i] \notin torn /\ files[d][i] = files[e][j]
          => d = e /\ i = j
    /\ \A t \in Users :
          /\ call[t].op \in {"open", "resolved", "created"} =>
                files[TableOf[t]][call[t].fd] = NoFile
          /\ call[t].op = "created" /\ call[t].file \notin torn =>
                \A d \in Tables, i \in Fds : files[d][i] # call[t].file
          /\ call[t].op = "published" =>
                files[TableOf[t]][call[t].fd] = call[t].file \/ call[t].file \in torn
    /\ \A t, u \in Users :
          call[t].op \in {"created", "published"} /\ call[u].op \in {"created", "published"}
          /\ call[t].file = call[u].file /\ call[t].file \notin torn => t = u

\* The counts, where nothing was torn.
CountInv ==
    \A o \in Files : o \notin torn => /\ refs[o] = Holders(o)
                                      /\ Alive(o) <=> refs[o] > 0

\* While umount() holds the mutex every open() that is past resolvePath()
\* was there before.
LateInv ==
    /\ \A t \in Users : call[t].op = "resolved" /\ mutex # NoThread => call[t].late
    /\ \A t \in Admins : call[t].op = "erase" =>
          \A o \in Files : InTargets(o, call[t]) => o \in late

\* The entry a forced umount() is about to close has not been refilled.
CloseInv ==
    \A t \in Admins : call[t].op = "close" =>
       LET d == TableAt(call[t].entry)
           i == FdAt(call[t].entry)
       IN  /\ \/ files[d][i] = NoFile \/ files[d][i] \in torn
              \/ InTargets(files[d][i], call[t])
           /\ \A u \in Users : call[u].op \in {"resolved", "created"} /\ TableOf[u] = d
                 => call[u].fd # i

FilesystemInv ==
    /\ BaseType /\ LockInv /\ UmountInv /\ EntryInv /\ CountInv
    /\ LateInv /\ OnlyLateFilesRemain /\ CloseInv

-----------------------------------------------------------------------------
(* Calls *)

\* The fields of a call.
LEMMA CallFields ==
    ASSUME NEW c \in Calls
    PROVE  /\ c.op \in OpenOps \cup UmountOps \cup {"idle", "use"}
           /\ c.op \in OpenOps => c.fd \in Fds
           /\ c.op = "resolved" => c.fs \in Fs /\ c.late \in BOOLEAN
           /\ c.op \in {"created", "published", "use", "close"} => c.file \in Files
           /\ c.op \in UmountOps => c.targets \in SUBSET MountPoints
           /\ c.op \in {"scan", "check"} => c.force \in BOOLEAN
           /\ c.op = "scan" => c.entry \in 1 .. MaxEntries + 1
           /\ c.op = "close" => c.entry \in 1 .. MaxEntries
           /\ c.op = "check" => c.tries \in 0 .. maxRetry - 1
BY DEF Calls, OpenOps, UmountOps, Idle

\* A thread goes on; the others stay where they are.
LEMMA DoIs ==
    ASSUME BaseType, NEW t \in Callers, NEW c \in Calls, Do(t, c)
    PROVE  /\ call' \in [Callers -> Calls] /\ call'[t] = c
           /\ \A u \in Callers : u # t => call'[u] = call[u]
BY DEF BaseType, Do

\* The descriptors, and the range of the loop of umount().
LEMMA FdsFinite ==
    /\ IsFiniteSet(Fds) /\ Cardinality(Fds) \in Nat
    /\ Cardinality(Tables) \in Nat /\ MaxEntries \in Nat
    /\ Cardinality(Fds) # 0 => Cardinality(Fds) = MAX_OPEN_FILES - 3
<1>1. 3 \in Int /\ MAX_OPEN_FILES - 1 \in Int
    BY FilesystemAssumption
<1>2. IsFiniteSet(Fds) /\ Cardinality(Fds) = IF 3 <= MAX_OPEN_FILES - 1 THEN MAX_OPEN_FILES - 1 - 3 + 1 ELSE 0
    BY <1>1, FS_Interval DEF Fds
<1>3. Cardinality(Fds) \in Nat /\ Cardinality(Tables) \in Nat
    BY <1>2, FS_CardinalityType, FilesystemAssumption
<1>4. MaxEntries \in Nat
    BY <1>3 DEF MaxEntries
<1> QED BY <1>2, <1>3, <1>4, FilesystemAssumption

\* A list without repetitions is no longer than the set it is from.
LEMMA OnceLength ==
    ASSUME NEW s \in Seq(Tables), Once(s)
    PROVE  Len(s) \in Nat /\ Len(s) <= Cardinality(Tables)
<1>1. Len(s) \in Nat /\ s \in [1 .. Len(s) -> Tables] /\ DOMAIN s = 1 .. Len(s)
    BY LenProperties
<1>2. s \in Injection(1 .. Len(s), Tables)
    BY <1>1 DEF Once, Injection, IsInjective
<1>3. IsFiniteSet(1 .. Len(s)) /\ Cardinality(1 .. Len(s)) = Len(s)
    BY <1>1, FS_Interval
<1> QED BY <1>1, <1>2, <1>3, FS_Injection, FilesystemAssumption

\* The loop of umount() makes no more rounds than there are entries.
LEMMA LoopRange ==
    ASSUME BaseType, LockInv
    PROVE  /\ Len(fileTables) \in Nat
           /\ Len(fileTables) * Cardinality(Fds) \in Nat
           /\ Len(fileTables) * Cardinality(Fds) <= MaxEntries
<1>1. /\ Len(fileTables) \in Nat /\ Len(fileTables) <= Cardinality(Tables)
      /\ Cardinality(Tables) \in Nat /\ Cardinality(Fds) \in Nat
    BY OnceLength, FdsFinite DEF BaseType, LockInv
<1>2. \A a, b, k \in Nat : a <= b => a * k <= b * k /\ a * k \in Nat
    OBVIOUS
<1> QED BY <1>1, <1>2 DEF MaxEntries

\* Each round is for an entry of a table in the list.
LEMMA EntryAt ==
    ASSUME BaseType, NEW n \in Nat \ {0}, n <= Len(fileTables) * Cardinality(Fds)
    PROVE  TableAt(n) \in Tables /\ Listed(TableAt(n)) /\ FdAt(n) \in Fds
<1>1. /\ Len(fileTables) \in Nat /\ Cardinality(Fds) \in Nat
      /\ DOMAIN fileTables = 1 .. Len(fileTables)
      /\ \A k \in 1 .. Len(fileTables) : fileTables[k] \in Tables
    BY FdsFinite, LenProperties, ElementOfSeq DEF BaseType
<1>2. PICK K : K = Cardinality(Fds)
    OBVIOUS
<1>3. K \in Nat \ {0}
    BY <1>1, <1>2
<1>9. K = MAX_OPEN_FILES - 3
    BY <1>2, <1>3, FdsFinite
<1>4. PICK q, r : q = (n - 1) \div K /\ r = (n - 1) % K
    OBVIOUS
<1>5. q \in Int /\ r \in 0 .. K - 1 /\ n - 1 = K * q + r
    <2>1. K \in Nat /\ K > 0
        BY <1>3
    <2>3. n \in Nat /\ n > 0
        OBVIOUS
    <2>4. n - 1 \in Nat
        BY <2>3
    <2>2. \A a, b \in Nat : b > 0 => /\ a \div b \in Nat /\ a % b \in 0 .. b - 1
                                     /\ a = b * (a \div b) + (a % b)
        OBVIOUS
    <2> QED BY <1>4, <2>1, <2>2, <2>4
<1>6. q \in 0 .. Len(fileTables) - 1
    <2>1. PICK L : L = Len(fileTables)
        OBVIOUS
    <2>2. K * q + r <= L * K - 1 /\ K * q + r >= 0 /\ L \in Nat
        BY <1>1, <1>2, <1>5, <2>1
    <2>3. q >= 0
        <3>1. CASE q <= -1
            <4>1. K * q <= -K
                BY <1>3, <1>5, <3>1
            <4> QED BY <1>3, <1>5, <2>2, <4>1
        <3> QED BY <1>5, <3>1
    <2>4. q < L
        <3>1. CASE q >= L
            <4>1. \A a, b, k \in Nat : a <= b => k * b >= a * k
                OBVIOUS
            <4>2. K * q >= L * K
                BY <1>3, <1>5, <2>2, <2>3, <3>1, <4>1
            <4> QED BY <1>3, <1>5, <2>2, <4>2
        <3> QED BY <1>5, <2>2, <3>1
    <2> QED BY <1>1, <1>5, <2>1, <2>3, <2>4
<1>7. TableAt(n) = fileTables[1 + q] /\ 1 + q \in 1 .. Len(fileTables)
    BY <1>1, <1>2, <1>4, <1>6 DEF TableAt
<1>8. FdAt(n) = 3 + r /\ 3 + r \in Fds
    <2>1. FdAt(n) = 3 + r
        BY <1>2, <1>4 DEF FdAt
    <2>2. 3 + r \in 3 .. MAX_OPEN_FILES - 1
        BY <1>5, <1>9, FilesystemAssumption
    <2> QED BY <2>1, <2>2 DEF Fds
<1> QED BY <1>1, <1>7, <1>8 DEF Listed

\* What giving up references leaves.
LEMMA ReleaseIs ==
    ASSUME BaseType, NEW n \in [Files -> Nat], Release(n)
    PROVE  /\ refs' \in [Files -> Nat] /\ parent' \in [Files -> Fs \cup {NoFs}]
           /\ late' \subseteq late
           /\ \A o \in Files :
                /\ refs[o] <= n[o] => refs'[o] = 0 /\ parent'[o] = NoFs
                /\ refs[o] > n[o] => refs'[o] = refs[o] - n[o] /\ parent'[o] = parent[o]
                /\ refs[o] > n[o] => (o \in late' <=> o \in late)
<1>1. \A o \in Files : refs[o] \in Nat /\ n[o] \in Nat
    BY DEF BaseType
<1>2. \A o \in Files : /\ refs'[o] = Max0(refs[o] - n[o])
                       /\ parent'[o] = IF refs[o] <= n[o] THEN NoFs ELSE parent[o]
    BY DEF Release
<1>3. \A o \in Files : /\ refs[o] <= n[o] => refs'[o] = 0
                       /\ refs[o] > n[o] => refs'[o] = refs[o] - n[o]
                       /\ refs'[o] \in Nat
    BY <1>1, <1>2 DEF Max0
<1>4. \A o \in Files : /\ refs[o] <= n[o] => parent'[o] = NoFs
                       /\ refs[o] > n[o] => parent'[o] = parent[o]
    BY <1>1, <1>2
<1>5. refs' \in [Files -> Nat]
    BY <1>3 DEF Release
<1>6. parent' \in [Files -> Fs \cup {NoFs}]
    BY DEF Release, BaseType
<1> QED BY <1>3, <1>4, <1>5, <1>6 DEF Release

\* One reference to a single file.
LEMMA OneIs ==
    ASSUME NEW o
    PROVE  /\ One(o) \in [Files -> Nat]
           /\ \A x \in Files : One(o)[x] = IF x = o THEN 1 ELSE 0
BY DEF One

\* The root is mounted and nothing is open.
LEMMA InitBaseType == Init => BaseType
<1> SUFFICES ASSUME Init PROVE BaseType
    OBVIOUS
<1>1. <<<<>>, 1>> \in Fs
    BY FilesystemAssumption DEF Fs
<1>2. filesystems \in [MountPoints -> Fs \cup {NoFs}]
    BY <1>1 DEF Init
<1>3. Idle \in Calls
    BY DEF Calls
<1>4. <<KernelTable>> \in Seq(Tables)
    BY FilesystemAssumption
<1> QED BY <1>2, <1>3, <1>4 DEF Init, BaseType, Callers

\* The calls the actions go on to.
LEMMA MakeCalls ==
    /\ Idle \in Calls
    /\ \A i \in Fds : [op |-> "open", fd |-> i] \in Calls
    /\ \A i \in Fds, f \in Fs, b \in BOOLEAN :
          [op |-> "resolved", fd |-> i, fs |-> f, late |-> b] \in Calls
    /\ \A i \in Fds, o \in Files : /\ [op |-> "created", fd |-> i, file |-> o] \in Calls
                                   /\ [op |-> "published", fd |-> i, file |-> o] \in Calls
    /\ \A o \in Files : [op |-> "use", file |-> o] \in Calls
    /\ \A T \in SUBSET MountPoints, b \in BOOLEAN, n \in 1 .. MaxEntries + 1 :
          [op |-> "scan", targets |-> T, force |-> b, entry |-> n] \in Calls
    /\ \A T \in SUBSET MountPoints, o \in Files, n \in 1 .. MaxEntries :
          [op |-> "close", targets |-> T, file |-> o, entry |-> n] \in Calls
    /\ \A T \in SUBSET MountPoints, b \in BOOLEAN, n \in 0 .. maxRetry - 1 :
          [op |-> "check", targets |-> T, force |-> b, tries |-> n] \in Calls
    /\ \A T \in SUBSET MountPoints : [op |-> "erase", targets |-> T] \in Calls
BY DEF Calls

\* A user and its table.
LEMMA UserIs ==
    ASSUME NEW t \in Users
    PROVE  t \in Callers /\ TableOf[t] \in Tables /\ t \notin Admins /\ t # NoThread
BY FilesystemAssumption DEF Callers

\* A thread that mounts and unmounts is no user.
LEMMA AdminIs ==
    ASSUME NEW t \in Admins
    PROVE  t \in Callers /\ t \notin Users /\ t # NoThread
BY FilesystemAssumption DEF Callers

\* What a call of open() that returns changes.
LEMMA ReturnIs ==
    ASSUME BaseType, NEW t \in Users, Return(t)
    PROVE  /\ call' \in [Callers -> Calls] /\ call'[t] = Idle
           /\ \A u \in Callers : u # t => call'[u] = call[u]
           /\ busy' \in [Tables -> Users \cup {NoThread}] /\ busy'[TableOf[t]] = NoThread
           /\ \A d \in Tables : d # TableOf[t] => busy'[d] = busy[d]
<1>1. Do(t, Idle) /\ t \in Callers /\ Idle \in Calls /\ TableOf[t] \in Tables
    BY UserIs, MakeCalls DEF Return
<1>2. /\ call' \in [Callers -> Calls] /\ call'[t] = Idle
      /\ \A u \in Callers : u # t => call'[u] = call[u]
    BY <1>1, DoIs
<1>3. /\ busy' \in [Tables -> Users \cup {NoThread}] /\ busy'[TableOf[t]] = NoThread
      /\ \A d \in Tables : d # TableOf[t] => busy'[d] = busy[d]
    BY <1>1 DEF Return, BaseType
<1> QED BY <1>2, <1>3

\* What storing a file in an entry changes.
LEMMA StoreIs ==
    ASSUME BaseType, NEW d \in Tables, NEW i \in Fds, NEW o \in Files \cup {NoFile},
           Store(d, i, o)
    PROVE  /\ files' \in [Tables -> [Fds -> Files \cup {NoFile}]]
           /\ files'[d][i] = o
           /\ \A e \in Tables, j \in Fds : e # d \/ j # i => files'[e][j] = files[e][j]
BY DEF Store, BaseType

-----------------------------------------------------------------------------
(* What each action changes *)

Moves(t, c) ==
    /\ c \in Calls /\ call' \in [Callers -> Calls] /\ call'[t] = c
    /\ \A u \in Callers : u # t => call'[u] = call[u]

Locks(t) ==
    /\ busy' \in [Tables -> Users \cup {NoThread}] /\ busy'[TableOf[t]] = t
    /\ \A d \in Tables : d # TableOf[t] => busy'[d] = busy[d]

Returns(t) ==
    /\ Moves(t, Idle)
    /\ busy' \in [Tables -> Users \cup {NoThread}] /\ busy'[TableOf[t]] = NoThread
    /\ \A d \in Tables : d # TableOf[t] => busy'[d] = busy[d]

Stores(d, i, o) ==
    /\ files' \in [Tables -> [Fds -> Files \cup {NoFile}]]
    /\ files'[d][i] = o
    /\ \A e \in Tables, j \in Fds : e # d \/ j # i => files'[e][j] = files[e][j]

CountsSame == parent' = parent /\ refs' = refs /\ late' = late
FilesSame  == CountsSame /\ files' = files /\ torn' = torn
MountsSame == filesystems' = filesystems /\ fileTables' = fileTables

\* open() locks its table, with an empty entry in hand.
LEMMA OpenEffect ==
    ASSUME BaseType, NEW t \in Openers, open(t)
    PROVE  \E i \in Fds :
              /\ t \in Users /\ call[t].op = "idle" /\ Listed(TableOf[t])
              /\ files[TableOf[t]][i] = NoFile /\ busy[TableOf[t]] = NoThread
              /\ Moves(t, [op |-> "open", fd |-> i]) /\ Locks(t)
              /\ MountsSame /\ FilesSame /\ mutex' = mutex
<1>1. PICK i \in Fds : /\ files[TableOf[t]][i] = NoFile
                       /\ Do(t, [op |-> "open", fd |-> i])
    BY DEF open
<1>2. t \in Users /\ t \in Callers /\ TableOf[t] \in Tables
    BY FilesystemAssumption, UserIs
<1>3. Moves(t, [op |-> "open", fd |-> i])
    BY <1>1, <1>2, MakeCalls, DoIs DEF Moves
<1>4. Locks(t)
    BY <1>2 DEF open, Locks, BaseType
<1> QED BY <1>1, <1>2, <1>3, <1>4 DEF open, Idle, MountsSame, FilesSame, CountsSame, manager

\* open() returns and unlocks its table.
LEMMA ReturnEffect ==
    ASSUME BaseType, NEW t \in Users, Return(t)
    PROVE  Returns(t)
BY ReturnIs, MakeCalls DEF Returns, Moves

\* resolvePath() finds no filesystem, or one that is mounted.
LEMMA ResolveEffect ==
    ASSUME BaseType, NEW t \in Users, openResolve(t)
    PROVE  /\ call[t].op = "open" /\ mutex = NoThread
           /\ \/ Returns(t)
              \/ /\ busy' = busy
                 /\ \E m \in Mounted :
                      Moves(t, [op |-> "resolved", fd |-> call[t].fd, fs |-> filesystems[m],
                                late |-> FALSE])
           /\ MountsSame /\ FilesSame /\ mutex' = mutex
<1>1. call[t].op = "open" /\ mutex = NoThread /\ MountsSame /\ FilesSame /\ mutex' = mutex
    BY DEF openResolve, MountsSame, FilesSame, CountsSame, manager
<1>2. PICK path \in Paths :
         LET r == resolvePath(Mounted, path) IN
         IF r.result < 0 THEN Return(t)
         ELSE /\ Do(t, [op |-> "resolved", fd |-> call[t].fd, fs |-> filesystems[r.fs],
                         late |-> FALSE])
              /\ UNCHANGED busy
    BY DEF openResolve
<1>3. CASE resolvePath(Mounted, path).result < 0
    BY <1>1, <1>2, <1>3, ReturnEffect
<1>4. CASE ~(resolvePath(Mounted, path).result < 0)
    <2>1. PICK m : m = resolvePath(Mounted, path).fs
        OBVIOUS
    <2>2. m \in Mounted
        BY <1>4, <2>1, ResolveMounted, FilesystemAssumption DEF Mounted, Dirs
    <2>3. filesystems[m] \in Fs
        BY <2>2 DEF Mounted, BaseType
    <2>4. t \in Callers /\ call[t] \in Calls /\ call[t].fd \in Fds
        BY <1>1, UserIs, CallFields DEF BaseType, OpenOps
    <2>5. Moves(t, [op |-> "resolved", fd |-> call[t].fd, fs |-> filesystems[m], late |-> FALSE])
        BY <1>2, <1>4, <2>1, <2>3, <2>4, MakeCalls, DoIs DEF Moves
    <2> QED BY <1>1, <1>2, <1>4, <2>2, <2>5
<1> QED BY <1>3, <1>4

\* FilesystemBase::open() fails, or makes a file that is late if its call is.
LEMMA CreateEffect ==
    ASSUME BaseType, NEW t \in Users, openCreate(t)
    PROVE  /\ call[t].op = "resolved" /\ MountsSame /\ files' = files /\ mutex' = mutex
           /\ \/ Returns(t) /\ FilesSame
              \/ \E o \in Files :
                   /\ Fresh(o)
                   /\ Moves(t, [op |-> "created", fd |-> call[t].fd, file |-> o])
                   /\ parent' \in [Files -> Fs \cup {NoFs}] /\ refs' \in [Files -> Nat]
                   /\ parent'[o] = call[t].fs /\ refs'[o] = 1
                   /\ \A x \in Files : x # o => parent'[x] = parent[x] /\ refs'[x] = refs[x]
                   /\ late' \subseteq late \cup {o} /\ late \subseteq late'
                   /\ call[t].late => o \in late'
                   /\ torn' = torn /\ busy' = busy
<1>1. call[t].op = "resolved" /\ MountsSame /\ files' = files /\ mutex' = mutex
    BY DEF openCreate, MountsSame, manager
<1>2. CASE Return(t) /\ UNCHANGED <<parent, refs, late, torn>>
    BY <1>1, <1>2, ReturnEffect DEF FilesSame, CountsSame
<1>3. CASE ~(Return(t) /\ UNCHANGED <<parent, refs, late, torn>>)
    <2>2. PICK o \in Files :
             /\ Fresh(o)
             /\ parent' = [parent EXCEPT ![o] = call[t].fs]
             /\ refs' = [refs EXCEPT ![o] = 1]
             /\ Do(t, [op |-> "created", fd |-> call[t].fd, file |-> o])
             /\ late' = IF call[t].late THEN late \cup {o} ELSE late
             /\ torn' = torn /\ busy' = busy
        BY <1>3 DEF openCreate
    <2>3. o \in Files /\ Fresh(o)
        BY <2>2
    <2>4. t \in Callers /\ call[t] \in Calls /\ call[t].fd \in Fds /\ call[t].fs \in Fs
        BY <1>1, UserIs, CallFields DEF BaseType, OpenOps
    <2>5. Moves(t, [op |-> "created", fd |-> call[t].fd, file |-> o])
        BY <2>2, <2>3, <2>4, MakeCalls, DoIs DEF Moves
    <2>6. /\ parent' \in [Files -> Fs \cup {NoFs}] /\ parent'[o] = call[t].fs
          /\ \A x \in Files : x # o => parent'[x] = parent[x]
        BY <2>2, <2>3, <2>4 DEF BaseType
    <2>7. /\ refs' \in [Files -> Nat] /\ refs'[o] = 1
          /\ \A x \in Files : x # o => refs'[x] = refs[x]
        BY <2>2, <2>3 DEF BaseType
    <2>8. /\ late' \subseteq late \cup {o} /\ late \subseteq late'
          /\ call[t].late => o \in late'
        BY <2>2
    <2> QED BY <1>1, <2>2, <2>3, <2>5, <2>6, <2>7, <2>8
<1> QED BY <1>2, <1>3

\* The entry points to the new file, before it is counted.
LEMMA PublishEffect ==
    ASSUME BaseType, NEW t \in Users, openPublish(t)
    PROVE  /\ call[t].op = "created" /\ MountsSame /\ CountsSame /\ torn' = torn
           /\ mutex' = mutex /\ busy' = busy
           /\ call[t].fd \in Fds /\ call[t].file \in Files
           /\ Stores(TableOf[t], call[t].fd, call[t].file)
           /\ Moves(t, [op |-> "published", fd |-> call[t].fd, file |-> call[t].file])
<1>1. t \in Callers /\ call[t] \in Calls /\ call[t].op = "created" /\ TableOf[t] \in Tables
    BY UserIs DEF openPublish, BaseType
<1>2. call[t].fd \in Fds /\ call[t].file \in Files
    BY <1>1, CallFields DEF OpenOps
<1>3. Moves(t, [op |-> "published", fd |-> call[t].fd, file |-> call[t].file])
    BY <1>1, <1>2, MakeCalls, DoIs DEF Moves, openPublish
<1>4. Stores(TableOf[t], call[t].fd, call[t].file)
    BY <1>1, <1>2, StoreIs DEF Stores, openPublish
<1> QED BY <1>1, <1>2, <1>3, <1>4 DEF openPublish, MountsSame, CountsSame, manager

\* The end of operator=: a count too few only for a file taken out meanwhile.
LEMMA CountEffect ==
    ASSUME BaseType, NEW t \in Users, openCount(t)
    PROVE  /\ call[t].op = "published" /\ call[t].fd \in Fds /\ call[t].file \in Files
           /\ Returns(t) /\ MountsSame /\ files' = files /\ torn' = torn /\ mutex' = mutex
           /\ \/ CountsSame
              \/ /\ files[TableOf[t]][call[t].fd] # call[t].file
                 /\ Release(One(call[t].file))
<1>1. t \in Callers /\ call[t] \in Calls /\ call[t].op = "published"
    BY UserIs DEF openCount, BaseType
<1>2. call[t].fd \in Fds /\ call[t].file \in Files
    BY <1>1, CallFields DEF OpenOps
<1>3. Returns(t)
    BY ReturnEffect DEF openCount
<1> QED BY <1>1, <1>2, <1>3 DEF openCount, MountsSame, CountsSame, manager

\* atomic_load() counts one reference to the file of an entry.
LEMMA UseEffect ==
    ASSUME BaseType, NEW t \in Users, use(t)
    PROVE  \E i \in Fds : LET o == files[TableOf[t]][i] IN
              /\ o \in Files /\ call[t].op = "idle" /\ Listed(TableOf[t])
              /\ refs' \in [Files -> Nat] /\ refs'[o] = refs[o] + 1
              /\ \A x \in Files : x # o => refs'[x] = refs[x]
              /\ Moves(t, [op |-> "use", file |-> o])
              /\ MountsSame /\ files' = files /\ parent' = parent /\ late' = late /\ torn' = torn
              /\ mutex' = mutex /\ busy' = busy
<1>1. PICK i \in Fds : LET o == files[TableOf[t]][i] IN
         /\ call[t] = Idle /\ Listed(TableOf[t]) /\ o # NoFile
         /\ getFile(o)
         /\ Do(t, [op |-> "use", file |-> o])
         /\ UNCHANGED <<manager, files, busy, parent, late, torn>>
    BY DEF use
<1>2. PICK o : o = files[TableOf[t]][i]
    OBVIOUS
<1>3. t \in Callers /\ TableOf[t] \in Tables
    BY UserIs
<1>4. o \in Files
    BY <1>1, <1>2, <1>3 DEF BaseType
<1>5. /\ refs' \in [Files -> Nat] /\ refs'[o] = refs[o] + 1
      /\ \A x \in Files : x # o => refs'[x] = refs[x]
    BY <1>1, <1>2, <1>4 DEF getFile, BaseType
<1>6. Moves(t, [op |-> "use", file |-> o])
    BY <1>1, <1>2, <1>3, <1>4, MakeCalls, DoIs DEF Moves
<1> QED BY <1>1, <1>2, <1>4, <1>5, <1>6 DEF Idle, MountsSame, manager

\* The end of an operation gives its reference up.
LEMMA UseEndEffect ==
    ASSUME BaseType, NEW t \in Users, useEnd(t)
    PROVE  /\ call[t].op = "use" /\ call[t].file \in Files
           /\ Release(One(call[t].file)) /\ Moves(t, Idle)
           /\ MountsSame /\ files' = files /\ torn' = torn /\ mutex' = mutex /\ busy' = busy
<1>1. t \in Callers /\ call[t] \in Calls /\ call[t].op = "use"
    BY UserIs DEF useEnd, BaseType
<1>2. call[t].file \in Files
    BY <1>1, CallFields
<1>3. Moves(t, Idle)
    BY <1>1, MakeCalls, DoIs DEF Moves, useEnd
<1> QED BY <1>1, <1>2, <1>3 DEF useEnd, MountsSame, manager

\* close() empties one entry and gives its reference up.
LEMMA CloseEffect ==
    ASSUME BaseType, NEW t \in Users, close(t)
    PROVE  \E i \in Fds : LET o == files[TableOf[t]][i] IN
              /\ o \in Files /\ Listed(TableOf[t])
              /\ torn' = IF Published(o) THEN torn \cup {o} ELSE torn
              /\ Stores(TableOf[t], i, NoFile) /\ Release(One(o))
              /\ MountsSame /\ mutex' = mutex /\ busy' = busy /\ call' = call
<1>1. PICK i \in Fds : LET o == files[TableOf[t]][i] IN
         /\ call[t] = Idle /\ Listed(TableOf[t]) /\ o # NoFile
         /\ Take(TableOf[t], i, o)
         /\ Release(One(o))
         /\ UNCHANGED <<manager, busy, call>>
    BY DEF close
<1>2. PICK o : o = files[TableOf[t]][i]
    OBVIOUS
<1>3. TableOf[t] \in Tables
    BY UserIs
<1>4. o \in Files
    BY <1>1, <1>2, <1>3 DEF BaseType
<1>5. Stores(TableOf[t], i, NoFile)
    BY <1>1, <1>3, StoreIs DEF Stores, Take
<1>6. torn' = IF Published(o) THEN torn \cup {o} ELSE torn
    BY <1>1, <1>2 DEF Take
<1> QED BY <1>1, <1>2, <1>4, <1>5, <1>6 DEF MountsSame, manager

\* ~FileDescriptorTable() empties one entry of a table not in the list.
LEMMA DestroyEffect ==
    ASSUME BaseType, NEW d \in Tables, DestroyEntry(d)
    PROVE  \E i \in Fds : LET o == files[d][i] IN
              /\ o \in Files /\ ~Listed(d)
              /\ Stores(d, i, NoFile) /\ Release(One(o))
              /\ MountsSame /\ torn' = torn /\ mutex' = mutex /\ busy' = busy /\ call' = call
<1>1. PICK i \in Fds :
         /\ ~Listed(d) /\ files[d][i] # NoFile
         /\ Store(d, i, NoFile)
         /\ Release(One(files[d][i]))
         /\ UNCHANGED <<manager, busy, call, torn>>
    BY DEF DestroyEntry
<1>2. files[d][i] \in Files
    BY <1>1 DEF BaseType
<1>3. Stores(d, i, NoFile)
    BY <1>1, StoreIs DEF Stores
<1> QED BY <1>1, <1>2, <1>3 DEF MountsSame, manager

\* A table is added to the list, which holds it once.
LEMMA AddEffect ==
    ASSUME BaseType, NEW d \in Tables, addFileDescriptorTable(d)
    PROVE  /\ ~Listed(d) /\ mutex = NoThread
           /\ fileTables' \in Seq(Tables) /\ (Once(fileTables) => Once(fileTables'))
           /\ \A e \in Tables : Listed(e)' <=> (Listed(e) \/ e = d)
           /\ FilesSame /\ filesystems' = filesystems /\ mutex' = mutex /\ busy' = busy /\ call' = call
<1>1. fileTables' = Append(fileTables, d) /\ ~Listed(d) /\ mutex = NoThread
    BY DEF addFileDescriptorTable
<1>2. PICK s, L : s = fileTables' /\ L = Len(fileTables)
    OBVIOUS
<1>3. /\ L \in Nat /\ DOMAIN fileTables = 1 .. L
      /\ s \in Seq(Tables) /\ DOMAIN s = 1 .. L + 1
      /\ s[L + 1] = d /\ \A k \in 1 .. L : s[k] = fileTables[k]
    BY <1>1, <1>2, LenProperties, AppendProperties DEF BaseType
<1>4. \A k \in 1 .. L + 1 : k \in 1 .. L \/ k = L + 1
    BY <1>3
<1>5. \A k \in 1 .. L : k \in 1 .. L + 1
    BY <1>3
<1>6. L + 1 \in 1 .. L + 1
    BY <1>3
<1>7. \A k \in 1 .. L : fileTables[k] # d
    BY <1>1, <1>3 DEF Listed
<1>8. Once(fileTables) => Once(s)
    BY <1>3, <1>4, <1>7 DEF Once
<1>9. ASSUME NEW e \in Tables
      PROVE  (\E k \in DOMAIN s : s[k] = e) <=> (Listed(e) \/ e = d)
    BY <1>3, <1>4, <1>5, <1>6 DEF Listed
<1>10. \A e \in Tables : Listed(e)' <=> (Listed(e) \/ e = d)
    BY <1>2, <1>9 DEF Listed
<1> QED BY <1>1, <1>2, <1>3, <1>8, <1>10
        DEF addFileDescriptorTable, FilesSame, CountsSame, Once

\* A table none of whose users is in a call is taken out of the list.
LEMMA RemoveEffect ==
    ASSUME BaseType, Once(fileTables), NEW d \in Tables, removeFileDescriptorTable(d)
    PROVE  /\ mutex = NoThread /\ \A t \in Users : TableOf[t] = d => call[t].op = "idle"
           /\ fileTables' \in Seq(Tables) /\ Once(fileTables')
           /\ \A e \in Tables : Listed(e)' <=> (Listed(e) /\ e # d)
           /\ FilesSame /\ filesystems' = filesystems /\ mutex' = mutex /\ busy' = busy /\ call' = call
<1>1. PICK n \in DOMAIN fileTables :
        /\ fileTables[n] = d
        /\ fileTables' = [k \in 1 .. Len(fileTables) - 1 |->
                            fileTables[IF k < n THEN k ELSE k + 1]]
    BY DEF removeFileDescriptorTable
<1>2. PICK s, L : s = fileTables' /\ L = Len(fileTables)
    OBVIOUS
<1>3. /\ L \in Nat /\ DOMAIN fileTables = 1 .. L /\ n \in 1 .. L
      /\ \A k \in 1 .. L : fileTables[k] \in Tables
    BY <1>1, <1>2, LenProperties, ElementOfSeq DEF BaseType
<1>4. DOMAIN s = 1 .. L - 1 /\ s = [k \in 1 .. L - 1 |-> fileTables[IF k < n THEN k ELSE k + 1]]
    BY <1>1, <1>2
<1>5. /\ \A k \in 1 .. L - 1 : k < n => k \in 1 .. L /\ s[k] = fileTables[k]
      /\ \A k \in 1 .. L - 1 : ~(k < n) => k + 1 \in 1 .. L /\ s[k] = fileTables[k + 1]
    BY <1>3, <1>4
<1>6. s \in Seq(Tables)
    <2>1. \A k \in 1 .. L - 1 : fileTables[IF k < n THEN k ELSE k + 1] \in Tables
        BY <1>3
    <2>2. L - 1 \in Nat
        BY <1>3
    <2> QED BY <1>4, <2>1, <2>2
<1>7. \A i, j \in 1 .. L : fileTables[i] = fileTables[j] => i = j
    BY <1>3 DEF Once
<1>8. ASSUME NEW i \in 1 .. L - 1, NEW j \in 1 .. L - 1, s[i] = s[j] PROVE i = j
    BY <1>3, <1>5, <1>7, <1>8
<1>9. ASSUME NEW k \in 1 .. L - 1 PROVE \E j \in 1 .. L : s[k] = fileTables[j] /\ j # n
    <2>1. CASE k < n
        BY <1>3, <1>5, <2>1
    <2>2. CASE ~(k < n)
        <3>1. k + 1 \in 1 .. L /\ k + 1 # n
            BY <1>3, <1>5, <2>2
        <3> QED BY <1>5, <2>2, <3>1
    <2> QED BY <2>1, <2>2
<1>10. ASSUME NEW j \in 1 .. L, j # n PROVE \E k \in 1 .. L - 1 : s[k] = fileTables[j]
    <2>1. CASE j < n
        <3>1. j \in 1 .. L - 1
            BY <1>3, <2>1
        <3> QED BY <1>5, <2>1, <3>1
    <2>2. CASE ~(j < n)
        <3>1. j - 1 \in 1 .. L - 1 /\ ~(j - 1 < n) /\ (j - 1) + 1 = j
            BY <1>3, <1>10, <2>2
        <3>2. s[j - 1] = fileTables[(j - 1) + 1]
            BY <1>5, <3>1
        <3> QED BY <3>1, <3>2
    <2> QED BY <2>1, <2>2
<1>11. ASSUME NEW e \in Tables
       PROVE  (\E k \in DOMAIN s : s[k] = e) <=> (Listed(e) /\ e # d)
    <2>1. ASSUME NEW k \in DOMAIN s, s[k] = e PROVE Listed(e) /\ e # d
        <3>1. PICK j \in 1 .. L : s[k] = fileTables[j] /\ j # n
            BY <1>4, <1>9
        <3> QED BY <1>1, <1>3, <1>7, <2>1, <3>1 DEF Listed
    <2>2. ASSUME Listed(e), e # d PROVE \E k \in DOMAIN s : s[k] = e
        <3>1. PICK j \in 1 .. L : fileTables[j] = e
            BY <1>3, <2>2 DEF Listed
        <3> QED BY <1>1, <1>4, <1>10, <2>2, <3>1
    <2> QED BY <2>1, <2>2
<1>12. \A e \in Tables : Listed(e)' <=> (Listed(e) /\ e # d)
    BY <1>2, <1>11 DEF Listed
<1>13. Once(fileTables')
    BY <1>2, <1>4, <1>8 DEF Once
<1> QED BY <1>2, <1>6, <1>12, <1>13
        DEF removeFileDescriptorTable, FilesSame, CountsSame, Idle

\* kmount() adds a new filesystem, with the mutex free.
LEMMA MountEffect ==
    ASSUME BaseType, NEW t \in Admins, NEW m \in MountPoints, kmount(t, m)
    PROVE  \E f \in Fs :
              /\ mutex = NoThread /\ m \notin Mounted /\ Unused(f)
              /\ filesystems' \in [MountPoints -> Fs \cup {NoFs}] /\ filesystems'[m] = f
              /\ \A n \in MountPoints : n # m => filesystems'[n] = filesystems[n]
              /\ FilesSame /\ fileTables' = fileTables
              /\ mutex' = mutex /\ busy' = busy /\ call' = call
<1>1. PICK f : f = CHOOSE x \in {m} \X (1 .. Objects) : Unused(x)
    OBVIOUS
<1>2. f \in {m} \X (1 .. Objects) /\ Unused(f)
    BY <1>1 DEF kmount
<1>3. f \in Fs
    BY <1>2 DEF Fs
<1>4. filesystems' = [filesystems EXCEPT ![m] = f]
    BY <1>1 DEF kmount
<1>5. /\ filesystems' \in [MountPoints -> Fs \cup {NoFs}] /\ filesystems'[m] = f
      /\ \A n \in MountPoints : n # m => filesystems'[n] = filesystems[n]
    BY <1>3, <1>4 DEF BaseType
<1> QED BY <1>2, <1>3, <1>5 DEF kmount, FilesSame, CountsSame

\* umount() marks the calls of open() that are past resolvePath().
Marked(u) ==
    /\ call'[u].op = "resolved" /\ call'[u].late
    /\ call'[u].fd = call[u].fd /\ call'[u].fs = call[u].fs

\* The beginning of umount().
LEMMA UmountEffect ==
    ASSUME BaseType, NEW t \in Admins, NEW m \in MountPoints, NEW force \in BOOLEAN,
           umount(t, m, force)
    PROVE  /\ call[t].op = "idle" /\ mutex = NoThread /\ mutex' = t
           /\ call' \in [Callers -> Calls]
           /\ call'[t] = [op |-> "scan", targets |-> FsToUmount(m), force |-> force, entry |-> 1]
           /\ \A u \in Callers : u # t =>
                /\ call[u].op = "resolved" => Marked(u)
                /\ call[u].op # "resolved" => call'[u] = call[u]
           /\ MountsSame /\ FilesSame /\ busy' = busy
<1>1. call' = [u \in Callers |->
                 IF u = t THEN [op |-> "scan", targets |-> FsToUmount(m), force |-> force, entry |-> 1]
                 ELSE IF call[u].op = "resolved" THEN [call[u] EXCEPT !.late = TRUE]
                 ELSE call[u]]
    BY DEF umount, Callers
<1>2. FsToUmount(m) \in SUBSET MountPoints /\ 1 \in 1 .. MaxEntries + 1
    BY FdsFinite DEF FsToUmount, Mounted
<1>3. [op |-> "scan", targets |-> FsToUmount(m), force |-> force, entry |-> 1] \in Calls
    BY <1>2, MakeCalls
<1>4. t \in Callers /\ \A u \in Callers : call[u] \in Calls
    BY AdminIs DEF BaseType
<1>5. ASSUME NEW u \in Callers, u # t, call[u].op = "resolved"
      PROVE  call'[u] \in Calls /\ Marked(u)
    <2>1. call'[u] = [call[u] EXCEPT !.late = TRUE]
        BY <1>1, <1>5
    <2>2. call[u] \in [op : {"resolved"}, fd : Fds, fs : Fs, late : BOOLEAN]
        BY <1>4, <1>5 DEF Calls, Idle
    <2>3. /\ call'[u] \in [op : {"resolved"}, fd : Fds, fs : Fs, late : BOOLEAN]
          /\ call'[u].late = TRUE /\ call'[u].op = call[u].op
          /\ call'[u].fd = call[u].fd /\ call'[u].fs = call[u].fs
        BY <2>1, <2>2
    <2>4. call'[u] \in Calls
        BY <2>3 DEF Calls
    <2> QED BY <1>5, <2>3, <2>4 DEF Marked
<1>6. call'[t] = [op |-> "scan", targets |-> FsToUmount(m), force |-> force, entry |-> 1]
    BY <1>1, <1>4
<1>7. \A u \in Callers : u # t /\ call[u].op # "resolved" => call'[u] = call[u]
    BY <1>1
<1>8. \A u \in Callers : call'[u] \in Calls
    BY <1>3, <1>4, <1>5, <1>6, <1>7
<1>9. call' \in [Callers -> Calls]
    BY <1>1, <1>8
<1>10. call[t].op = "idle" /\ mutex = NoThread /\ mutex' = t
    BY DEF umount, Idle
<1>11. MountsSame /\ FilesSame /\ busy' = busy
    BY DEF umount, MountsSame, FilesSame, CountsSame
<1> QED BY <1>5, <1>6, <1>7, <1>9, <1>10, <1>11

\* ... and leaves them where they are.
LEMMA UmountKeepsOps ==
    ASSUME BaseType, NEW t \in Admins, NEW m \in MountPoints, NEW force \in BOOLEAN,
           umount(t, m, force)
    PROVE  \A u \in Callers : u # t => call'[u].op = call[u].op
<1> SUFFICES ASSUME NEW u \in Callers, u # t PROVE call'[u].op = call[u].op
    OBVIOUS
<1>1. CASE call[u].op = "resolved"
    <2>1. Marked(u)
        BY <1>1, UmountEffect
    <2> QED BY <1>1, <2>1 DEF Marked
<1>2. CASE call[u].op # "resolved"
    BY <1>2, UmountEffect
<1> QED BY <1>1, <1>2

\* umount() returns.
Unlocks(t) == mutex' = NoThread /\ Moves(t, Idle)

\* One round of umount()'s loop: the loop ends, goes on, gives up or finds a
\* file to close.
LEMMA ScanEffect ==
    ASSUME BaseType, LockInv, NEW t \in Admins, umountScan(t)
    PROVE  LET c == call[t]
               o == files[TableAt(c.entry)][FdAt(c.entry)]
               L == Len(fileTables) * Cardinality(Fds)
           IN
           /\ c.op = "scan" /\ MountsSame /\ files' = files /\ parent' = parent
           /\ late' = late /\ torn' = torn /\ busy' = busy
           /\ \/ /\ FilesSame /\ mutex' = mutex
                 /\ Moves(t, [op |-> "check", targets |-> c.targets, force |-> c.force, tries |-> 0])
              \/ /\ FilesSame /\ mutex' = mutex /\ c.entry <= L
                 /\ Moves(t, [op |-> "scan", targets |-> c.targets, force |-> c.force,
                              entry |-> c.entry + 1])
              \/ FilesSame /\ Unlocks(t)
              \/ /\ mutex' = mutex /\ c.entry <= L /\ o \in Files /\ InTargets(o, c)
                 /\ refs' \in [Files -> Nat] /\ refs'[o] = refs[o] + 1
                 /\ \A x \in Files : x # o => refs'[x] = refs[x]
                 /\ Moves(t, [op |-> "close", targets |-> c.targets, file |-> o, entry |-> c.entry])
<1>1. PICK c, L : c = call[t] /\ L = Len(fileTables) * Cardinality(Fds)
    OBVIOUS
<1>2. PICK o : o = files[TableAt(c.entry)][FdAt(c.entry)]
    OBVIOUS
<1>3. /\ t \in Callers /\ c \in Calls /\ c.op = "scan"
    BY <1>1, AdminIs DEF umountScan, BaseType
<1>4. c.targets \in SUBSET MountPoints /\ c.force \in BOOLEAN /\ c.entry \in 1 .. MaxEntries + 1
    BY <1>3, CallFields DEF UmountOps
<1>5. L \in Nat /\ L <= MaxEntries /\ MaxEntries \in Nat
    BY <1>1, LoopRange, FdsFinite
<1>6. /\ MountsSame /\ files' = files /\ parent' = parent
      /\ late' = late /\ torn' = torn /\ busy' = busy
    BY DEF umountScan, MountsSame
<1>7. \/ /\ Do(t, [op |-> "check", targets |-> c.targets, force |-> c.force, tries |-> 0])
         /\ UNCHANGED <<mutex, refs>>
      \/ /\ c.entry <= L /\ Do(t, [c EXCEPT !.entry = c.entry + 1]) /\ UNCHANGED <<mutex, refs>>
      \/ Unlock(t) /\ UNCHANGED refs
      \/ /\ c.entry <= L /\ o # NoFile /\ InTargets(o, c) /\ getFile(o) /\ UNCHANGED mutex
         /\ Do(t, [op |-> "close", targets |-> c.targets, file |-> o, entry |-> c.entry])
    BY <1>1, <1>2 DEF umountScan
<1>8. CASE /\ Do(t, [op |-> "check", targets |-> c.targets, force |-> c.force, tries |-> 0])
           /\ UNCHANGED <<mutex, refs>>
    <2>1. Moves(t, [op |-> "check", targets |-> c.targets, force |-> c.force, tries |-> 0])
        <3>1. 0 \in 0 .. maxRetry - 1
            BY DEF maxRetry
        <3> QED BY <1>3, <1>4, <1>8, <3>1, MakeCalls, DoIs DEF Moves
    <2> QED BY <1>1, <1>3, <1>6, <1>8, <2>1 DEF FilesSame, CountsSame
<1>9. CASE c.entry <= L /\ Do(t, [c EXCEPT !.entry = c.entry + 1]) /\ UNCHANGED <<mutex, refs>>
    <2>1. PICK n : n = c.entry + 1
        OBVIOUS
    <2>2. n \in 1 .. MaxEntries + 1
        BY <1>4, <1>5, <1>9, <2>1
    <2>3. c \in [op : {"scan"}, targets : SUBSET MountPoints, force : BOOLEAN,
                 entry : 1 .. MaxEntries + 1]
        BY <1>3 DEF Calls, Idle
    <2>4. [c EXCEPT !.entry = n]
            = [op |-> "scan", targets |-> c.targets, force |-> c.force, entry |-> n]
        BY <2>3
    <2>5. Moves(t, [op |-> "scan", targets |-> c.targets, force |-> c.force, entry |-> n])
        BY <1>3, <1>4, <1>9, <2>1, <2>2, <2>4, MakeCalls, DoIs DEF Moves
    <2> QED BY <1>1, <1>3, <1>6, <1>9, <2>1, <2>5 DEF FilesSame, CountsSame
<1>10. CASE Unlock(t) /\ UNCHANGED refs
    <2>1. Unlocks(t)
        BY <1>3, <1>10, MakeCalls, DoIs DEF Moves, Unlock, Unlocks
    <2> QED BY <1>1, <1>3, <1>6, <1>10, <2>1 DEF FilesSame, CountsSame
<1>11. CASE /\ c.entry <= L /\ o # NoFile /\ InTargets(o, c) /\ getFile(o) /\ UNCHANGED mutex
            /\ Do(t, [op |-> "close", targets |-> c.targets, file |-> o, entry |-> c.entry])
    <2>1. c.entry \in Nat \ {0} /\ c.entry \in 1 .. MaxEntries
        BY <1>4, <1>5, <1>11
    <2>2. o \in Files
        BY <1>1, <1>2, <1>11, <2>1, EntryAt DEF BaseType
    <2>3. Moves(t, [op |-> "close", targets |-> c.targets, file |-> o, entry |-> c.entry])
        BY <1>3, <1>4, <1>11, <2>1, <2>2, MakeCalls, DoIs DEF Moves
    <2>4. /\ refs' \in [Files -> Nat] /\ refs'[o] = refs[o] + 1
          /\ \A x \in Files : x # o => refs'[x] = refs[x]
        BY <1>11, <2>2 DEF getFile, BaseType
    <2> QED BY <1>1, <1>2, <1>3, <1>6, <1>11, <2>2, <2>3, <2>4
<1> QED BY <1>7, <1>8, <1>9, <1>10, <1>11

\* The close() in a forced umount(): an entry of a listed table is emptied,
\* and the references of the entry and of the loop are given up.
LEMMA UmountCloseEffect ==
    ASSUME BaseType, LockInv, UmountInv, NEW t \in Admins, umountClose(t)
    PROVE  \E d \in Tables, i \in Fds, n \in [Files -> Nat] : LET c == call[t] IN
           /\ c.op = "close" /\ c.file \in Files
           /\ d = TableAt(c.entry) /\ i = FdAt(c.entry)
           /\ \A x \in Files : n[x] = (IF x = files[d][i] THEN 1 ELSE 0)
                                      + (IF x = c.file THEN 1 ELSE 0)
           /\ Release(n) /\ Stores(d, i, NoFile)
           /\ torn' = IF Published(files[d][i]) THEN torn \cup {files[d][i]} ELSE torn
           /\ Moves(t, [op |-> "scan", targets |-> c.targets, force |-> TRUE,
                        entry |-> c.entry + 1])
           /\ c.entry <= Len(fileTables) * Cardinality(Fds)
           /\ MountsSame /\ mutex' = mutex /\ busy' = busy
<1>1. PICK c, d, i : c = call[t] /\ d = TableAt(c.entry) /\ i = FdAt(c.entry)
    OBVIOUS
<1>2. PICK o : o = files[d][i]
    OBVIOUS
<1>3. t \in Callers /\ c \in Calls /\ c.op = "close"
    BY <1>1, AdminIs DEF umountClose, BaseType
<1>4. c.targets \in SUBSET MountPoints /\ c.file \in Files /\ c.entry \in 1 .. MaxEntries
    BY <1>3, CallFields DEF UmountOps
<1>5. c.entry <= Len(fileTables) * Cardinality(Fds)
    BY <1>1, <1>3 DEF UmountInv, UmountOps
<1>6. d \in Tables /\ i \in Fds
    <2>1. c.entry \in Nat \ {0}
        BY <1>4, FdsFinite
    <2> QED BY <1>1, <1>5, <2>1, EntryAt
<1>7. PICK n : n = [x \in Files |-> One(o)[x] + One(c.file)[x]]
    OBVIOUS
<1>8. /\ n \in [Files -> Nat]
      /\ \A x \in Files : n[x] = (IF x = o THEN 1 ELSE 0) + (IF x = c.file THEN 1 ELSE 0)
    <2>1. \A x \in Files : /\ One(o)[x] = IF x = o THEN 1 ELSE 0
                           /\ One(c.file)[x] = IF x = c.file THEN 1 ELSE 0
        BY OneIs
    <2> QED BY <1>7, <2>1
<1>9. Release(n)
    BY <1>1, <1>2, <1>7 DEF umountClose
<1>10. Stores(d, i, NoFile)
    BY <1>1, <1>6, StoreIs DEF umountClose, Stores, Take
<1>11. PICK e : e = c.entry + 1
    OBVIOUS
<1>12. e \in 1 .. MaxEntries + 1
    BY <1>4, <1>11, FdsFinite
<1>13. Moves(t, [op |-> "scan", targets |-> c.targets, force |-> TRUE, entry |-> e])
    <2>1. Do(t, [op |-> "scan", targets |-> c.targets, force |-> TRUE, entry |-> e])
        BY <1>1, <1>11 DEF umountClose
    <2> QED BY <1>3, <1>4, <1>12, <2>1, MakeCalls, DoIs DEF Moves
<1>14. torn' = IF Published(o) THEN torn \cup {o} ELSE torn
    BY <1>1, <1>2 DEF umountClose, Take
<1>15. MountsSame /\ mutex' = mutex /\ busy' = busy
    BY DEF umountClose, MountsSame, manager
<1> QED
    BY <1>1, <1>2, <1>3, <1>4, <1>5, <1>6, <1>8, <1>9, <1>10, <1>11, <1>13, <1>14, <1>15

\* areAllFilesClosed(): umount() is to remove, gives up or tries again.
LEMMA CheckEffect ==
    ASSUME BaseType, NEW t \in Admins, umountCheck(t)
    PROVE  LET c == call[t] IN
           /\ c.op = "check" /\ MountsSame /\ FilesSame /\ busy' = busy
           /\ \/ /\ areAllFilesClosed(c) /\ mutex' = mutex
                 /\ Moves(t, [op |-> "erase", targets |-> c.targets])
              \/ Unlocks(t)
              \/ /\ mutex' = mutex
                 /\ \E n \in 0 .. maxRetry - 1 :
                      Moves(t, [op |-> "check", targets |-> c.targets, force |-> c.force,
                                tries |-> n])
<1>1. PICK c : c = call[t]
    OBVIOUS
<1>2. t \in Callers /\ c \in Calls /\ c.op = "check"
    BY <1>1, AdminIs DEF umountCheck, BaseType
<1>3. c.targets \in SUBSET MountPoints /\ c.force \in BOOLEAN /\ c.tries \in 0 .. maxRetry - 1
    BY <1>2, CallFields DEF UmountOps
<1>4. MountsSame /\ FilesSame /\ busy' = busy
    BY DEF umountCheck, MountsSame, FilesSame, CountsSame
<1>5. \/ areAllFilesClosed(c) /\ Do(t, [op |-> "erase", targets |-> c.targets]) /\ UNCHANGED mutex
      \/ Unlock(t)
      \/ c.tries < maxRetry - 1 /\ Do(t, [c EXCEPT !.tries = c.tries + 1]) /\ UNCHANGED mutex
    BY <1>1 DEF umountCheck
<1>6. CASE areAllFilesClosed(c) /\ Do(t, [op |-> "erase", targets |-> c.targets]) /\ UNCHANGED mutex
    <2>1. Moves(t, [op |-> "erase", targets |-> c.targets])
        BY <1>2, <1>3, <1>6, MakeCalls, DoIs DEF Moves
    <2> QED BY <1>1, <1>2, <1>4, <1>6, <2>1
<1>7. CASE Unlock(t)
    <2>1. Unlocks(t)
        BY <1>2, <1>7, MakeCalls, DoIs DEF Moves, Unlock, Unlocks
    <2> QED BY <1>1, <1>2, <1>4, <2>1
<1>8. CASE c.tries < maxRetry - 1 /\ Do(t, [c EXCEPT !.tries = c.tries + 1]) /\ UNCHANGED mutex
    <2>1. PICK n : n = c.tries + 1
        OBVIOUS
    <2>2. n \in 0 .. maxRetry - 1
        BY <1>3, <1>8, <2>1 DEF maxRetry
    <2>3. c \in [op : {"check"}, targets : SUBSET MountPoints, force : BOOLEAN,
                 tries : 0 .. maxRetry - 1]
        BY <1>2 DEF Calls, Idle
    <2>4. [c EXCEPT !.tries = n]
            = [op |-> "check", targets |-> c.targets, force |-> c.force, tries |-> n]
        BY <2>3
    <2>5. Moves(t, [op |-> "check", targets |-> c.targets, force |-> c.force, tries |-> n])
        BY <1>2, <1>3, <1>8, <2>1, <2>2, <2>4, MakeCalls, DoIs DEF Moves
    <2> QED BY <1>1, <1>2, <1>4, <1>8, <2>2, <2>5
<1> QED BY <1>5, <1>6, <1>7, <1>8

\* The end of umount(): its filesystems are removed, no other.
LEMMA EraseEffect ==
    ASSUME BaseType, NEW t \in Admins, umountErase(t)
    PROVE  /\ call[t].op = "erase" /\ Unlocks(t) /\ FilesSame /\ busy' = busy
           /\ fileTables' = fileTables
           /\ filesystems' \in [MountPoints -> Fs \cup {NoFs}]
           /\ \A m \in MountPoints :
                filesystems'[m] = IF m \in call[t].targets THEN NoFs ELSE filesystems[m]
<1>1. t \in Callers
    BY AdminIs
<1>2. Unlocks(t)
    BY <1>1, MakeCalls, DoIs DEF Moves, Unlock, Unlocks, umountErase
<1>3. /\ filesystems' \in [MountPoints -> Fs \cup {NoFs}]
      /\ \A m \in MountPoints :
           filesystems'[m] = IF m \in call[t].targets THEN NoFs ELSE filesystems[m]
    BY DEF umountErase, BaseType
<1> QED BY <1>2, <1>3 DEF umountErase, FilesSame, CountsSame

\* A step of open() is one of its thread only, and so is one of read().
LEMMA UserMoves ==
    ASSUME BaseType, NEW t \in Users, openResolve(t) \/ openCreate(t) \/ use(t)
    PROVE  \A u \in Callers : u # t => call'[u] = call[u]
<1>1. ASSUME NEW c, call' = [call EXCEPT ![t] = c]
      PROVE  \A u \in Callers : u # t => call'[u] = call[u]
    BY <1>1 DEF BaseType
<1>2. CASE openResolve(t)
    BY <1>1, <1>2 DEF openResolve, Return, Do
<1>3. CASE openCreate(t)
    BY <1>1, <1>3 DEF openCreate, Return, Do
<1>4. CASE use(t)
    BY <1>1, <1>4 DEF use, Do
<1> QED BY <1>2, <1>3, <1>4

\* A step of umount() is one of its thread only.
LEMMA UmountMoves ==
    ASSUME BaseType, LockInv, UmountInv, NEW t \in Admins,
           umountScan(t) \/ umountClose(t) \/ umountCheck(t)
    PROVE  \A u \in Callers : u # t => call'[u] = call[u]
<1>1. CASE umountScan(t)
    BY <1>1, ScanEffect DEF Moves, Unlocks
<1>2. CASE umountCheck(t)
    BY <1>2, CheckEffect DEF Moves, Unlocks
<1>3. CASE umountClose(t)
    <2>1. Moves(t, [op |-> "scan", targets |-> call[t].targets, force |-> TRUE,
                    entry |-> call[t].entry + 1])
        BY <1>3, UmountCloseEffect
    <2> QED BY <2>1 DEF Moves
<1> QED BY <1>1, <1>2, <1>3

-----------------------------------------------------------------------------
(* Every step keeps the invariant *)

\* Types.
LEMMA NextBaseType ==
    ASSUME FilesystemInv, [Next]_vars
    PROVE  BaseType'
<1>1. ASSUME NEW t \in Openers, open(t) PROVE BaseType'
    BY <1>1, OpenEffect DEF FilesystemInv, BaseType, Moves, Locks, MountsSame, FilesSame, CountsSame
<1>2. ASSUME NEW t \in Users, openResolve(t) PROVE BaseType'
    BY <1>2, ResolveEffect DEF FilesystemInv, BaseType, Moves, Returns, MountsSame, FilesSame, CountsSame
<1>3. ASSUME NEW t \in Users, openCreate(t) PROVE BaseType'
    <2>1. late' \subseteq Files /\ torn' \subseteq Files
        BY <1>3, CreateEffect DEF FilesystemInv, BaseType, FilesSame, CountsSame
    <2>2. /\ call' \in [Callers -> Calls] /\ busy' \in [Tables -> Users \cup {NoThread}]
          /\ parent' \in [Files -> Fs \cup {NoFs}] /\ refs' \in [Files -> Nat]
        BY <1>3, CreateEffect DEF FilesystemInv, BaseType, FilesSame, CountsSame, Moves, Returns
    <2> QED BY <1>3, CreateEffect, <2>1, <2>2 DEF FilesystemInv, BaseType, MountsSame
<1>4. ASSUME NEW t \in Users, openPublish(t) PROVE BaseType'
    BY <1>4, PublishEffect DEF FilesystemInv, BaseType, Moves, Stores, MountsSame, CountsSame
<1>5. ASSUME NEW t \in Users, openCount(t) PROVE BaseType'
    <2>1. refs' \in [Files -> Nat] /\ parent' \in [Files -> Fs \cup {NoFs}] /\ late' \subseteq late
        <3>1. CASE CountsSame
            BY <3>1 DEF FilesystemInv, BaseType, CountsSame
        <3>2. CASE ~CountsSame
            <4>1. Release(One(call[t].file))
                BY <1>5, CountEffect, <3>2 DEF FilesystemInv
            <4> QED BY <4>1, OneIs, ReleaseIs DEF FilesystemInv
        <3> QED BY <3>1, <3>2
    <2> QED BY <1>5, CountEffect, <2>1 DEF FilesystemInv, BaseType, Moves, Returns, MountsSame
<1>6. ASSUME NEW t \in Users, use(t) PROVE BaseType'
    <2>1. /\ refs' \in [Files -> Nat] /\ call' \in [Callers -> Calls]
          /\ MountsSame /\ files' = files /\ parent' = parent /\ late' = late /\ torn' = torn
          /\ mutex' = mutex /\ busy' = busy
        BY <1>6, UseEffect DEF FilesystemInv, Moves
    <2> QED BY <2>1 DEF FilesystemInv, BaseType, MountsSame
<1>7. ASSUME NEW t \in Users, useEnd(t) PROVE BaseType'
    <2>1. refs' \in [Files -> Nat] /\ parent' \in [Files -> Fs \cup {NoFs}] /\ late' \subseteq late
        BY <1>7, UseEndEffect, OneIs, ReleaseIs DEF FilesystemInv
    <2> QED BY <1>7, UseEndEffect, <2>1 DEF FilesystemInv, BaseType, Moves, MountsSame
<1>8. ASSUME NEW t \in Users, close(t) PROVE BaseType'
    <2>1. PICK i \in Fds : LET o == files[TableOf[t]][i] IN
             /\ o \in Files /\ Stores(TableOf[t], i, NoFile) /\ Release(One(o))
             /\ torn' = IF Published(o) THEN torn \cup {o} ELSE torn
             /\ MountsSame /\ mutex' = mutex /\ busy' = busy /\ call' = call
        BY <1>8, CloseEffect DEF FilesystemInv
    <2>2. refs' \in [Files -> Nat] /\ parent' \in [Files -> Fs \cup {NoFs}] /\ late' \subseteq late
        BY <2>1, OneIs, ReleaseIs DEF FilesystemInv
    <2>3. torn' \subseteq Files
        BY <2>1 DEF FilesystemInv, BaseType
    <2> QED BY <2>1, <2>2, <2>3 DEF FilesystemInv, BaseType, Stores, MountsSame
<1>9. ASSUME NEW d \in Tables, addFileDescriptorTable(d) PROVE BaseType'
    BY <1>9, AddEffect DEF FilesystemInv, BaseType, FilesSame, CountsSame
<1>10. ASSUME NEW d \in Tables, removeFileDescriptorTable(d) PROVE BaseType'
    BY <1>10, RemoveEffect DEF FilesystemInv, LockInv, BaseType, FilesSame, CountsSame
<1>11. ASSUME NEW d \in Tables, DestroyEntry(d) PROVE BaseType'
    <2>1. PICK i \in Fds : LET o == files[d][i] IN
             /\ o \in Files /\ Stores(d, i, NoFile) /\ Release(One(o))
             /\ MountsSame /\ torn' = torn /\ mutex' = mutex /\ busy' = busy /\ call' = call
        BY <1>11, DestroyEffect DEF FilesystemInv
    <2>2. refs' \in [Files -> Nat] /\ parent' \in [Files -> Fs \cup {NoFs}] /\ late' \subseteq late
        BY <2>1, OneIs, ReleaseIs DEF FilesystemInv
    <2> QED BY <2>1, <2>2 DEF FilesystemInv, BaseType, Stores, MountsSame
<1>12. ASSUME NEW t \in Admins, NEW m \in MountPoints, kmount(t, m) PROVE BaseType'
    BY <1>12, MountEffect DEF FilesystemInv, BaseType, FilesSame, CountsSame
<1>13. ASSUME NEW t \in Admins, NEW m \in MountPoints, NEW force \in BOOLEAN,
              umount(t, m, force)
       PROVE BaseType'
    <2>1. /\ mutex' = t /\ call' \in [Callers -> Calls]
          /\ MountsSame /\ FilesSame /\ busy' = busy
        BY <1>13, UmountEffect DEF FilesystemInv
    <2> QED BY <2>1 DEF FilesystemInv, BaseType, MountsSame, FilesSame, CountsSame
<1>14. ASSUME NEW t \in Admins, umountScan(t) PROVE BaseType'
    <2>1. /\ MountsSame /\ files' = files /\ parent' = parent
          /\ late' = late /\ torn' = torn /\ busy' = busy
        BY <1>14, ScanEffect DEF FilesystemInv
    <2>2. refs' \in [Files -> Nat] /\ call' \in [Callers -> Calls]
          /\ mutex' \in Admins \cup {NoThread}
        BY <1>14, ScanEffect DEF FilesystemInv, BaseType, Moves, Unlocks, FilesSame, CountsSame
    <2> QED BY <2>1, <2>2 DEF FilesystemInv, BaseType, MountsSame
<1>15. ASSUME NEW t \in Admins, umountClose(t) PROVE BaseType'
    <2>1. PICK dd \in Tables, i \in Fds, n \in [Files -> Nat] :
             /\ Release(n) /\ Stores(dd, i, NoFile)
             /\ torn' = IF Published(files[dd][i]) THEN torn \cup {files[dd][i]} ELSE torn
             /\ Moves(t, [op |-> "scan", targets |-> call[t].targets, force |-> TRUE,
                          entry |-> call[t].entry + 1])
             /\ MountsSame /\ mutex' = mutex /\ busy' = busy
        BY <1>15, UmountCloseEffect DEF FilesystemInv
    <2>2. refs' \in [Files -> Nat] /\ parent' \in [Files -> Fs \cup {NoFs}] /\ late' \subseteq late
        BY <2>1, ReleaseIs DEF FilesystemInv
    <2>3. torn' \subseteq Files
        <3>1. Published(files[dd][i]) => files[dd][i] \in Files
            BY UserIs, CallFields DEF Published, FilesystemInv, BaseType
        <3> QED BY <2>1, <3>1 DEF FilesystemInv, BaseType
    <2> QED BY <2>1, <2>2, <2>3 DEF FilesystemInv, BaseType, Moves, Stores, MountsSame
<1>16. ASSUME NEW t \in Admins, umountCheck(t) PROVE BaseType'
    BY <1>16, CheckEffect DEF FilesystemInv, BaseType, Moves, Unlocks, MountsSame, FilesSame, CountsSame
<1>17. ASSUME NEW t \in Admins, umountErase(t) PROVE BaseType'
    BY <1>17, EraseEffect DEF FilesystemInv, BaseType, Moves, Unlocks, FilesSame, CountsSame
<1>18. CASE UNCHANGED vars
    BY <1>18 DEF FilesystemInv, BaseType, vars
<1> QED
    BY <1>1, <1>2, <1>3, <1>4, <1>5, <1>6, <1>7, <1>8, <1>9, <1>10, <1>11,
       <1>12, <1>13, <1>14, <1>15, <1>16, <1>17, <1>18
    DEF Next, OpenStep, UmountStep

\* Locks, when a user goes on ...
LEMMA UserKeepsLocks ==
    ASSUME LockInv, NEW t \in Users, fileTables' = fileTables, mutex' = mutex,
           \A u \in Callers : u # t => call'[u] = call[u],
           call'[t].op \in OpenOps \cup {"idle", "use"},
           call'[t].op \in OpenOps <=> busy'[TableOf[t]] = t,
           call'[t].op # "idle" => Listed(TableOf[t]),
           \A u \in Users : u # t => (busy'[TableOf[u]] = u <=> busy[TableOf[u]] = u)
    PROVE  LockInv'
<1>1. \A u \in Users : u \in Callers /\ (u # t => call'[u] = call[u])
    BY UserIs
<1>2. \A u \in Admins : u \in Callers /\ call'[u] = call[u]
    BY AdminIs
<1>3. \A u \in Users : Listed(TableOf[u])' <=> Listed(TableOf[u])
    BY DEF Listed
<1>4. ASSUME NEW u \in Users
      PROVE  /\ call'[u].op \in OpenOps \cup {"idle", "use"}
             /\ call'[u].op \in OpenOps <=> busy'[TableOf[u]] = u
             /\ call'[u].op # "idle" => Listed(TableOf[u])'
    <2>1. CASE u = t
        BY <1>3, <2>1
    <2>2. CASE u # t
        BY <1>1, <1>3, <2>2 DEF LockInv
    <2> QED BY <2>1, <2>2
<1> QED BY <1>2, <1>4 DEF LockInv

\* ... and when a thread in mount() or umount() does.
LEMMA AdminKeepsLocks ==
    ASSUME LockInv, NEW t \in Admins, fileTables' = fileTables, busy' = busy,
           \A u \in Callers : u # t => call'[u].op = call[u].op,
           call'[t].op \in UmountOps \cup {"idle"},
           call'[t].op \in UmountOps <=> mutex' = t,
           \A u \in Admins : u # t => (mutex' = u <=> mutex = u)
    PROVE  LockInv'
<1>1. \A u \in Users : u \in Callers /\ call'[u].op = call[u].op
    BY UserIs, AdminIs
<1>2. \A u \in Users : Listed(TableOf[u])' <=> Listed(TableOf[u])
    BY DEF Listed
<1>3. \A u \in Users : /\ call'[u].op \in OpenOps \cup {"idle", "use"}
                       /\ call'[u].op \in OpenOps <=> busy'[TableOf[u]] = u
                       /\ call'[u].op # "idle" => Listed(TableOf[u])'
    BY <1>1, <1>2 DEF LockInv
<1>4. ASSUME NEW u \in Admins
      PROVE  /\ call'[u].op \in UmountOps \cup {"idle"}
             /\ call'[u].op \in UmountOps <=> mutex' = u
    <2>1. CASE u = t
        BY <2>1
    <2>2. CASE u # t
        BY <2>2, AdminIs DEF LockInv
    <2> QED BY <2>1, <2>2
<1> QED BY <1>3, <1>4 DEF LockInv

\* open() returns and unlocks its table.
LEMMA ReturnKeepsLocks ==
    ASSUME BaseType, LockInv, NEW t \in Users, call[t].op \in OpenOps, Returns(t),
           fileTables' = fileTables, mutex' = mutex
    PROVE  LockInv'
<1>1. call'[t].op = "idle" /\ \A u \in Callers : u # t => call'[u] = call[u]
    BY DEF Returns, Moves, Idle
<1>2. busy[TableOf[t]] = t /\ busy'[TableOf[t]] = NoThread
    BY DEF LockInv, Returns
<1>3. \A u \in Users : u # t => (busy'[TableOf[u]] = u <=> busy[TableOf[u]] = u)
    BY <1>2, UserIs DEF Returns
<1> QED BY <1>1, <1>2, <1>3, UserIs, UserKeepsLocks DEF OpenOps

\* Locks.
LEMMA NextLockInv ==
    ASSUME FilesystemInv, [Next]_vars
    PROVE  LockInv'
<1>1. ASSUME NEW t \in Openers, open(t) PROVE LockInv'
    <2>1. BaseType /\ LockInv
        BY DEF FilesystemInv
    <2>2. PICK i \in Fds :
              /\ t \in Users /\ Listed(TableOf[t]) /\ busy[TableOf[t]] = NoThread
              /\ Moves(t, [op |-> "open", fd |-> i]) /\ Locks(t) /\ MountsSame /\ mutex' = mutex
        BY <1>1, OpenEffect, <2>1
    <2>3. \A u \in Users : u # t => (busy'[TableOf[u]] = u <=> busy[TableOf[u]] = u)
        BY <2>2, UserIs DEF Locks
    <2>4. call'[t].op = "open" /\ busy'[TableOf[t]] = t
        BY <2>2 DEF Moves, Locks
    <2> QED BY <2>1, <2>2, <2>3, <2>4, UserKeepsLocks DEF Moves, MountsSame, OpenOps
<1>2. ASSUME NEW t \in Users, openResolve(t) PROVE LockInv'
    <2>1. BaseType /\ LockInv
        BY DEF FilesystemInv
    <2>2. call[t].op = "open" /\ MountsSame /\ mutex' = mutex
        BY <1>2, ResolveEffect, <2>1
    <2>3. CASE Returns(t)
        BY <2>1, <2>2, <2>3, ReturnKeepsLocks DEF MountsSame, OpenOps
    <2>4. CASE ~Returns(t)
        <3>2. PICK m \in Mounted : /\ busy' = busy
                 /\ Moves(t, [op |-> "resolved", fd |-> call[t].fd, fs |-> filesystems[m],
                              late |-> FALSE])
            BY <1>2, ResolveEffect, <2>1, <2>4
        <3>1. busy' = busy /\ call'[t].op = "resolved"
              /\ \A u \in Callers : u # t => call'[u] = call[u]
            BY <3>2 DEF Moves
        <3> QED BY <2>1, <2>2, <3>1, UserKeepsLocks DEF MountsSame, OpenOps, LockInv
    <2> QED BY <2>3, <2>4
<1>3. ASSUME NEW t \in Users, openCreate(t) PROVE LockInv'
    <2>1. BaseType /\ LockInv
        BY DEF FilesystemInv
    <2>2. call[t].op = "resolved" /\ MountsSame /\ mutex' = mutex
        BY <1>3, CreateEffect, <2>1
    <2>3. CASE Returns(t)
        BY <2>1, <2>2, <2>3, ReturnKeepsLocks DEF MountsSame, OpenOps
    <2>4. CASE ~Returns(t)
        <3>2. PICK o \in Files : /\ busy' = busy
                 /\ Moves(t, [op |-> "created", fd |-> call[t].fd, file |-> o])
            BY <1>3, CreateEffect, <2>1, <2>4
        <3>1. busy' = busy /\ call'[t].op = "created"
              /\ \A u \in Callers : u # t => call'[u] = call[u]
            BY <3>2 DEF Moves
        <3> QED BY <2>1, <2>2, <3>1, UserKeepsLocks DEF MountsSame, OpenOps, LockInv
    <2> QED BY <2>3, <2>4
<1>4. ASSUME NEW t \in Users, openPublish(t) PROVE LockInv'
    <2>1. BaseType /\ LockInv
        BY DEF FilesystemInv
    <2>3. /\ call[t].op = "created" /\ MountsSame /\ mutex' = mutex /\ busy' = busy
          /\ Moves(t, [op |-> "published", fd |-> call[t].fd, file |-> call[t].file])
        BY <1>4, PublishEffect, <2>1
    <2>2. /\ call[t].op = "created" /\ MountsSame /\ mutex' = mutex /\ busy' = busy
          /\ call'[t].op = "published" /\ \A u \in Callers : u # t => call'[u] = call[u]
        BY <2>3 DEF Moves
    <2> QED BY <2>1, <2>2, UserKeepsLocks DEF MountsSame, OpenOps, LockInv
<1>5. ASSUME NEW t \in Users, openCount(t) PROVE LockInv'
    <2>1. BaseType /\ LockInv
        BY DEF FilesystemInv
    <2> QED BY <1>5, CountEffect, <2>1, ReturnKeepsLocks DEF MountsSame, OpenOps
<1>6. ASSUME NEW t \in Users, use(t) PROVE LockInv'
    <2>1. BaseType /\ LockInv
        BY DEF FilesystemInv
    <2>2. /\ call[t].op = "idle" /\ MountsSame /\ mutex' = mutex /\ busy' = busy
          /\ Listed(TableOf[t])
          /\ call'[t].op = "use" /\ \A u \in Callers : u # t => call'[u] = call[u]
        <3>1. PICK i \in Fds :
                 /\ call[t].op = "idle" /\ MountsSame /\ mutex' = mutex /\ busy' = busy
                 /\ Listed(TableOf[t])
                 /\ Moves(t, [op |-> "use", file |-> files[TableOf[t]][i]])
            BY <1>6, UseEffect, <2>1
        <3> QED BY <3>1 DEF Moves
    <2> QED BY <2>1, <2>2, UserKeepsLocks DEF MountsSame, OpenOps, LockInv
<1>7. ASSUME NEW t \in Users, useEnd(t) PROVE LockInv'
    <2>1. BaseType /\ LockInv
        BY DEF FilesystemInv
    <2>2. /\ call[t].op = "use" /\ MountsSame /\ mutex' = mutex /\ busy' = busy
          /\ call'[t].op = "idle" /\ \A u \in Callers : u # t => call'[u] = call[u]
        BY <1>7, UseEndEffect, <2>1 DEF Moves, Idle
    <2> QED BY <2>1, <2>2, UserKeepsLocks DEF MountsSame, OpenOps, LockInv
<1>8. ASSUME NEW t \in Users, close(t) PROVE LockInv'
    <2>1. BaseType /\ LockInv
        BY DEF FilesystemInv
    <2> QED BY <1>8, CloseEffect, <2>1, UserIs, AdminIs
            DEF LockInv, MountsSame, Listed
<1>9. ASSUME NEW d \in Tables, addFileDescriptorTable(d) PROVE LockInv'
    <2>1. BaseType /\ LockInv
        BY DEF FilesystemInv
    <2> QED BY <1>9, AddEffect, <2>1, UserIs, AdminIs
            DEF LockInv
<1>10. ASSUME NEW d \in Tables, removeFileDescriptorTable(d) PROVE LockInv'
    <2>1. BaseType /\ LockInv
        BY DEF FilesystemInv
    <2> QED BY <1>10, RemoveEffect, <2>1, UserIs, AdminIs
            DEF LockInv, UmountOps
<1>11. ASSUME NEW d \in Tables, DestroyEntry(d) PROVE LockInv'
    <2>1. BaseType /\ LockInv
        BY DEF FilesystemInv
    <2> QED BY <1>11, DestroyEffect, <2>1, UserIs, AdminIs
            DEF LockInv, MountsSame, Listed
<1>12. ASSUME NEW t \in Admins, NEW m \in MountPoints, kmount(t, m) PROVE LockInv'
    <2>1. BaseType /\ LockInv
        BY DEF FilesystemInv
    <2> QED BY <1>12, MountEffect, <2>1, UserIs, AdminIs
            DEF LockInv, Listed
<1>13. ASSUME NEW t \in Admins, NEW m \in MountPoints, NEW force \in BOOLEAN,
              umount(t, m, force)
       PROVE LockInv'
    <2>1. BaseType /\ LockInv
        BY DEF FilesystemInv
    <2>2. /\ call[t].op = "idle" /\ mutex = NoThread /\ mutex' = t
          /\ MountsSame /\ busy' = busy /\ call'[t].op = "scan"
        <3>1. /\ call[t].op = "idle" /\ mutex = NoThread /\ mutex' = t
              /\ MountsSame /\ busy' = busy
              /\ call'[t] = [op |-> "scan", targets |-> FsToUmount(m), force |-> force, entry |-> 1]
            BY <1>13, UmountEffect, <2>1
        <3> QED BY <3>1
    <2>3. \A u \in Callers : u # t => call'[u].op = call[u].op
        BY <1>13, <2>1, UmountKeepsOps
    <2> QED BY <2>1, <2>2, <2>3, AdminIs, AdminKeepsLocks DEF MountsSame, UmountOps
<1>14. ASSUME NEW t \in Admins, umountScan(t) PROVE LockInv'
    <2>1. BaseType /\ LockInv
        BY DEF FilesystemInv
    <2>2. /\ call[t].op = "scan" /\ fileTables' = fileTables /\ busy' = busy
          /\ \A u \in Callers : u # t => call'[u].op = call[u].op
        BY <1>14, ScanEffect, <2>1 DEF Moves, Unlocks, MountsSame
    <2>3. mutex = t /\ t # NoThread
        BY <2>1, <2>2, <1>14, AdminIs DEF LockInv, UmountOps
    <2>4. \/ mutex' = mutex /\ call'[t].op \in UmountOps
          \/ mutex' = NoThread /\ call'[t].op = "idle"
        <3>1. CASE Unlocks(t)
            BY <3>1 DEF Unlocks, Moves, Idle
        <3>2. CASE /\ mutex' = mutex
                   /\ Moves(t, [op |-> "check", targets |-> call[t].targets,
                                force |-> call[t].force, tries |-> 0])
            BY <3>2 DEF Moves, UmountOps
        <3>3. CASE /\ mutex' = mutex
                   /\ Moves(t, [op |-> "scan", targets |-> call[t].targets,
                                force |-> call[t].force, entry |-> call[t].entry + 1])
            BY <3>3 DEF Moves, UmountOps
        <3>4. CASE /\ mutex' = mutex
                   /\ Moves(t, [op |-> "close", targets |-> call[t].targets,
                                file |-> files[TableAt(call[t].entry)][FdAt(call[t].entry)],
                                entry |-> call[t].entry])
            BY <3>4 DEF Moves, UmountOps
        <3> QED BY <1>14, ScanEffect, <2>1, <3>1, <3>2, <3>3, <3>4
    <2> QED BY <2>1, <2>2, <2>3, <2>4, AdminIs, AdminKeepsLocks DEF UmountOps
<1>15. ASSUME NEW t \in Admins, umountClose(t) PROVE LockInv'
    <2>1. BaseType /\ LockInv
        BY DEF FilesystemInv
    <2>2. /\ call[t].op = "close" /\ fileTables' = fileTables /\ busy' = busy
          /\ \A u \in Callers : u # t => call'[u].op = call[u].op
        BY <1>15, UmountCloseEffect, <2>1 DEF FilesystemInv, Moves, Unlocks, MountsSame
    <2>3. mutex = t /\ t # NoThread
        BY <2>1, <2>2, <1>15, AdminIs DEF LockInv, UmountOps
    <2>4. \/ mutex' = mutex /\ call'[t].op \in UmountOps
          \/ mutex' = NoThread /\ call'[t].op = "idle"
        <3>1. /\ mutex' = mutex
              /\ Moves(t, [op |-> "scan", targets |-> call[t].targets, force |-> TRUE,
                           entry |-> call[t].entry + 1])
            BY <1>15, UmountCloseEffect DEF FilesystemInv
        <3> QED BY <3>1 DEF Moves, UmountOps
    <2> QED BY <2>1, <2>2, <2>3, <2>4, AdminIs, AdminKeepsLocks DEF UmountOps
<1>16. ASSUME NEW t \in Admins, umountCheck(t) PROVE LockInv'
    <2>1. BaseType /\ LockInv
        BY DEF FilesystemInv
    <2>2. /\ call[t].op = "check" /\ fileTables' = fileTables /\ busy' = busy
          /\ \A u \in Callers : u # t => call'[u].op = call[u].op
        BY <1>16, CheckEffect, <2>1 DEF Moves, Unlocks, MountsSame
    <2>3. mutex = t /\ t # NoThread
        BY <2>1, <2>2, <1>16, AdminIs DEF LockInv, UmountOps
    <2>4. \/ mutex' = mutex /\ call'[t].op \in UmountOps
          \/ mutex' = NoThread /\ call'[t].op = "idle"
        <3>1. CASE Unlocks(t)
            BY <3>1 DEF Unlocks, Moves, Idle
        <3>2. CASE mutex' = mutex /\ Moves(t, [op |-> "erase", targets |-> call[t].targets])
            BY <3>2 DEF Moves, UmountOps
        <3>3. ASSUME NEW n \in 0 .. maxRetry - 1, mutex' = mutex,
                     Moves(t, [op |-> "check", targets |-> call[t].targets,
                               force |-> call[t].force, tries |-> n])
              PROVE  mutex' = mutex /\ call'[t].op \in UmountOps
            BY <3>3 DEF Moves, UmountOps
        <3> QED BY <1>16, CheckEffect, <2>1, <3>1, <3>2, <3>3
    <2> QED BY <2>1, <2>2, <2>3, <2>4, AdminIs, AdminKeepsLocks DEF UmountOps
<1>17. ASSUME NEW t \in Admins, umountErase(t) PROVE LockInv'
    <2>1. BaseType /\ LockInv
        BY DEF FilesystemInv
    <2>2. /\ call[t].op = "erase" /\ fileTables' = fileTables /\ busy' = busy
          /\ \A u \in Callers : u # t => call'[u].op = call[u].op
        BY <1>17, EraseEffect, <2>1 DEF Moves, Unlocks, MountsSame
    <2>3. mutex = t /\ t # NoThread
        BY <2>1, <2>2, <1>17, AdminIs DEF LockInv, UmountOps
    <2>4. \/ mutex' = mutex /\ call'[t].op \in UmountOps
          \/ mutex' = NoThread /\ call'[t].op = "idle"
        BY <1>17, EraseEffect, <2>1 DEF Moves, Unlocks, Idle, UmountOps
    <2> QED BY <2>1, <2>2, <2>3, <2>4, AdminIs, AdminKeepsLocks DEF UmountOps
<1>18. CASE UNCHANGED vars
    BY <1>18 DEF FilesystemInv, LockInv, vars, Listed
<1> QED
    BY <1>1, <1>2, <1>3, <1>4, <1>5, <1>6, <1>7, <1>8, <1>9, <1>10, <1>11,
       <1>12, <1>13, <1>14, <1>15, <1>16, <1>17, <1>18
    DEF Next, OpenStep, UmountStep

\* Only the owner of the manager's mutex is inside umount().
LEMMA OneUmount ==
    ASSUME LockInv
    PROVE  /\ mutex = NoThread => \A u \in Admins : call[u].op \notin UmountOps
           /\ \A t, u \in Admins : call[t].op \in UmountOps /\ u # t => call[u].op \notin UmountOps
BY AdminIs DEF LockInv

\* The loop of umount() is not disturbed by users.
LEMMA UserKeepsUmount ==
    ASSUME UmountInv, MountsSame, \A u \in Admins : call'[u] = call[u]
    PROVE  UmountInv'
BY DEF UmountInv, MountsSame, Mounted

\* With the mutex free there is no loop of umount() to disturb.
LEMMA OutsideUmount ==
    ASSUME LockInv, mutex = NoThread, \A u \in Admins : call'[u] = call[u]
    PROVE  UmountInv'
BY OneUmount DEF UmountInv

\* umount() goes on.
LEMMA AdminKeepsUmount ==
    ASSUME BaseType, LockInv, NEW t \in Admins, MountsSame,
           mutex = NoThread \/ call[t].op \in UmountOps,
           \A u \in Admins : u # t => call'[u].op = call[u].op,
           call'[t].op \in UmountOps =>
             /\ call'[t].targets \subseteq Mounted
             /\ call'[t].op = "scan" => call'[t].entry <= Len(fileTables) * Cardinality(Fds) + 1
             /\ call'[t].op = "close" => call'[t].entry <= Len(fileTables) * Cardinality(Fds)
    PROVE  UmountInv'
<1>1. \A u \in Admins : u # t => call'[u].op \notin UmountOps
    BY OneUmount
<1>2. Mounted' = Mounted /\ fileTables' = fileTables
    BY DEF MountsSame, Mounted
<1> QED BY <1>1, <1>2 DEF UmountInv

\* The loops of umount().
LEMMA NextUmountInv ==
    ASSUME FilesystemInv, [Next]_vars
    PROVE  UmountInv'
<1>1. ASSUME NEW t \in Openers, open(t) PROVE UmountInv'
    <2>1. BaseType /\ LockInv /\ UmountInv
        BY DEF FilesystemInv
    <2>2. MountsSame /\ \A u \in Admins : call'[u] = call[u]
        BY <1>1, OpenEffect, <2>1, AdminIs, FilesystemAssumption DEF Moves, Returns
    <2> QED BY <2>1, <2>2, UserKeepsUmount
<1>2. ASSUME NEW t \in Users, openResolve(t) PROVE UmountInv'
    <2>1. BaseType /\ LockInv /\ UmountInv
        BY DEF FilesystemInv
    <2>2. MountsSame /\ \A u \in Admins : call'[u] = call[u]
        <3>1. MountsSame
            BY <1>2, ResolveEffect, <2>1
        <3>2. \A u \in Callers : u # t => call'[u] = call[u]
            BY <1>2, <2>1, UserMoves
        <3> QED BY <1>2, <3>1, <3>2, UserIs, AdminIs
    <2> QED BY <2>1, <2>2, UserKeepsUmount
<1>3. ASSUME NEW t \in Users, openCreate(t) PROVE UmountInv'
    <2>1. BaseType /\ LockInv /\ UmountInv
        BY DEF FilesystemInv
    <2>2. MountsSame /\ \A u \in Admins : call'[u] = call[u]
        <3>1. MountsSame
            BY <1>3, CreateEffect, <2>1
        <3>2. \A u \in Callers : u # t => call'[u] = call[u]
            BY <1>3, <2>1, UserMoves
        <3> QED BY <1>3, <3>1, <3>2, UserIs, AdminIs
    <2> QED BY <2>1, <2>2, UserKeepsUmount
<1>4. ASSUME NEW t \in Users, openPublish(t) PROVE UmountInv'
    <2>1. BaseType /\ LockInv /\ UmountInv
        BY DEF FilesystemInv
    <2>2. MountsSame /\ \A u \in Admins : call'[u] = call[u]
        BY <1>4, PublishEffect, <2>1, AdminIs, FilesystemAssumption DEF Moves, Returns
    <2> QED BY <2>1, <2>2, UserKeepsUmount
<1>5. ASSUME NEW t \in Users, openCount(t) PROVE UmountInv'
    <2>1. BaseType /\ LockInv /\ UmountInv
        BY DEF FilesystemInv
    <2>2. MountsSame /\ \A u \in Admins : call'[u] = call[u]
        BY <1>5, CountEffect, <2>1, AdminIs, FilesystemAssumption DEF Moves, Returns
    <2> QED BY <2>1, <2>2, UserKeepsUmount
<1>6. ASSUME NEW t \in Users, use(t) PROVE UmountInv'
    <2>1. BaseType /\ LockInv /\ UmountInv
        BY DEF FilesystemInv
    <2>2. MountsSame /\ \A u \in Admins : call'[u] = call[u]
        <3>1. MountsSame
            BY <1>6, UseEffect, <2>1
        <3>2. \A u \in Callers : u # t => call'[u] = call[u]
            BY <1>6, <2>1, UserMoves
        <3> QED BY <1>6, <3>1, <3>2, UserIs, AdminIs
    <2> QED BY <2>1, <2>2, UserKeepsUmount
<1>7. ASSUME NEW t \in Users, useEnd(t) PROVE UmountInv'
    <2>1. BaseType /\ LockInv /\ UmountInv
        BY DEF FilesystemInv
    <2>2. MountsSame /\ \A u \in Admins : call'[u] = call[u]
        BY <1>7, UseEndEffect, <2>1, AdminIs, FilesystemAssumption DEF Moves, Returns
    <2> QED BY <2>1, <2>2, UserKeepsUmount
<1>8. ASSUME NEW t \in Users, close(t) PROVE UmountInv'
    <2>1. BaseType /\ LockInv /\ UmountInv
        BY DEF FilesystemInv
    <2>2. MountsSame /\ \A u \in Admins : call'[u] = call[u]
        BY <1>8, CloseEffect, <2>1, AdminIs, FilesystemAssumption DEF Moves, Returns
    <2> QED BY <2>1, <2>2, UserKeepsUmount
<1>9. ASSUME NEW d \in Tables, addFileDescriptorTable(d) PROVE UmountInv'
    <2>1. BaseType /\ LockInv /\ UmountInv
        BY DEF FilesystemInv
    <2> QED BY <1>9, AddEffect, <2>1, OutsideUmount DEF LockInv
<1>10. ASSUME NEW d \in Tables, removeFileDescriptorTable(d) PROVE UmountInv'
    <2>1. BaseType /\ LockInv /\ UmountInv
        BY DEF FilesystemInv
    <2> QED BY <1>10, RemoveEffect, <2>1, OutsideUmount DEF LockInv
<1>11. ASSUME NEW d \in Tables, DestroyEntry(d) PROVE UmountInv'
    <2>1. BaseType /\ LockInv /\ UmountInv
        BY DEF FilesystemInv
    <2>2. MountsSame /\ \A u \in Admins : call'[u] = call[u]
        BY <1>11, DestroyEffect, <2>1, AdminIs, FilesystemAssumption DEF Moves, Returns
    <2> QED BY <2>1, <2>2, UserKeepsUmount
<1>12. ASSUME NEW t \in Admins, NEW m \in MountPoints, kmount(t, m) PROVE UmountInv'
    <2>1. BaseType /\ LockInv /\ UmountInv
        BY DEF FilesystemInv
    <2> QED BY <1>12, MountEffect, <2>1, OutsideUmount DEF LockInv
<1>13. ASSUME NEW t \in Admins, NEW m \in MountPoints, NEW force \in BOOLEAN,
              umount(t, m, force)
       PROVE UmountInv'
    <2>1. BaseType /\ LockInv /\ UmountInv
        BY DEF FilesystemInv
    <2>2. /\ mutex = NoThread /\ MountsSame
          /\ call'[t] = [op |-> "scan", targets |-> FsToUmount(m), force |-> force, entry |-> 1]
        BY <1>13, UmountEffect, <2>1
    <2>3. \A u \in Admins : u # t => call'[u].op = call[u].op
        BY <1>13, <2>1, AdminIs, UmountKeepsOps
    <2>4. call'[t].op = "scan" /\ call'[t].targets = FsToUmount(m) /\ call'[t].entry = 1
        BY <2>2
    <2>5. FsToUmount(m) \subseteq Mounted
        BY DEF FsToUmount
    <2>6. 1 <= Len(fileTables) * Cardinality(Fds) + 1
        BY <2>1, LoopRange
    <2> QED BY <1>13, <2>1, <2>2, <2>3, <2>4, <2>5, <2>6, AdminKeepsUmount
<1>14. ASSUME NEW t \in Admins, umountScan(t) PROVE UmountInv'
    <2>1. BaseType /\ LockInv /\ UmountInv
        BY DEF FilesystemInv
    <2>2. /\ call[t].op = "scan" /\ call[t].op \in UmountOps /\ MountsSame
          /\ \A u \in Admins : u # t => call'[u] = call[u]
        BY <1>14, ScanEffect, <2>1, AdminIs DEF Moves, Unlocks, UmountOps
    <2>3. call[t].targets \subseteq Mounted
        BY <1>14, <2>1, <2>2 DEF UmountInv
    <2>4. call[t].entry \in Nat /\ Len(fileTables) * Cardinality(Fds) \in Nat
        BY <1>14, <2>1, <2>2, AdminIs, CallFields, LoopRange, FdsFinite DEF BaseType
    <2>5. CASE Unlocks(t)
        <3>1. call'[t].op \notin UmountOps
            BY <2>5 DEF Unlocks, Moves, Idle, UmountOps
        <3> QED BY <1>14, <2>1, <2>2, <3>1, AdminKeepsUmount
    <2>6. CASE Moves(t, [op |-> "check", targets |-> call[t].targets,
                         force |-> call[t].force, tries |-> 0])
        <3>1. call'[t].op = "check" /\ call'[t].targets = call[t].targets
            BY <2>6 DEF Moves
        <3> QED BY <1>14, <2>1, <2>2, <2>3, <3>1, AdminKeepsUmount
    <2>7. CASE /\ call[t].entry <= Len(fileTables) * Cardinality(Fds)
               /\ Moves(t, [op |-> "scan", targets |-> call[t].targets,
                            force |-> call[t].force, entry |-> call[t].entry + 1])
        <3>1. /\ call'[t].op = "scan" /\ call'[t].targets = call[t].targets
              /\ call'[t].entry = call[t].entry + 1
            BY <2>7 DEF Moves
        <3>2. call'[t].entry <= Len(fileTables) * Cardinality(Fds) + 1
            BY <2>4, <2>7, <3>1
        <3> QED BY <1>14, <2>1, <2>2, <2>3, <3>1, <3>2, AdminKeepsUmount
    <2>8. CASE /\ call[t].entry <= Len(fileTables) * Cardinality(Fds)
               /\ Moves(t, [op |-> "close", targets |-> call[t].targets,
                            file |-> files[TableAt(call[t].entry)][FdAt(call[t].entry)],
                            entry |-> call[t].entry])
        <3>1. /\ call'[t].op = "close" /\ call'[t].targets = call[t].targets
              /\ call'[t].entry = call[t].entry
            BY <2>8 DEF Moves
        <3> QED BY <1>14, <2>1, <2>2, <2>3, <2>8, <3>1, AdminKeepsUmount
    <2> QED BY <1>14, ScanEffect, <2>1, <2>5, <2>6, <2>7, <2>8
<1>15. ASSUME NEW t \in Admins, umountClose(t) PROVE UmountInv'
    <2>1. BaseType /\ LockInv /\ UmountInv
        BY DEF FilesystemInv
    <2>2. /\ call[t].op = "close" /\ call[t].op \in UmountOps /\ MountsSame
          /\ \A u \in Admins : u # t => call'[u] = call[u]
        <3>1. call[t].op = "close" /\ MountsSame
            BY <1>15, UmountCloseEffect, <2>1
        <3> QED BY <1>15, <2>1, <3>1, AdminIs, UmountMoves DEF UmountOps
    <2>3. call[t].targets \subseteq Mounted
        BY <1>15, <2>1, <2>2 DEF UmountInv
    <2>4. call[t].entry \in Nat /\ Len(fileTables) * Cardinality(Fds) \in Nat
        BY <1>15, <2>1, <2>2, AdminIs, CallFields, LoopRange, FdsFinite DEF BaseType
    <2>5. /\ call[t].entry <= Len(fileTables) * Cardinality(Fds)
          /\ Moves(t, [op |-> "scan", targets |-> call[t].targets, force |-> TRUE,
                       entry |-> call[t].entry + 1])
        BY <1>15, UmountCloseEffect, <2>1
    <2>6. /\ call'[t].op = "scan" /\ call'[t].targets = call[t].targets
          /\ call'[t].entry = call[t].entry + 1
        BY <2>5 DEF Moves
    <2>7. call'[t].entry <= Len(fileTables) * Cardinality(Fds) + 1
        BY <2>4, <2>5, <2>6
    <2> QED BY <1>15, <2>1, <2>2, <2>3, <2>6, <2>7, AdminKeepsUmount
<1>16. ASSUME NEW t \in Admins, umountCheck(t) PROVE UmountInv'
    <2>1. BaseType /\ LockInv /\ UmountInv
        BY DEF FilesystemInv
    <2>2. /\ call[t].op = "check" /\ call[t].op \in UmountOps /\ MountsSame
          /\ \A u \in Admins : u # t => call'[u] = call[u]
        BY <1>16, CheckEffect, <2>1, AdminIs DEF Moves, Unlocks, UmountOps
    <2>3. call[t].targets \subseteq Mounted
        BY <1>16, <2>1, <2>2 DEF UmountInv
    <2>5. CASE Unlocks(t)
        <3>1. call'[t].op \notin UmountOps
            BY <2>5 DEF Unlocks, Moves, Idle, UmountOps
        <3> QED BY <1>16, <2>1, <2>2, <3>1, AdminKeepsUmount
    <2>6. CASE Moves(t, [op |-> "erase", targets |-> call[t].targets])
        <3>1. call'[t].op = "erase" /\ call'[t].targets = call[t].targets
            BY <2>6 DEF Moves
        <3> QED BY <1>16, <2>1, <2>2, <2>3, <3>1, AdminKeepsUmount
    <2>7. ASSUME NEW n \in 0 .. maxRetry - 1,
                 Moves(t, [op |-> "check", targets |-> call[t].targets,
                           force |-> call[t].force, tries |-> n])
          PROVE  UmountInv'
        <3>1. call'[t].op = "check" /\ call'[t].targets = call[t].targets
            BY <2>7 DEF Moves
        <3> QED BY <1>16, <2>1, <2>2, <2>3, <3>1, AdminKeepsUmount
    <2> QED BY <1>16, CheckEffect, <2>1, <2>5, <2>6, <2>7
<1>17. ASSUME NEW t \in Admins, umountErase(t) PROVE UmountInv'
    <2>1. BaseType /\ LockInv /\ UmountInv
        BY DEF FilesystemInv
    <2>2. call'[t].op = "idle" /\ call[t].op \in UmountOps
          /\ \A u \in Admins : u # t => call'[u] = call[u]
        BY <1>17, EraseEffect, <2>1, AdminIs DEF Moves, Unlocks, UmountOps, Idle
    <2>3. \A u \in Admins : call'[u].op \notin UmountOps
        BY <1>17, <2>1, <2>2, OneUmount DEF UmountOps
    <2> QED BY <2>3 DEF UmountInv
<1>18. CASE UNCHANGED vars
    BY <1>18 DEF FilesystemInv, UmountInv, vars, Mounted
<1> QED
    BY <1>1, <1>2, <1>3, <1>4, <1>5, <1>6, <1>7, <1>8, <1>9, <1>10, <1>11,
       <1>12, <1>13, <1>14, <1>15, <1>16, <1>17, <1>18
    DEF Next, OpenStep, UmountStep

\* Users are inside open() of a table one at a time.
LEMMA OneOpen ==
    ASSUME LockInv, NEW t \in Users, NEW u \in Users, TableOf[t] = TableOf[u],
           call[t].op \in OpenOps, call[u].op \in OpenOps
    PROVE  t = u
BY DEF LockInv

\* What is in an entry is alive, unless torn.
LEMMA EntryAlive ==
    ASSUME FilesystemInv, NEW d \in Tables, NEW i \in Fds, files[d][i] # NoFile
    PROVE  files[d][i] \in Files /\ (files[d][i] \in torn \/ Alive(files[d][i]))
<1>1. PICK o : o = files[d][i]
    OBVIOUS
<1>2. o \in Files
    BY <1>1 DEF FilesystemInv, BaseType
<1>3. o \in torn \/ (refs[o] = Holders(o) /\ (Alive(o) <=> refs[o] > 0))
    BY <1>2 DEF FilesystemInv, CountInv
<1>4. PICK E, C : /\ E = {e \in Tables \X Fds : files[e[1]][e[2]] = o}
                  /\ C = {t \in Users \cup Admins : /\ call[t].op \in {"created", "use", "close"}
                                                    /\ call[t].file = o}
    OBVIOUS
<1>5. Holders(o) = Cardinality(E) + Cardinality(C)
    BY <1>4 DEF Holders
<1>6. IsFiniteSet(Tables \X Fds) /\ IsFiniteSet(Users \cup Admins)
    BY FdsFinite, FilesystemAssumption, FS_Product, FS_Union
<1>7. IsFiniteSet(E) /\ IsFiniteSet(C)
    BY <1>4, <1>6, FS_Subset
<1>8. <<d, i>> \in E
    BY <1>1, <1>4
<1>9. Cardinality(E) \in Nat \ {0} /\ Cardinality(C) \in Nat
    BY <1>7, <1>8, FS_CardinalityType, FS_EmptySet
<1> QED BY <1>1, <1>2, <1>3, <1>5, <1>9

\* A user goes on without a file of its own.
LEMMA UserKeepsEntries ==
    ASSUME EntryInv, NEW t \in Users, files' = files, torn' = torn,
           \A u \in Users : u # t => call'[u] = call[u],
           \/ call'[t].op \in {"idle", "use"}
           \/ /\ call'[t].op \in {"open", "resolved"}
              /\ files[TableOf[t]][call'[t].fd] = NoFile
    PROVE  EntryInv'
<1>1. \A u \in Users : u # t => call'[u] = call[u]
    OBVIOUS
<1>2. \A u \in Users :
         /\ call'[u].op \in {"open", "resolved", "created"} =>
               files[TableOf[u]][call'[u].fd] = NoFile
         /\ call'[u].op = "created" /\ call'[u].file \notin torn =>
               \A d \in Tables, i \in Fds : files[d][i] # call'[u].file
         /\ call'[u].op = "published" =>
               files[TableOf[u]][call'[u].fd] = call'[u].file \/ call'[u].file \in torn
    BY DEF EntryInv
<1>3. \A x, u \in Users :
         call'[x].op \in {"created", "published"} /\ call'[u].op \in {"created", "published"}
         /\ call'[x].file = call'[u].file /\ call'[x].file \notin torn' => x = u
    BY DEF EntryInv
<1> QED BY <1>2, <1>3 DEF EntryInv

\* No user takes a step.
LEMMA OthersKeepEntries ==
    ASSUME EntryInv, files' = files, torn' = torn,
           \A u \in Users : call'[u] = call[u] \/ (call[u].op = "resolved" /\ Marked(u))
    PROVE  EntryInv'
<1>1. \A u \in Users : /\ call'[u].op = call[u].op
                       /\ call[u].op \in {"open", "resolved", "created"} => call'[u].fd = call[u].fd
                       /\ call[u].op \in {"created", "published"} => call'[u] = call[u]
    BY DEF Marked
<1>2. \A u \in Users :
         /\ call'[u].op \in {"open", "resolved", "created"} =>
               files[TableOf[u]][call'[u].fd] = NoFile
         /\ call'[u].op = "created" /\ call'[u].file \notin torn =>
               \A d \in Tables, i \in Fds : files[d][i] # call'[u].file
         /\ call'[u].op = "published" =>
               files[TableOf[u]][call'[u].fd] = call'[u].file \/ call'[u].file \in torn
    BY <1>1 DEF EntryInv
<1>3. \A x, u \in Users :
         call'[x].op \in {"created", "published"} /\ call'[u].op \in {"created", "published"}
         /\ call'[x].file = call'[u].file /\ call'[x].file \notin torn' => x = u
    BY <1>1 DEF EntryInv
<1> QED BY <1>2, <1>3 DEF EntryInv

\* An entry is emptied: of a file that is being published only when it is
\* torn.
LEMMA EmptyKeepsEntries ==
    ASSUME BaseType, EntryInv, NEW d \in Tables, NEW i \in Fds, Stores(d, i, NoFile),
           \A u \in Users : call'[u] = call[u],
           torn' = torn \/ (files[d][i] # NoFile /\ torn' = torn \cup {files[d][i]}),
           Published(files[d][i]) => files[d][i] \in torn'
    PROVE  EntryInv'
<1>2. /\ files'[d][i] = NoFile
      /\ \A e \in Tables, j \in Fds : e # d \/ j # i => files'[e][j] = files[e][j]
    BY DEF Stores
<1>3. \A e, x \in Tables, j, k \in Fds :
         files'[e][j] # NoFile /\ files'[e][j] \notin torn' /\ files'[e][j] = files'[x][k]
         => e = x /\ j = k
    BY <1>2 DEF EntryInv
<1>4. \A e \in Tables, j \in Fds : files'[e][j] = NoFile \/ files'[e][j] = files[e][j]
    BY <1>2
<1>8. ASSUME NEW u \in Users
      PROVE  /\ call'[u].op \in {"open", "resolved", "created"} =>
                   files'[TableOf[u]][call'[u].fd] = NoFile
             /\ call'[u].op = "created" /\ call'[u].file \notin torn' =>
                   \A e \in Tables, j \in Fds : files'[e][j] # call'[u].file
             /\ call'[u].op = "published" =>
                   files'[TableOf[u]][call'[u].fd] = call'[u].file \/ call'[u].file \in torn'
    <2>1. call'[u] = call[u] /\ TableOf[u] \in Tables /\ call[u] \in Calls
        BY UserIs DEF BaseType
    <2>2. /\ call[u].op \in OpenOps => call[u].fd \in Fds
          /\ call[u].op = "created" => call[u].file \in Files
        BY <2>1, CallFields
    <2>3. CASE call[u].op \in {"open", "resolved", "created"}
        <3>1. files'[TableOf[u]][call[u].fd] = NoFile
            BY <1>4, <2>1, <2>2, <2>3 DEF EntryInv, OpenOps
        <3>2. CASE call[u].op = "created"
            <4>1. call[u].file \notin torn' =>
                     \A e \in Tables, j \in Fds : files'[e][j] # call[u].file
                BY <1>4, <2>2, <3>2, FilesystemAssumption DEF EntryInv
            <4> QED BY <2>1, <3>1, <3>2, <4>1
        <3> QED BY <2>1, <2>3, <3>1, <3>2
    <2>4. CASE call[u].op = "published"
        <3>1. \/ files[TableOf[u]][call[u].fd] = call[u].file
              \/ call[u].file \in torn
            BY <2>4 DEF EntryInv
        <3>2. CASE TableOf[u] = d /\ call[u].fd = i /\ files[TableOf[u]][call[u].fd] = call[u].file
            <4>1. Published(files[d][i])
                BY <2>4, <3>2 DEF Published
            <4> QED BY <2>1, <2>4, <3>2, <4>1
        <3>3. CASE ~(TableOf[u] = d /\ call[u].fd = i) /\ files[TableOf[u]][call[u].fd] = call[u].file
            BY <1>2, <2>1, <2>2, <2>4, <3>3 DEF OpenOps
        <3>4. CASE call[u].file \in torn
            BY <2>1, <2>4, <3>4
        <3> QED BY <3>1, <3>2, <3>3, <3>4
    <2>5. CASE call[u].op \notin {"open", "resolved", "created", "published"}
        BY <2>1, <2>5
    <2> QED BY <2>3, <2>4, <2>5
<1>9. \A x, u \in Users :
         call'[x].op \in {"created", "published"} /\ call'[u].op \in {"created", "published"}
         /\ call'[x].file = call'[u].file /\ call'[x].file \notin torn' => x = u
    BY DEF EntryInv
<1> QED BY <1>3, <1>8, <1>9 DEF EntryInv

\* Nothing points to a deleted file that was not torn.
LEMMA FreshUnused ==
    ASSUME FilesystemInv, NEW o \in Files, Fresh(o), o \notin torn
    PROVE  /\ \A d \in Tables, i \in Fds : files[d][i] # o
           /\ \A t \in Callers : call[t].op \in {"created", "published", "use", "close"}
                                 => call[t].file # o
<1>1. \A d \in Tables, i \in Fds : files[d][i] # o
    BY EntryAlive, FilesystemAssumption DEF Fresh
<1>2. /\ BaseType /\ LockInv /\ EntryInv
      /\ refs[o] = Holders(o) /\ (Alive(o) <=> refs[o] > 0) /\ refs[o] \in Nat
    BY DEF FilesystemInv, CountInv, BaseType
<1>3. Holders(o) = 0
    BY <1>2 DEF Fresh
<1>4. PICK E, C : /\ E = {e \in Tables \X Fds : files[e[1]][e[2]] = o}
                  /\ C = {t \in Users \cup Admins : /\ call[t].op \in {"created", "use", "close"}
                                                    /\ call[t].file = o}
    OBVIOUS
<1>5. Holders(o) = Cardinality(E) + Cardinality(C)
    BY <1>4 DEF Holders
<1>6. IsFiniteSet(Tables \X Fds) /\ IsFiniteSet(Users \cup Admins)
    BY FdsFinite, FilesystemAssumption, FS_Product, FS_Union
<1>7. IsFiniteSet(E) /\ IsFiniteSet(C)
    BY <1>4, <1>6, FS_Subset
<1>8. Cardinality(E) \in Nat /\ Cardinality(C) \in Nat /\ (Cardinality(C) = 0 => C = {})
    BY <1>7, FS_CardinalityType, FS_EmptySet
<1>9. C = {}
    BY <1>3, <1>5, <1>8
<1>10. ASSUME NEW t \in Callers, call[t].op = "published", call[t].file = o PROVE FALSE
    <2>1. t \in Users
        BY <1>2, <1>10 DEF LockInv, UmountOps, Callers
    <2>2. TableOf[t] \in Tables /\ call[t].fd \in Fds
        BY <1>2, <1>10, <2>1, UserIs, CallFields DEF BaseType, OpenOps
    <2>3. files[TableOf[t]][call[t].fd] = o
        BY <1>2, <1>10, <2>1 DEF EntryInv
    <2> QED BY <1>1, <2>2, <2>3
<1> QED BY <1>1, <1>4, <1>9, <1>10 DEF Callers

\* Entries.
LEMMA NextEntryInv ==
    ASSUME FilesystemInv, [Next]_vars
    PROVE  EntryInv'
<1>1. ASSUME NEW t \in Openers, open(t) PROVE EntryInv'
    <2>1. BaseType /\ LockInv /\ UmountInv /\ EntryInv
        BY DEF FilesystemInv
    <2>2. PICK i \in Fds :
              /\ t \in Users /\ files[TableOf[t]][i] = NoFile
              /\ Moves(t, [op |-> "open", fd |-> i]) /\ FilesSame
        BY <1>1, OpenEffect, <2>1
    <2>3. call'[t].op = "open" /\ call'[t].fd = i /\ \A u \in Users : u # t => call'[u] = call[u]
        BY <2>2, UserIs DEF Moves
    <2> QED BY <2>1, <2>2, <2>3, UserKeepsEntries DEF FilesSame
<1>2. ASSUME NEW t \in Users, openResolve(t) PROVE EntryInv'
    <2>1. BaseType /\ LockInv /\ UmountInv /\ EntryInv
        BY DEF FilesystemInv
    <2>2. CASE Returns(t) /\ FilesSame
        <3>1. call'[t].op = "idle" /\ \A u \in Users : u # t => call'[u] = call[u]
            BY <2>2, UserIs DEF Returns, Moves, Idle
        <3> QED BY <1>2, <2>1, <2>2, <3>1, UserKeepsEntries DEF FilesSame
    <2>3. ASSUME NEW m \in Mounted,
                 Moves(t, [op |-> "resolved", fd |-> call[t].fd, fs |-> filesystems[m],
                           late |-> FALSE])
          PROVE  EntryInv'
        <3>1. /\ call'[t].op = "resolved" /\ call'[t].fd = call[t].fd
              /\ \A u \in Users : u # t => call'[u] = call[u]
            BY <2>3, UserIs DEF Moves
        <3>2. files[TableOf[t]][call[t].fd] = NoFile /\ FilesSame
            BY <1>2, ResolveEffect, <2>1 DEF EntryInv
        <3> QED BY <1>2, <2>1, <3>1, <3>2, UserKeepsEntries DEF FilesSame
    <2> QED BY <1>2, ResolveEffect, <2>1, <2>2, <2>3
<1>3. ASSUME NEW t \in Users, openCreate(t) PROVE EntryInv'
    <2>1. BaseType /\ LockInv /\ UmountInv /\ EntryInv
        BY DEF FilesystemInv
    <2>2. CASE Returns(t) /\ FilesSame
        <3>1. call'[t].op = "idle" /\ \A u \in Users : u # t => call'[u] = call[u]
            BY <2>2, UserIs DEF Returns, Moves, Idle
        <3> QED BY <1>3, <2>1, <2>2, <3>1, UserKeepsEntries DEF FilesSame
    <2>3. ASSUME NEW o \in Files, Fresh(o), torn' = torn,
                 Moves(t, [op |-> "created", fd |-> call[t].fd, file |-> o])
          PROVE  EntryInv'
        <3>1. /\ call'[t].op = "created" /\ call'[t].fd = call[t].fd /\ call'[t].file = o
              /\ \A u \in Users : u # t => call'[u] = call[u]
            BY <2>3, UserIs DEF Moves
        <3>2. files[TableOf[t]][call[t].fd] = NoFile /\ files' = files
            BY <1>3, CreateEffect, <2>1 DEF EntryInv
        <3>3. o \notin torn => \A d \in Tables, i \in Fds : files[d][i] # o
            BY <2>3, FreshUnused
        <3>4. o \notin torn =>
                 \A u \in Users : call[u].op \in {"created", "published"} => call[u].file # o
            BY <2>3, UserIs, FreshUnused
        <3>5. ASSUME NEW u \in Users
              PROVE  /\ call'[u].op \in {"open", "resolved", "created"} =>
                           files[TableOf[u]][call'[u].fd] = NoFile
                     /\ call'[u].op = "created" /\ call'[u].file \notin torn' =>
                           \A d \in Tables, i \in Fds : files[d][i] # call'[u].file
                     /\ call'[u].op = "published" =>
                           files[TableOf[u]][call'[u].fd] = call'[u].file \/ call'[u].file \in torn'
            <4>1. CASE u = t
                BY <2>3, <3>1, <3>2, <3>3, <4>1
            <4>2. CASE u # t
                BY <2>1, <2>3, <3>1, <3>4, <4>2 DEF EntryInv
            <4> QED BY <4>1, <4>2
        <3>6. \A x, u \in Users :
                 call'[x].op \in {"created", "published"} /\ call'[u].op \in {"created", "published"}
                 /\ call'[x].file = call'[u].file /\ call'[x].file \notin torn' => x = u
            BY <2>1, <2>3, <3>1, <3>4 DEF EntryInv
        <3>7. \A d, e \in Tables, i, j \in Fds :
                 files[d][i] # NoFile /\ files[d][i] \notin torn' /\ files[d][i] = files[e][j]
                 => d = e /\ i = j
            BY <2>1, <2>3 DEF EntryInv
        <3> QED BY <3>2, <3>5, <3>6, <3>7 DEF EntryInv
    <2> QED BY <1>3, CreateEffect, <2>1, <2>2, <2>3
<1>4. ASSUME NEW t \in Users, openPublish(t) PROVE EntryInv'
    <2>1. BaseType /\ LockInv /\ UmountInv /\ EntryInv
        BY DEF FilesystemInv
    <2>2. /\ call[t].op = "created" /\ torn' = torn
          /\ call[t].fd \in Fds /\ call[t].file \in Files
          /\ Stores(TableOf[t], call[t].fd, call[t].file)
          /\ Moves(t, [op |-> "published", fd |-> call[t].fd, file |-> call[t].file])
        BY <1>4, PublishEffect, <2>1
    <2>3. /\ call'[t].op = "published" /\ call'[t].fd = call[t].fd /\ call'[t].file = call[t].file
          /\ \A u \in Users : u # t => call'[u] = call[u]
        BY <2>2, UserIs DEF Moves
    <2>4. PICK d, i, o : d = TableOf[t] /\ i = call[t].fd /\ o = call[t].file
        OBVIOUS
    <2>5. /\ d \in Tables /\ i \in Fds /\ o \in Files /\ files'[d][i] = o
          /\ \A e \in Tables, j \in Fds : e # d \/ j # i => files'[e][j] = files[e][j]
        BY <1>4, <2>2, <2>4, UserIs DEF Stores
    <2>6. (o \notin torn => \A e \in Tables, j \in Fds : files[e][j] # o) /\ files[d][i] = NoFile
        BY <1>4, <2>1, <2>2, <2>4 DEF EntryInv
    <2>7. \A e, x \in Tables, j, k \in Fds :
             files'[e][j] # NoFile /\ files'[e][j] \notin torn' /\ files'[e][j] = files'[x][k]
             => e = x /\ j = k
        BY <2>1, <2>2, <2>5, <2>6 DEF EntryInv
    <2>8. ASSUME NEW u \in Users
          PROVE  /\ call'[u].op \in {"open", "resolved", "created"} =>
                       files'[TableOf[u]][call'[u].fd] = NoFile
                 /\ call'[u].op = "created" /\ call'[u].file \notin torn' =>
                       \A e \in Tables, j \in Fds : files'[e][j] # call'[u].file
                 /\ call'[u].op = "published" =>
                       files'[TableOf[u]][call'[u].fd] = call'[u].file \/ call'[u].file \in torn'
        <3>1. CASE u = t
            BY <2>3, <2>4, <2>5, <3>1
        <3>2. CASE u # t
            <4>1. call'[u] = call[u] /\ TableOf[u] \in Tables /\ call[u] \in Calls
                BY <2>1, <2>3, <3>2, UserIs DEF BaseType
            <4>2. call[u].op \in OpenOps => call[u].fd \in Fds /\ TableOf[u] # d
                BY <1>4, <2>1, <2>2, <2>4, <3>2, <4>1, CallFields, OneOpen DEF OpenOps
            <4>3. call[u].op \in OpenOps =>
                    files'[TableOf[u]][call[u].fd] = files[TableOf[u]][call[u].fd]
                BY <2>5, <4>1, <4>2
            <4>4. call[u].op = "created" /\ call[u].file \notin torn => call[u].file # o
                BY <1>4, <2>1, <2>2, <2>4, <3>2 DEF EntryInv
            <4>5. call[u].op = "created" /\ call[u].file \notin torn =>
                     \A e \in Tables, j \in Fds : files'[e][j] # call[u].file
                BY <2>1, <2>5, <4>4 DEF EntryInv
            <4> QED BY <2>1, <2>2, <4>1, <4>3, <4>5 DEF EntryInv, OpenOps
        <3> QED BY <3>1, <3>2
    <2>9. \A x, u \in Users :
             call'[x].op \in {"created", "published"} /\ call'[u].op \in {"created", "published"}
             /\ call'[x].file = call'[u].file /\ call'[x].file \notin torn' => x = u
        BY <2>1, <2>2, <2>3 DEF EntryInv
    <2> QED BY <2>7, <2>8, <2>9 DEF EntryInv
<1>5. ASSUME NEW t \in Users, openCount(t) PROVE EntryInv'
    <2>1. BaseType /\ LockInv /\ UmountInv /\ EntryInv
        BY DEF FilesystemInv
    <2>2. files' = files /\ torn' = torn /\ Returns(t)
        BY <1>5, CountEffect, <2>1
    <2>3. call'[t].op = "idle" /\ \A u \in Users : u # t => call'[u] = call[u]
        BY <2>2, UserIs DEF Returns, Moves, Idle
    <2> QED BY <1>5, <2>1, <2>2, <2>3, UserKeepsEntries
<1>6. ASSUME NEW t \in Users, use(t) PROVE EntryInv'
    <2>1. BaseType /\ LockInv /\ UmountInv /\ EntryInv
        BY DEF FilesystemInv
    <2>2. PICK i \in Fds : /\ Moves(t, [op |-> "use", file |-> files[TableOf[t]][i]])
                           /\ files' = files /\ torn' = torn
        BY <1>6, UseEffect, <2>1
    <2>3. call'[t].op = "use" /\ \A u \in Users : u # t => call'[u] = call[u]
        BY <2>2, UserIs DEF Moves
    <2> QED BY <1>6, <2>1, <2>2, <2>3, UserKeepsEntries
<1>7. ASSUME NEW t \in Users, useEnd(t) PROVE EntryInv'
    <2>1. BaseType /\ LockInv /\ UmountInv /\ EntryInv
        BY DEF FilesystemInv
    <2>2. files' = files /\ torn' = torn /\ Moves(t, Idle)
        BY <1>7, UseEndEffect, <2>1
    <2>3. call'[t].op = "idle" /\ \A u \in Users : u # t => call'[u] = call[u]
        BY <2>2, UserIs DEF Moves, Idle
    <2> QED BY <1>7, <2>1, <2>2, <2>3, UserKeepsEntries
<1>8. ASSUME NEW t \in Users, close(t) PROVE EntryInv'
    <2>1. BaseType /\ LockInv /\ UmountInv /\ EntryInv
        BY DEF FilesystemInv
    <2>2. PICK i \in Fds :
             /\ Stores(TableOf[t], i, NoFile) /\ files[TableOf[t]][i] \in Files /\ call' = call
             /\ torn' = IF Published(files[TableOf[t]][i]) THEN torn \cup {files[TableOf[t]][i]}
                        ELSE torn
        BY <1>8, CloseEffect, <2>1
    <2>3. files[TableOf[t]][i] # NoFile /\ TableOf[t] \in Tables
        BY <2>2, UserIs, FilesystemAssumption
    <2> QED BY <2>1, <2>2, <2>3, EmptyKeepsEntries
<1>9. ASSUME NEW d \in Tables, addFileDescriptorTable(d) PROVE EntryInv'
    <2>1. BaseType /\ LockInv /\ UmountInv /\ EntryInv
        BY DEF FilesystemInv
    <2>2. files' = files /\ torn' = torn /\ \A u \in Users : call'[u] = call[u]
        BY <1>9, AddEffect, <2>1, UserIs, AdminIs DEF Moves, Unlocks, FilesSame, LockInv
    <2> QED BY <2>1, <2>2, OthersKeepEntries
<1>10. ASSUME NEW d \in Tables, removeFileDescriptorTable(d) PROVE EntryInv'
    <2>1. BaseType /\ LockInv /\ UmountInv /\ EntryInv
        BY DEF FilesystemInv
    <2>2. files' = files /\ torn' = torn /\ \A u \in Users : call'[u] = call[u]
        BY <1>10, RemoveEffect, <2>1, UserIs, AdminIs DEF Moves, Unlocks, FilesSame, LockInv
    <2> QED BY <2>1, <2>2, OthersKeepEntries
<1>11. ASSUME NEW d \in Tables, DestroyEntry(d) PROVE EntryInv'
    <2>1. BaseType /\ LockInv /\ UmountInv /\ EntryInv
        BY DEF FilesystemInv
    <2>2. PICK i \in Fds : /\ Stores(d, i, NoFile) /\ files[d][i] \in Files /\ ~Listed(d)
                           /\ torn' = torn /\ call' = call
        BY <1>11, DestroyEffect, <2>1
    <2>3. Published(files[d][i]) => files[d][i] \in torn
        <3>1. SUFFICES ASSUME NEW u \in Users, call[u].op = "published", call[u].file = files[d][i],
                              files[d][i] \notin torn
                       PROVE  FALSE
            BY DEF Published
        <3>2. TableOf[u] \in Tables /\ call[u].fd \in Fds
            BY <2>1, <3>1, UserIs, CallFields DEF BaseType, OpenOps
        <3>3. files[TableOf[u]][call[u].fd] = files[d][i]
            BY <1>11, <2>1, <3>1 DEF EntryInv
        <3>4. files[d][i] # NoFile
            BY <2>2, FilesystemAssumption
        <3>5. TableOf[u] = d
            BY <1>11, <2>1, <3>1, <3>2, <3>3, <3>4 DEF EntryInv
        <3>6. Listed(TableOf[u])
            BY <2>1, <3>1 DEF LockInv
        <3> QED BY <2>2, <3>5, <3>6
    <2> QED BY <1>11, <2>1, <2>2, <2>3, EmptyKeepsEntries
<1>12. ASSUME NEW t \in Admins, NEW m \in MountPoints, kmount(t, m) PROVE EntryInv'
    <2>1. BaseType /\ LockInv /\ UmountInv /\ EntryInv
        BY DEF FilesystemInv
    <2>2. files' = files /\ torn' = torn /\ \A u \in Users : call'[u] = call[u]
        BY <1>12, MountEffect, <2>1, UserIs, AdminIs DEF Moves, Unlocks, FilesSame, LockInv
    <2> QED BY <2>1, <2>2, OthersKeepEntries
<1>13. ASSUME NEW t \in Admins, NEW m \in MountPoints, NEW force \in BOOLEAN,
              umount(t, m, force)
       PROVE EntryInv'
    <2>1. BaseType /\ LockInv /\ UmountInv /\ EntryInv
        BY DEF FilesystemInv
    <2>2. files' = files /\ torn' = torn
        BY <1>13, UmountEffect, <2>1 DEF FilesSame
    <2>3. \A u \in Users : call'[u] = call[u] \/ (call[u].op = "resolved" /\ Marked(u))
        BY <1>13, UmountEffect, <2>1, UserIs, AdminIs
    <2> QED BY <2>1, <2>2, <2>3, OthersKeepEntries
<1>14. ASSUME NEW t \in Admins, umountScan(t) PROVE EntryInv'
    <2>1. BaseType /\ LockInv /\ UmountInv /\ EntryInv
        BY DEF FilesystemInv
    <2>2. files' = files /\ torn' = torn
        BY <1>14, ScanEffect, <2>1 DEF FilesSame
    <2>3. \A u \in Users : call'[u] = call[u]
        BY <1>14, <2>1, UserIs, AdminIs, UmountMoves
    <2> QED BY <2>1, <2>2, <2>3, OthersKeepEntries
<1>15. ASSUME NEW t \in Admins, umountClose(t) PROVE EntryInv'
    <2>1. BaseType /\ LockInv /\ UmountInv /\ EntryInv
        BY DEF FilesystemInv
    <2>2. PICK d \in Tables, i \in Fds :
             /\ Stores(d, i, NoFile)
             /\ torn' = IF Published(files[d][i]) THEN torn \cup {files[d][i]} ELSE torn
             /\ Moves(t, [op |-> "scan", targets |-> call[t].targets, force |-> TRUE,
                          entry |-> call[t].entry + 1])
        BY <1>15, UmountCloseEffect, <2>1
    <2>3. \A u \in Users : call'[u] = call[u]
        BY <1>15, <2>2, UserIs, AdminIs DEF Moves
    <2>4. Published(files[d][i]) => files[d][i] # NoFile
        BY <2>1, UserIs, CallFields, FilesystemAssumption DEF Published, BaseType
    <2> QED BY <2>1, <2>2, <2>3, <2>4, EmptyKeepsEntries
<1>16. ASSUME NEW t \in Admins, umountCheck(t) PROVE EntryInv'
    <2>1. BaseType /\ LockInv /\ UmountInv /\ EntryInv
        BY DEF FilesystemInv
    <2>2. files' = files /\ torn' = torn
        BY <1>16, CheckEffect, <2>1 DEF FilesSame
    <2>3. \A u \in Users : call'[u] = call[u]
        BY <1>16, <2>1, UserIs, AdminIs, UmountMoves
    <2> QED BY <2>1, <2>2, <2>3, OthersKeepEntries
<1>17. ASSUME NEW t \in Admins, umountErase(t) PROVE EntryInv'
    <2>1. BaseType /\ LockInv /\ UmountInv /\ EntryInv
        BY DEF FilesystemInv
    <2>2. files' = files /\ torn' = torn /\ \A u \in Users : call'[u] = call[u]
        BY <1>17, EraseEffect, <2>1, UserIs, AdminIs DEF Moves, Unlocks, FilesSame, LockInv
    <2> QED BY <2>1, <2>2, OthersKeepEntries
<1>18. CASE UNCHANGED vars
    BY <1>18, OthersKeepEntries DEF FilesystemInv, vars
<1> QED
    BY <1>1, <1>2, <1>3, <1>4, <1>5, <1>6, <1>7, <1>8, <1>9, <1>10, <1>11,
       <1>12, <1>13, <1>14, <1>15, <1>16, <1>17, <1>18
    DEF Next, OpenStep, UmountStep

-----------------------------------------------------------------------------
(* Counting references *)

\* An entry that points to a file, a call that does, and how many there are.
InEntry(F, o)   == \E d \in Tables, i \in Fds : F[d][i] = o
Holds(C, t, o)  == /\ t \in Callers /\ C[t].op \in {"created", "use", "close"}
                   /\ C[t].file = o
EntriesOf(F, o) == {e \in Tables \X Fds : F[e[1]][e[2]] = o}
CallsOf(C, o)   == {t \in Callers : Holds(C, t, o)}
B(x)            == IF x THEN 1 ELSE 0

\* A file that is in one entry at most is in one or in none.
LEMMA EntriesSize ==
    ASSUME NEW F, NEW o,
           \A d, e \in Tables, i, j \in Fds : F[d][i] = o /\ F[e][j] = o => d = e /\ i = j
    PROVE  Cardinality(EntriesOf(F, o)) = B(InEntry(F, o))
<1>1. CASE InEntry(F, o)
    <2>1. PICK d \in Tables, i \in Fds : F[d][i] = o
        BY <1>1 DEF InEntry
    <2>2. EntriesOf(F, o) = {<<d, i>>}
        BY <2>1 DEF EntriesOf
    <2> QED BY <1>1, <2>2, FS_Singleton DEF B
<1>2. CASE ~InEntry(F, o)
    <2>1. EntriesOf(F, o) = {}
        BY <1>2 DEF EntriesOf, InEntry
    <2> QED BY <1>2, <2>1, FS_EmptySet DEF B
<1> QED BY <1>1, <1>2

\* The calls that point to a file are t's and those of the other threads.
LEMMA CallsSize ==
    ASSUME NEW C, NEW t, NEW o
    PROVE  /\ Cardinality(CallsOf(C, o) \ {t}) \in Nat
           /\ Cardinality(CallsOf(C, o)) = Cardinality(CallsOf(C, o) \ {t}) + B(Holds(C, t, o))
<1>1. IsFiniteSet(Callers)
    BY FilesystemAssumption, FS_Union DEF Callers
<1>2. IsFiniteSet(CallsOf(C, o)) /\ IsFiniteSet(CallsOf(C, o) \ {t})
    BY <1>1, FS_Subset DEF CallsOf
<1>3. Cardinality(CallsOf(C, o) \ {t}) \in Nat /\ Cardinality(CallsOf(C, o)) \in Nat
    BY <1>2, FS_CardinalityType
<1>4. CASE Holds(C, t, o)
    <2>1. t \in CallsOf(C, o)
        BY <1>4 DEF CallsOf, Holds
    <2>2. Cardinality(CallsOf(C, o) \ {t}) = Cardinality(CallsOf(C, o)) - 1
        BY <1>2, <2>1, FS_RemoveElement
    <2> QED BY <1>3, <1>4, <2>2 DEF B
<1>5. CASE ~Holds(C, t, o)
    <2>1. CallsOf(C, o) \ {t} = CallsOf(C, o)
        BY <1>5 DEF CallsOf
    <2> QED BY <1>3, <1>5, <2>1 DEF B
<1> QED BY <1>4, <1>5

\* How a step of one thread changes the number of holders.
LEMMA HoldersChange ==
    ASSUME EntryInv, EntryInv', NEW o \in Files, o \notin torn, o \notin torn', NEW t,
           \A u \in Callers : u # t => (Holds(call', u, o) <=> Holds(call, u, o))
    PROVE  \E k \in Nat : /\ Holders(o)  = B(InEntry(files, o)) + (k + B(Holds(call, t, o)))
                          /\ Holders(o)' = B(InEntry(files', o)) + (k + B(Holds(call', t, o)))
<1>1. o # NoFile
    BY FilesystemAssumption
<1>2. Cardinality(EntriesOf(files, o)) = B(InEntry(files, o))
    BY <1>1, EntriesSize DEF EntryInv
<1>3. Cardinality(EntriesOf(files', o)) = B(InEntry(files', o))
    <2>1. \A d, e \in Tables, i, j \in Fds :
             files'[d][i] = o /\ files'[e][j] = o => d = e /\ i = j
        BY <1>1 DEF EntryInv
    <2> QED BY <2>1, EntriesSize
<1>4. CallsOf(call', o) \ {t} = CallsOf(call, o) \ {t}
    BY DEF CallsOf
<1>5. PICK k : k = Cardinality(CallsOf(call, o) \ {t})
    OBVIOUS
<1>6. k \in Nat /\ Cardinality(CallsOf(call, o)) = k + B(Holds(call, t, o))
    BY <1>5, CallsSize
<1>7. Cardinality(CallsOf(call', o)) = k + B(Holds(call', t, o))
    BY <1>4, <1>5, CallsSize
<1>8. CallsOf(call, o) = {u \in Users \cup Admins : /\ call[u].op \in {"created", "use", "close"}
                                                    /\ call[u].file = o}
    BY DEF CallsOf, Holds, Callers
<1>9. CallsOf(call', o) = {u \in Users \cup Admins : /\ call'[u].op \in {"created", "use", "close"}
                                                     /\ call'[u].file = o}
    BY DEF CallsOf, Holds, Callers
<1>10. Holders(o) = Cardinality(EntriesOf(files, o)) + Cardinality(CallsOf(call, o))
    BY <1>8 DEF Holders, EntriesOf
<1>11. Holders(o)' = Cardinality(EntriesOf(files', o)) + Cardinality(CallsOf(call', o))
    BY <1>9 DEF Holders, EntriesOf
<1> QED BY <1>2, <1>3, <1>6, <1>7, <1>10, <1>11

\* A file nobody points to has no holders.
LEMMA NoHolders ==
    ASSUME NEW o, ~InEntry(files, o), \A u \in Callers : ~Holds(call, u, o)
    PROVE  Holders(o) = 0
<1>1. /\ {e \in Tables \X Fds : files[e[1]][e[2]] = o} = {}
      /\ {t \in Users \cup Admins : /\ call[t].op \in {"created", "use", "close"}
                                    /\ call[t].file = o} = {}
    BY DEF InEntry, Holds, Callers
<1>2. Cardinality({}) = 0
    BY FS_EmptySet
<1>3. Holders(o) = 0 + 0
    BY <1>1, <1>2 DEF Holders
<1> QED BY <1>3

\* A step that neither moves a pointer nor counts.
LEMMA SameKeepsCounts ==
    ASSUME CountInv, files' = files, refs' = refs, parent' = parent, torn' = torn,
           \A u \in Callers, o \in Files : Holds(call', u, o) <=> Holds(call, u, o)
    PROVE  CountInv'
<1>1. ASSUME NEW o \in Files PROVE Holders(o)' = Holders(o)
    <2>1. {t \in Users \cup Admins : /\ call[t].op \in {"created", "use", "close"}
                                     /\ call[t].file = o}
           = {t \in Users \cup Admins : /\ call'[t].op \in {"created", "use", "close"}
                                        /\ call'[t].file = o}
        BY DEF Holds, Callers
    <2> QED BY <2>1 DEF Holders
<1>2. \A o \in Files : Alive(o)' <=> Alive(o)
    BY DEF Alive
<1> QED BY <1>1, <1>2 DEF CountInv

\* References given up: as many as pointers are dropped.
LEMMA ReleaseKeepsCounts ==
    ASSUME BaseType, CountInv, NEW n \in [Files -> Nat], Release(n), torn \subseteq torn',
           \A o \in Files \ torn' : /\ Holders(o) \in Nat /\ Holders(o)' \in Nat
                                    /\ Holders(o) = Holders(o)' + n[o]
    PROVE  CountInv'
<1> SUFFICES ASSUME NEW o \in Files, o \notin torn'
             PROVE  refs'[o] = Holders(o)' /\ (Alive(o)' <=> refs'[o] > 0)
    BY DEF CountInv
<1>1. PICK h, k, r, m : h = Holders(o) /\ k = Holders(o)' /\ r = refs[o] /\ m = n[o]
    OBVIOUS
<1>2. /\ h \in Nat /\ k \in Nat /\ r \in Nat /\ m \in Nat
      /\ h = k + m
    BY <1>1 DEF BaseType
<1>3. r = h /\ (Alive(o) <=> r > 0)
    BY <1>1 DEF CountInv
<1>4. CASE r <= m
    <2>1. refs'[o] = 0 /\ parent'[o] = NoFs
        BY <1>1, <1>4, ReleaseIs
    <2>2. k = 0
        BY <1>2, <1>3, <1>4
    <2> QED BY <1>1, <1>2, <2>1, <2>2 DEF Alive
<1>5. CASE r > m
    <2>1. refs'[o] = r - m /\ parent'[o] = parent[o]
        BY <1>1, <1>5, ReleaseIs
    <2>2. r - m = k /\ r - m > 0
        BY <1>2, <1>3, <1>5
    <2> QED BY <1>1, <1>2, <1>3, <1>5, <2>1, <2>2 DEF Alive
<1> QED BY <1>2, <1>4, <1>5

\* A reference taken to a file in an entry.
LEMMA GetKeepsCounts ==
    ASSUME BaseType, CountInv, EntryInv, EntryInv', NEW t \in Callers, NEW f \in Files,
           f \in torn \/ Alive(f),
           files' = files, parent' = parent, torn' = torn,
           refs'[f] = refs[f] + 1, \A x \in Files : x # f => refs'[x] = refs[x],
           call[t].op \notin {"created", "use", "close"},
           call'[t].op \in {"use", "close"}, call'[t].file = f,
           \A u \in Callers : u # t => call'[u] = call[u]
    PROVE  CountInv'
<1> SUFFICES ASSUME NEW o \in Files, o \notin torn'
             PROVE  refs'[o] = Holders(o)' /\ (Alive(o)' <=> refs'[o] > 0)
    BY DEF CountInv
<1>1. \A u \in Callers : u # t => (Holds(call', u, o) <=> Holds(call, u, o))
    BY DEF Holds
<1>2. PICK k \in Nat : /\ Holders(o)  = B(InEntry(files, o)) + (k + B(Holds(call, t, o)))
                       /\ Holders(o)' = B(InEntry(files', o)) + (k + B(Holds(call', t, o)))
    BY <1>1, HoldersChange
<1>3. /\ ~Holds(call, t, o)
      /\ Holds(call', t, o) <=> o = f
    BY DEF Holds
<1>4. refs[o] \in Nat /\ refs[o] = Holders(o)
    BY DEF BaseType, CountInv
<1>5. (Alive(o) <=> refs[o] > 0) /\ (Alive(o)' <=> Alive(o))
    BY DEF CountInv, Alive
<1>6. CASE o = f
    <2>1. Holders(o) \in Nat /\ Holders(o)' = Holders(o) + 1
        BY <1>2, <1>3, <1>6 DEF B
    <2> QED BY <1>4, <1>5, <1>6, <2>1
<1>7. CASE o # f
    <2>1. Holders(o)' = Holders(o)
        BY <1>2, <1>3, <1>7 DEF B
    <2> QED BY <1>4, <1>5, <1>7, <2>1
<1> QED BY <1>6, <1>7

\* A thread goes on from a call that points to no file to another one.
LEMMA PassesKeepsCounts ==
    ASSUME CountInv, FilesSame, NEW t,
           t \in Users \/ t \in Admins,
           call[t].op \notin {"created", "use", "close"},
           call'[t].op \notin {"created", "use", "close"},
           \A u \in Callers : u # t => call'[u] = call[u]
    PROVE  CountInv'
<1>1. \A u \in Callers, o \in Files : Holds(call', u, o) <=> Holds(call, u, o)
    BY DEF Holds
<1> QED BY <1>1, SameKeepsCounts DEF FilesSame, CountsSame

\* An emptied entry was the only one of its file.
LEMMA EmptyEntry ==
    ASSUME EntryInv, NEW d \in Tables, NEW i \in Fds, Stores(d, i, NoFile), NEW o \in Files,
           o \notin torn
    PROVE  /\ InEntry(files, o) <=> (InEntry(files', o) \/ o = files[d][i])
           /\ ~(InEntry(files', o) /\ o = files[d][i])
<1>1. o # NoFile
    BY FilesystemAssumption
<1>2. /\ files'[d][i] = NoFile
      /\ \A e \in Tables, j \in Fds : e # d \/ j # i => files'[e][j] = files[e][j]
    BY DEF Stores
<1>3. \A e \in Tables, j \in Fds : files'[e][j] = o <=> (files[e][j] = o /\ (e # d \/ j # i))
    BY <1>1, <1>2
<1>4. ~(InEntry(files', o) /\ o = files[d][i])
    BY <1>1, <1>3 DEF InEntry, EntryInv
<1> QED BY <1>3, <1>4 DEF InEntry

\* Counts.
LEMMA NextCountInv ==
    ASSUME FilesystemInv, [Next]_vars
    PROVE  CountInv'
<1>1. ASSUME NEW t \in Openers, open(t) PROVE CountInv'
    <2>1. BaseType /\ LockInv /\ UmountInv /\ EntryInv /\ CountInv /\ EntryInv'
        BY NextEntryInv DEF FilesystemInv
    <2>2. PICK i \in Fds : /\ t \in Users /\ call[t].op = "idle" /\ FilesSame
                           /\ Moves(t, [op |-> "open", fd |-> i])
        BY <1>1, OpenEffect, <2>1
    <2>3. call'[t].op = "open" /\ \A u \in Callers : u # t => call'[u] = call[u]
        BY <2>2 DEF Moves
    <2> QED BY <2>1, <2>2, <2>3, PassesKeepsCounts
<1>2. ASSUME NEW t \in Users, openResolve(t) PROVE CountInv'
    <2>1. BaseType /\ LockInv /\ UmountInv /\ EntryInv /\ CountInv /\ EntryInv'
        BY NextEntryInv DEF FilesystemInv
    <2>2. call[t].op = "open" /\ FilesSame
        BY <1>2, ResolveEffect, <2>1
    <2>3. CASE Returns(t) /\ FilesSame
        <3>1. call'[t].op = "idle" /\ \A u \in Callers : u # t => call'[u] = call[u]
            BY <2>3 DEF Returns, Moves, Idle
        <3> QED BY <2>1, <2>2, <2>3, <3>1, PassesKeepsCounts
    <2>4. ASSUME NEW m \in Mounted,
                 Moves(t, [op |-> "resolved", fd |-> call[t].fd, fs |-> filesystems[m],
                           late |-> FALSE])
          PROVE  CountInv'
        <3>1. call'[t].op = "resolved" /\ \A u \in Callers : u # t => call'[u] = call[u]
            BY <2>4 DEF Moves
        <3> QED BY <2>1, <2>2, <3>1, PassesKeepsCounts
    <2> QED BY <1>2, ResolveEffect, <2>1, <2>2, <2>3, <2>4
<1>3. ASSUME NEW t \in Users, openCreate(t) PROVE CountInv'
    <2>1. BaseType /\ LockInv /\ UmountInv /\ EntryInv /\ CountInv /\ EntryInv'
        BY NextEntryInv DEF FilesystemInv
    <2>2. call[t].op = "resolved" /\ files' = files
        BY <1>3, CreateEffect, <2>1
    <2>3. CASE Returns(t) /\ FilesSame
        <3>1. call'[t].op = "idle" /\ \A u \in Callers : u # t => call'[u] = call[u]
            BY <2>3 DEF Returns, Moves, Idle
        <3> QED BY <2>1, <2>2, <2>3, <3>1, PassesKeepsCounts
    <2>4. ASSUME NEW f \in Files, Fresh(f), torn' = torn,
                 Moves(t, [op |-> "created", fd |-> call[t].fd, file |-> f]),
                 parent'[f] = call[t].fs, refs'[f] = 1,
                 \A x \in Files : x # f => parent'[x] = parent[x] /\ refs'[x] = refs[x]
          PROVE  CountInv'
        <3>1. /\ call'[t].op = "created" /\ call'[t].file = f
              /\ \A u \in Callers : u # t => call'[u] = call[u]
            BY <2>4 DEF Moves
        <3>2. f \notin torn => ~InEntry(files, f)
            BY <2>4, FreshUnused DEF InEntry
        <3>3. f \notin torn => \A u \in Callers : ~Holds(call, u, f)
            BY <2>4, FreshUnused DEF Holds
        <3>4. parent'[f] # NoFs
            <4>1. t \in Callers /\ call[t] \in Calls
                BY UserIs, <2>1 DEF BaseType
            <4>2. call[t].fs \in Fs
                BY <2>2, <4>1, CallFields
            <4> QED BY <2>4, <4>2, FilesystemAssumption DEF Fs
        <3>5. ASSUME NEW o \in Files, o \notin torn'
              PROVE  refs'[o] = Holders(o)' /\ (Alive(o)' <=> refs'[o] > 0)
            <4>1. \A u \in Callers : u # t => (Holds(call', u, o) <=> Holds(call, u, o))
                BY <3>1 DEF Holds
            <4>2. PICK k \in Nat :
                     /\ Holders(o)  = B(InEntry(files, o)) + (k + B(Holds(call, t, o)))
                     /\ Holders(o)' = B(InEntry(files', o)) + (k + B(Holds(call', t, o)))
                BY <2>1, <2>4, <3>5, <4>1, HoldersChange
            <4>3. ~Holds(call, t, o) /\ (Holds(call', t, o) <=> o = f) /\ files' = files
                BY <2>2, <3>1, UserIs DEF Holds
            <4>4. CASE o = f
                <5>1. Holders(o) = 0
                    BY <2>4, <3>2, <3>3, <3>5, <4>4, NoHolders
                <5>2. Holders(o)' = 1
                    BY <2>4, <3>2, <3>5, <4>2, <4>3, <4>4, <5>1 DEF B
                <5> QED BY <2>4, <3>4, <4>4, <5>2 DEF Alive
            <4>5. CASE o # f
                <5>1. Holders(o)' = Holders(o)
                    BY <4>2, <4>3, <4>5 DEF B
                <5>2. refs'[o] = refs[o] /\ parent'[o] = parent[o] /\ (o \in torn' <=> o \in torn)
                    BY <2>4, <4>5
                <5> QED BY <2>1, <2>4, <3>5, <5>1, <5>2 DEF CountInv, Alive
            <4> QED BY <4>4, <4>5
        <3> QED BY <3>5 DEF CountInv
    <2> QED BY <1>3, CreateEffect, <2>1, <2>3, <2>4
<1>4. ASSUME NEW t \in Users, openPublish(t) PROVE CountInv'
    <2>1. BaseType /\ LockInv /\ UmountInv /\ EntryInv /\ CountInv /\ EntryInv'
        BY NextEntryInv DEF FilesystemInv
    <2>2. /\ call[t].op = "created" /\ CountsSame /\ torn' = torn
          /\ call[t].fd \in Fds /\ call[t].file \in Files
          /\ Stores(TableOf[t], call[t].fd, call[t].file)
          /\ Moves(t, [op |-> "published", fd |-> call[t].fd, file |-> call[t].file])
        BY <1>4, PublishEffect, <2>1
    <2>3. call'[t].op = "published" /\ \A u \in Callers : u # t => call'[u] = call[u]
        BY <2>2 DEF Moves
    <2>4. PICK d, i, f : d = TableOf[t] /\ i = call[t].fd /\ f = call[t].file
        OBVIOUS
    <2>5. /\ d \in Tables /\ i \in Fds /\ f \in Files /\ files'[d][i] = f
          /\ \A e \in Tables, j \in Fds : e # d \/ j # i => files'[e][j] = files[e][j]
        BY <2>2, <2>4, UserIs DEF Stores
    <2>6. (f \notin torn => ~InEntry(files, f)) /\ InEntry(files', f) /\ files[d][i] = NoFile
        BY <2>1, <2>2, <2>4, <2>5 DEF EntryInv, InEntry
    <2>7. ASSUME NEW o \in Files, o \notin torn PROVE Holders(o)' = Holders(o)
        <3>1. \A u \in Callers : u # t => (Holds(call', u, o) <=> Holds(call, u, o))
            BY <2>3 DEF Holds
        <3>2. PICK k \in Nat :
                 /\ Holders(o)  = B(InEntry(files, o)) + (k + B(Holds(call, t, o)))
                 /\ Holders(o)' = B(InEntry(files', o)) + (k + B(Holds(call', t, o)))
            BY <2>1, <2>2, <2>7, <3>1, HoldersChange
        <3>3. ~Holds(call', t, o) /\ (Holds(call, t, o) <=> o = f)
            BY <2>2, <2>3, <2>4, UserIs DEF Holds
        <3>4. CASE o = f
            BY <2>6, <2>7, <3>2, <3>3, <3>4 DEF B
        <3>5. CASE o # f
            <4>1. InEntry(files', o) <=> InEntry(files, o)
                BY <2>5, <2>6, <3>5, FilesystemAssumption DEF InEntry
            <4> QED BY <3>2, <3>3, <3>5, <4>1 DEF B
        <3> QED BY <3>4, <3>5
    <2>8. /\ refs' = refs /\ torn' = torn
          /\ \A o \in Files : Alive(o)' <=> Alive(o)
        BY <2>2 DEF CountsSame, Alive
    <2> QED BY <2>1, <2>7, <2>8 DEF CountInv
<1>5. ASSUME NEW t \in Users, openCount(t) PROVE CountInv'
    <2>1. BaseType /\ LockInv /\ UmountInv /\ EntryInv /\ CountInv /\ EntryInv'
        BY NextEntryInv DEF FilesystemInv
    <2>2. /\ call[t].op = "published" /\ call[t].file \in Files /\ Returns(t)
          /\ files' = files /\ torn' = torn
        BY <1>5, CountEffect, <2>1
    <2>3. call'[t].op = "idle" /\ \A u \in Callers : u # t => call'[u] = call[u]
        BY <2>2 DEF Returns, Moves, Idle
    <2>4. CASE CountsSame
        BY <2>1, <2>2, <2>3, <2>4, PassesKeepsCounts DEF FilesSame
    <2>5. CASE files[TableOf[t]][call[t].fd] # call[t].file /\ Release(One(call[t].file))
        <3>1. PICK f : f = call[t].file
            OBVIOUS
        <3>2. f \in torn
            BY <2>1, <2>2, <2>5, <3>1 DEF EntryInv
        <3>3. One(f) \in [Files -> Nat] /\ Release(One(f))
            BY <2>5, <3>1, OneIs
        <3>4. ASSUME NEW o \in Files, o \notin torn'
              PROVE  /\ Holders(o) \in Nat /\ Holders(o)' \in Nat
                     /\ Holders(o) = Holders(o)' + One(f)[o]
            <4>1. \A u \in Callers : u # t => (Holds(call', u, o) <=> Holds(call, u, o))
                BY <2>3 DEF Holds
            <4>2. PICK k \in Nat :
                     /\ Holders(o)  = B(InEntry(files, o)) + (k + B(Holds(call, t, o)))
                     /\ Holders(o)' = B(InEntry(files', o)) + (k + B(Holds(call', t, o)))
                BY <2>1, <2>2, <3>4, <4>1, HoldersChange
            <4>3. ~Holds(call, t, o) /\ ~Holds(call', t, o) /\ files' = files
                BY <2>2, <2>3 DEF Holds
            <4>4. Holders(o) \in Nat /\ Holders(o)' = Holders(o)
                BY <4>2, <4>3 DEF B
            <4>5. o # f => One(f)[o] = 0
                BY OneIs
            <4> QED BY <2>2, <3>2, <3>4, <4>4, <4>5
        <3> QED BY <2>1, <2>2, <3>3, <3>4, ReleaseKeepsCounts
    <2> QED BY <1>5, CountEffect, <2>1, <2>4, <2>5
<1>6. ASSUME NEW t \in Users, use(t) PROVE CountInv'
    <2>1. BaseType /\ LockInv /\ UmountInv /\ EntryInv /\ CountInv /\ EntryInv'
        BY NextEntryInv DEF FilesystemInv
    <2>2. PICK i \in Fds :
             /\ files[TableOf[t]][i] \in Files /\ call[t].op = "idle"
             /\ refs'[files[TableOf[t]][i]] = refs[files[TableOf[t]][i]] + 1
             /\ \A x \in Files : x # files[TableOf[t]][i] => refs'[x] = refs[x]
             /\ Moves(t, [op |-> "use", file |-> files[TableOf[t]][i]])
             /\ files' = files /\ parent' = parent /\ torn' = torn
        BY <1>6, UseEffect, <2>1
    <2>3. PICK f : f = files[TableOf[t]][i]
        OBVIOUS
    <2>4. /\ call'[t].op = "use" /\ call'[t].file = f
          /\ \A u \in Callers : u # t => call'[u] = call[u]
        BY <2>2, <2>3 DEF Moves
    <2>5. f \in Files /\ (f \in torn \/ Alive(f)) /\ t \in Callers
        BY <2>2, <2>3, UserIs, EntryAlive, FilesystemAssumption
    <2> QED BY <2>1, <2>2, <2>3, <2>4, <2>5, GetKeepsCounts
<1>7. ASSUME NEW t \in Users, useEnd(t) PROVE CountInv'
    <2>1. BaseType /\ LockInv /\ UmountInv /\ EntryInv /\ CountInv /\ EntryInv'
        BY NextEntryInv DEF FilesystemInv
    <2>2. /\ call[t].op = "use" /\ call[t].file \in Files
          /\ Release(One(call[t].file)) /\ Moves(t, Idle) /\ files' = files /\ torn' = torn
        BY <1>7, UseEndEffect, <2>1
    <2>3. PICK f : f = call[t].file
        OBVIOUS
    <2>4. call'[t].op = "idle" /\ \A u \in Callers : u # t => call'[u] = call[u]
        BY <2>2 DEF Moves, Idle
    <2>5. ASSUME NEW o \in Files, o \notin torn'
          PROVE  /\ Holders(o) \in Nat /\ Holders(o)' \in Nat
                 /\ Holders(o) = Holders(o)' + One(f)[o]
        <3>1. \A u \in Callers : u # t => (Holds(call', u, o) <=> Holds(call, u, o))
            BY <2>4 DEF Holds
        <3>2. PICK k \in Nat :
                 /\ Holders(o)  = B(InEntry(files, o)) + (k + B(Holds(call, t, o)))
                 /\ Holders(o)' = B(InEntry(files', o)) + (k + B(Holds(call', t, o)))
            BY <2>1, <2>2, <2>5, <3>1, HoldersChange
        <3>3. (Holds(call, t, o) <=> o = f) /\ ~Holds(call', t, o) /\ files' = files
            BY <2>2, <2>3, <2>4, UserIs DEF Holds
        <3>4. One(f)[o] = B(o = f)
            BY OneIs DEF B
        <3> QED BY <3>2, <3>3, <3>4 DEF B
    <2>6. One(f) \in [Files -> Nat] /\ Release(One(f))
        BY <2>2, <2>3, OneIs
    <2> QED BY <2>1, <2>2, <2>5, <2>6, ReleaseKeepsCounts
<1>8. ASSUME NEW t \in Users, close(t) PROVE CountInv'
    <2>1. BaseType /\ LockInv /\ UmountInv /\ EntryInv /\ CountInv /\ EntryInv'
        BY NextEntryInv DEF FilesystemInv
    <2>2. PICK i \in Fds :
             /\ files[TableOf[t]][i] \in Files /\ Stores(TableOf[t], i, NoFile)
             /\ Release(One(files[TableOf[t]][i])) /\ torn \subseteq torn' /\ call' = call
        BY <1>8, CloseEffect, <2>1
    <2>3. PICK f : f = files[TableOf[t]][i]
        OBVIOUS
    <2>4. ASSUME NEW o \in Files, o \notin torn'
          PROVE  /\ Holders(o) \in Nat /\ Holders(o)' \in Nat
                 /\ Holders(o) = Holders(o)' + One(f)[o]
        <3>1. PICK k \in Nat :
                 /\ Holders(o)  = B(InEntry(files, o)) + (k + B(Holds(call, NoThread, o)))
                 /\ Holders(o)' = B(InEntry(files', o)) + (k + B(Holds(call', NoThread, o)))
            BY <2>1, <2>2, <2>4, HoldersChange
        <3>2. ~Holds(call, NoThread, o) /\ ~Holds(call', NoThread, o)
            BY FilesystemAssumption DEF Holds, Callers
        <3>3. (InEntry(files, o) <=> InEntry(files', o) \/ o = f) /\ ~(InEntry(files', o) /\ o = f)
            BY <2>1, <2>2, <2>3, <2>4, UserIs, EmptyEntry
        <3>4. One(f)[o] = B(o = f)
            BY OneIs DEF B
        <3> QED BY <3>1, <3>2, <3>3, <3>4 DEF B
    <2>5. One(f) \in [Files -> Nat] /\ Release(One(f))
        BY <2>2, <2>3, OneIs
    <2> QED BY <2>1, <2>2, <2>4, <2>5, ReleaseKeepsCounts
<1>9. ASSUME NEW d \in Tables, addFileDescriptorTable(d) PROVE CountInv'
    <2>1. BaseType /\ LockInv /\ UmountInv /\ EntryInv /\ CountInv /\ EntryInv'
        BY NextEntryInv DEF FilesystemInv
    <2>2. FilesSame /\ call' = call
        BY <1>9, AddEffect, <2>1
    <2> QED BY <2>1, <2>2, SameKeepsCounts DEF FilesSame, CountsSame
<1>10. ASSUME NEW d \in Tables, removeFileDescriptorTable(d) PROVE CountInv'
    <2>1. BaseType /\ LockInv /\ UmountInv /\ EntryInv /\ CountInv /\ EntryInv'
        BY NextEntryInv DEF FilesystemInv
    <2>2. FilesSame /\ call' = call
        BY <1>10, RemoveEffect, <2>1 DEF LockInv
    <2> QED BY <2>1, <2>2, SameKeepsCounts DEF FilesSame, CountsSame
<1>11. ASSUME NEW d \in Tables, DestroyEntry(d) PROVE CountInv'
    <2>1. BaseType /\ LockInv /\ UmountInv /\ EntryInv /\ CountInv /\ EntryInv'
        BY NextEntryInv DEF FilesystemInv
    <2>2. PICK i \in Fds :
             /\ files[d][i] \in Files /\ Stores(d, i, NoFile)
             /\ Release(One(files[d][i])) /\ torn' = torn /\ call' = call
        BY <1>11, DestroyEffect, <2>1
    <2>3. PICK f : f = files[d][i]
        OBVIOUS
    <2>4. ASSUME NEW o \in Files, o \notin torn'
          PROVE  /\ Holders(o) \in Nat /\ Holders(o)' \in Nat
                 /\ Holders(o) = Holders(o)' + One(f)[o]
        <3>1. PICK k \in Nat :
                 /\ Holders(o)  = B(InEntry(files, o)) + (k + B(Holds(call, NoThread, o)))
                 /\ Holders(o)' = B(InEntry(files', o)) + (k + B(Holds(call', NoThread, o)))
            BY <2>1, <2>2, <2>4, HoldersChange
        <3>2. ~Holds(call, NoThread, o) /\ ~Holds(call', NoThread, o)
            BY FilesystemAssumption DEF Holds, Callers
        <3>3. (InEntry(files, o) <=> InEntry(files', o) \/ o = f) /\ ~(InEntry(files', o) /\ o = f)
            BY <2>1, <2>2, <2>3, <2>4, UserIs, EmptyEntry
        <3>4. One(f)[o] = B(o = f)
            BY OneIs DEF B
        <3> QED BY <3>1, <3>2, <3>3, <3>4 DEF B
    <2>5. One(f) \in [Files -> Nat] /\ Release(One(f))
        BY <2>2, <2>3, OneIs
    <2> QED BY <2>1, <2>2, <2>4, <2>5, ReleaseKeepsCounts
<1>12. ASSUME NEW t \in Admins, NEW m \in MountPoints, kmount(t, m) PROVE CountInv'
    <2>1. BaseType /\ LockInv /\ UmountInv /\ EntryInv /\ CountInv /\ EntryInv'
        BY NextEntryInv DEF FilesystemInv
    <2>2. FilesSame /\ call' = call
        BY <1>12, MountEffect, <2>1
    <2> QED BY <2>1, <2>2, SameKeepsCounts DEF FilesSame, CountsSame
<1>13. ASSUME NEW t \in Admins, NEW m \in MountPoints, NEW force \in BOOLEAN,
              umount(t, m, force)
       PROVE CountInv'
    <2>1. BaseType /\ LockInv /\ UmountInv /\ EntryInv /\ CountInv /\ EntryInv'
        BY NextEntryInv DEF FilesystemInv
    <2>2. FilesSame /\ call[t].op = "idle"
        BY <1>13, UmountEffect, <2>1
    <2>3. call'[t].op = "scan"
        <3>1. call'[t] = [op |-> "scan", targets |-> FsToUmount(m), force |-> force, entry |-> 1]
            BY <1>13, UmountEffect, <2>1
        <3> QED BY <3>1
    <2>4. \A u \in Callers : u # t => call'[u] = call[u] \/ (call[u].op = "resolved" /\ Marked(u))
        BY <1>13, UmountEffect, <2>1
    <2>5. \A u \in Callers, o \in Files : Holds(call', u, o) <=> Holds(call, u, o)
        BY <2>2, <2>3, <2>4 DEF Holds, Marked
    <2> QED BY <2>1, <2>2, <2>5, SameKeepsCounts DEF FilesSame, CountsSame
<1>14. ASSUME NEW t \in Admins, umountScan(t) PROVE CountInv'
    <2>1. BaseType /\ LockInv /\ UmountInv /\ EntryInv /\ CountInv /\ EntryInv'
        BY NextEntryInv DEF FilesystemInv
    <2>2. PICK c, f : c = call[t] /\ f = files[TableAt(c.entry)][FdAt(c.entry)]
        OBVIOUS
    <2>3. /\ c.op = "scan" /\ files' = files /\ parent' = parent /\ torn' = torn
          /\ \A u \in Callers : u # t => call'[u] = call[u]
        BY <1>14, ScanEffect, <2>1, <2>2, UmountMoves
    <2>4. ASSUME FilesSame, call'[t].op \in {"check", "scan", "idle"} PROVE CountInv'
        BY <2>1, <2>2, <2>3, <2>4, AdminIs, PassesKeepsCounts
    <2>5. CASE FilesSame /\ Moves(t, [op |-> "check", targets |-> c.targets, force |-> c.force,
                                      tries |-> 0])
        <3>1. call'[t].op = "check"
            BY <2>5 DEF Moves
        <3> QED BY <2>4, <2>5, <3>1
    <2>6. CASE FilesSame /\ Moves(t, [op |-> "scan", targets |-> c.targets, force |-> c.force,
                                      entry |-> c.entry + 1])
        <3>1. call'[t].op = "scan"
            BY <2>6 DEF Moves
        <3> QED BY <2>4, <2>6, <3>1
    <2>7. CASE FilesSame /\ Unlocks(t)
        <3>1. call'[t].op = "idle"
            BY <2>7 DEF Moves, Unlocks, Idle
        <3> QED BY <2>4, <2>7, <3>1
    <2>8. CASE /\ c.entry <= Len(fileTables) * Cardinality(Fds) /\ f \in Files /\ InTargets(f, c)
               /\ refs'[f] = refs[f] + 1 /\ \A x \in Files : x # f => refs'[x] = refs[x]
               /\ Moves(t, [op |-> "close", targets |-> c.targets, file |-> f, entry |-> c.entry])
        <3>1. call'[t].op = "close" /\ call'[t].file = f
            BY <2>8 DEF Moves
        <3>2. f \in torn \/ Alive(f)
            <4>1. c \in Calls
                BY <2>1, <2>2, AdminIs DEF BaseType
            <4>2. c.entry \in Nat \ {0}
                BY <2>3, <4>1, CallFields, FdsFinite
            <4>3. TableAt(c.entry) \in Tables /\ FdAt(c.entry) \in Fds
                BY <2>1, <2>8, <4>2, EntryAt
            <4>4. f # NoFile
                BY <2>8, FilesystemAssumption
            <4> QED BY <2>2, <4>3, <4>4, EntryAlive
        <3>3. t \in Callers /\ call[t].op = "scan"
            BY <2>2, <2>3, AdminIs
        <3> QED BY <2>1, <2>3, <2>8, <3>1, <3>2, <3>3, GetKeepsCounts
    <2> QED BY <1>14, ScanEffect, <2>1, <2>2, <2>5, <2>6, <2>7, <2>8
<1>15. ASSUME NEW t \in Admins, umountClose(t) PROVE CountInv'
    <2>1. BaseType /\ LockInv /\ UmountInv /\ EntryInv /\ CountInv /\ EntryInv'
        BY NextEntryInv DEF FilesystemInv
    <2>2. PICK d \in Tables, i \in Fds, n \in [Files -> Nat] :
             /\ call[t].op = "close"
             /\ \A x \in Files : n[x] = (IF x = files[d][i] THEN 1 ELSE 0)
                                        + (IF x = call[t].file THEN 1 ELSE 0)
             /\ Release(n) /\ Stores(d, i, NoFile)
             /\ torn' = IF Published(files[d][i]) THEN torn \cup {files[d][i]} ELSE torn
             /\ Moves(t, [op |-> "scan", targets |-> call[t].targets, force |-> TRUE,
                          entry |-> call[t].entry + 1])
        BY <1>15, UmountCloseEffect, <2>1
    <2>3. call'[t].op = "scan" /\ \A u \in Callers : u # t => call'[u] = call[u]
        BY <2>2 DEF Moves
    <2>4. PICK f, g : f = files[d][i] /\ g = call[t].file
        OBVIOUS
    <2>6. torn \subseteq torn'
        BY <2>2
    <2>5. ASSUME NEW o \in Files, o \notin torn'
          PROVE  /\ Holders(o) \in Nat /\ Holders(o)' \in Nat
                 /\ Holders(o) = Holders(o)' + n[o]
        <3>1. \A u \in Callers : u # t => (Holds(call', u, o) <=> Holds(call, u, o))
            BY <2>3 DEF Holds
        <3>2. PICK k \in Nat :
                 /\ Holders(o)  = B(InEntry(files, o)) + (k + B(Holds(call, t, o)))
                 /\ Holders(o)' = B(InEntry(files', o)) + (k + B(Holds(call', t, o)))
            BY <2>1, <2>5, <2>6, <3>1, HoldersChange
        <3>3. (Holds(call, t, o) <=> o = g) /\ ~Holds(call', t, o)
            BY <2>2, <2>3, <2>4, AdminIs DEF Holds
        <3>4. (InEntry(files, o) <=> InEntry(files', o) \/ o = f) /\ ~(InEntry(files', o) /\ o = f)
            BY <2>1, <2>2, <2>4, <2>5, <2>6, EmptyEntry
        <3>5. n[o] = B(o = f) + B(o = g)
            BY <2>2, <2>4 DEF B
        <3> QED BY <3>2, <3>3, <3>4, <3>5 DEF B
    <2> QED BY <2>1, <2>2, <2>5, <2>6, ReleaseKeepsCounts
<1>16. ASSUME NEW t \in Admins, umountCheck(t) PROVE CountInv'
    <2>1. BaseType /\ LockInv /\ UmountInv /\ EntryInv /\ CountInv /\ EntryInv'
        BY NextEntryInv DEF FilesystemInv
    <2>2. call[t].op = "check" /\ FilesSame
        BY <1>16, CheckEffect, <2>1
    <2>3. \A u \in Callers : u # t => call'[u] = call[u]
        BY <1>16, <2>1, UmountMoves
    <2>4. ASSUME call'[t].op \in {"check", "erase", "idle"} PROVE CountInv'
        BY <2>1, <2>2, <2>3, <2>4, AdminIs, PassesKeepsCounts
    <2>5. CASE Unlocks(t)
        <3>1. call'[t].op = "idle"
            BY <2>5 DEF Moves, Unlocks, Idle
        <3> QED BY <2>4, <3>1
    <2>6. CASE Moves(t, [op |-> "erase", targets |-> call[t].targets])
        <3>1. call'[t].op = "erase"
            BY <2>6 DEF Moves
        <3> QED BY <2>4, <3>1
    <2>7. ASSUME NEW n \in 0 .. maxRetry - 1,
                 Moves(t, [op |-> "check", targets |-> call[t].targets,
                           force |-> call[t].force, tries |-> n])
          PROVE  CountInv'
        <3>1. call'[t].op = "check"
            BY <2>7 DEF Moves
        <3> QED BY <2>4, <3>1
    <2> QED BY <1>16, CheckEffect, <2>1, <2>5, <2>6, <2>7
<1>17. ASSUME NEW t \in Admins, umountErase(t) PROVE CountInv'
    <2>1. BaseType /\ LockInv /\ UmountInv /\ EntryInv /\ CountInv /\ EntryInv'
        BY NextEntryInv DEF FilesystemInv
    <2>2. call[t].op = "erase" /\ FilesSame /\ Unlocks(t)
        BY <1>17, EraseEffect, <2>1
    <2>3. call'[t].op = "idle" /\ \A u \in Callers : u # t => call'[u] = call[u]
        BY <2>2 DEF Moves, Unlocks, Idle
    <2> QED BY <2>1, <2>2, <2>3, AdminIs, PassesKeepsCounts
<1>18. CASE UNCHANGED vars
    BY <1>18, SameKeepsCounts DEF FilesystemInv, vars
<1> QED
    BY <1>1, <1>2, <1>3, <1>4, <1>5, <1>6, <1>7, <1>8, <1>9, <1>10, <1>11,
       <1>12, <1>13, <1>14, <1>15, <1>16, <1>17, <1>18
    DEF Next, OpenStep, UmountStep

\* f has been removed after the step.
GoneNext(f) == f # NoFs /\ \A m \in MountPoints : filesystems'[m] # f

\* A step that resolves no path, makes no file and removes no filesystem.
LEMMA StepKeepsLate ==
    ASSUME UmountInv, LateInv, OnlyLateFilesRemain, filesystems' = filesystems,
           mutex' = mutex \/ mutex' = NoThread,
           \A o \in Files : \/ parent'[o] = NoFs
                            \/ parent'[o] = parent[o] /\ (o \in late => o \in late'),
           \A u \in Users : call'[u].op = "resolved" => call'[u] = call[u],
           \A a \in Admins : call'[a].op = "erase" => call'[a] = call[a]
    PROVE  LateInv' /\ OnlyLateFilesRemain'
<1>1. \A t \in Users : call'[t].op = "resolved" /\ mutex' # NoThread => call'[t].late
    BY DEF LateInv
<1>2. ASSUME NEW t \in Admins, call'[t].op = "erase", NEW o \in Files, InTargets(o, call[t])'
      PROVE  o \in late'
    <2>1. call'[t] = call[t]
        BY <1>2
    <2>2. PICK m \in call[t].targets : filesystems[m] = parent'[o]
        BY <1>2, <2>1 DEF InTargets
    <2>3. filesystems[m] # NoFs
        BY <1>2, <2>1 DEF UmountInv, UmountOps, Mounted
    <2>4. InTargets(o, call[t]) /\ (o \in late => o \in late')
        BY <2>2, <2>3 DEF InTargets
    <2> QED BY <1>2, <2>1, <2>4 DEF LateInv
<1>3. \A o \in Files : GoneNext(parent'[o]) => o \in late'
    BY DEF OnlyLateFilesRemain, Gone, GoneNext
<1>4. \A t \in Users : call'[t].op = "resolved" /\ GoneNext(call'[t].fs) => call'[t].late
    BY DEF OnlyLateFilesRemain, Gone, GoneNext
<1> QED BY <1>1, <1>2, <1>3, <1>4 DEF LateInv, OnlyLateFilesRemain, Gone, GoneNext

\* Giving up references removes files, and no others from the history.
LEMMA ReleaseKeepsParents ==
    ASSUME BaseType, NEW n \in [Files -> Nat], Release(n)
    PROVE  \A o \in Files : \/ parent'[o] = NoFs
                            \/ parent'[o] = parent[o] /\ (o \in late => o \in late')
<1> SUFFICES ASSUME NEW o \in Files
             PROVE  \/ parent'[o] = NoFs
                    \/ parent'[o] = parent[o] /\ (o \in late => o \in late')
    OBVIOUS
<1>1. refs[o] \in Nat /\ n[o] \in Nat
    BY DEF BaseType
<1>2. refs[o] <= n[o] \/ refs[o] > n[o]
    BY <1>1
<1> QED BY <1>2, ReleaseIs

\* Who is inside umount() owns the manager's mutex.
LEMMA EraseOwns ==
    ASSUME LockInv
    PROVE  /\ \A a \in Admins : call[a].op \in UmountOps => mutex = a /\ mutex # NoThread
           /\ \A u \in Users : call[u].op \notin UmountOps
           /\ \A a \in Admins : call[a].op \notin OpenOps
<1>1. \A a \in Admins : a # NoThread
    BY AdminIs
<1> QED BY <1>1 DEF LockInv, OpenOps, UmountOps

\* Late files, and filesystems that have been removed.
LEMMA NextLateInv ==
    ASSUME FilesystemInv, [Next]_vars
    PROVE  LateInv' /\ OnlyLateFilesRemain'
<1>1. ASSUME NEW t \in Openers, open(t) PROVE LateInv' /\ OnlyLateFilesRemain'
    <2>1. /\ BaseType /\ LockInv /\ UmountInv /\ EntryInv /\ CountInv
          /\ LateInv /\ OnlyLateFilesRemain
        BY DEF FilesystemInv
    <2>2. PICK i \in Fds : /\ t \in Users /\ FilesSame /\ MountsSame /\ mutex' = mutex
                           /\ Moves(t, [op |-> "open", fd |-> i])
        BY <1>1, OpenEffect, <2>1
    <2>3. call'[t].op = "open" /\ \A u \in Callers : u # t => call'[u] = call[u]
        BY <2>2 DEF Moves
    <2> QED BY <2>1, <2>2, <2>3, UserIs, AdminIs, StepKeepsLate DEF FilesSame, CountsSame, MountsSame
<1>2. ASSUME NEW t \in Users, openResolve(t) PROVE LateInv' /\ OnlyLateFilesRemain'
    <2>1. /\ BaseType /\ LockInv /\ UmountInv /\ EntryInv /\ CountInv
          /\ LateInv /\ OnlyLateFilesRemain
        BY DEF FilesystemInv
    <2>2. mutex = NoThread /\ mutex' = mutex /\ FilesSame /\ MountsSame
        BY <1>2, ResolveEffect, <2>1
    <2>3. CASE Returns(t) /\ FilesSame
        <3>1. call'[t].op = "idle" /\ \A u \in Callers : u # t => call'[u] = call[u]
            BY <2>3 DEF Returns, Moves, Idle
        <3> QED BY <2>1, <2>2, <2>3, <3>1, UserIs, AdminIs, StepKeepsLate
                DEF FilesSame, CountsSame, MountsSame
    <2>4. ASSUME NEW m \in Mounted,
                 Moves(t, [op |-> "resolved", fd |-> call[t].fd, fs |-> filesystems[m],
                           late |-> FALSE])
          PROVE  LateInv' /\ OnlyLateFilesRemain'
        <3>1. /\ call'[t].op = "resolved" /\ call'[t].fs = filesystems[m]
              /\ \A u \in Callers : u # t => call'[u] = call[u]
            BY <2>4 DEF Moves
        <3>2. \A a \in Admins : call'[a].op # "erase"
            BY <2>1, <2>2, <3>1, UserIs, AdminIs, EraseOwns DEF UmountOps
        <3>3. ~GoneNext(call'[t].fs)
            BY <2>2, <2>4, <3>1 DEF GoneNext, Mounted, MountsSame
        <3>4. \A o \in Files : GoneNext(parent'[o]) => o \in late'
            BY <2>1, <2>2 DEF OnlyLateFilesRemain, Gone, GoneNext, MountsSame, FilesSame, CountsSame
        <3>5. \A u \in Users : u # t /\ call'[u].op = "resolved" /\ GoneNext(call'[u].fs)
                                => call'[u].late
            BY <2>1, <2>2, <3>1, UserIs DEF OnlyLateFilesRemain, Gone, GoneNext, MountsSame
        <3>6. LateInv'
            BY <2>2, <3>2 DEF LateInv
        <3>7. OnlyLateFilesRemain'
            BY <3>3, <3>4, <3>5 DEF OnlyLateFilesRemain, Gone, GoneNext
        <3> QED BY <3>6, <3>7
    <2> QED BY <1>2, ResolveEffect, <2>1, <2>2, <2>3, <2>4
<1>3. ASSUME NEW t \in Users, openCreate(t) PROVE LateInv' /\ OnlyLateFilesRemain'
    <2>1. /\ BaseType /\ LockInv /\ UmountInv /\ EntryInv /\ CountInv
          /\ LateInv /\ OnlyLateFilesRemain
        BY DEF FilesystemInv
    <2>2. call[t].op = "resolved" /\ mutex' = mutex /\ MountsSame
        BY <1>3, CreateEffect, <2>1
    <2>3. CASE Returns(t) /\ FilesSame
        <3>1. call'[t].op = "idle" /\ \A u \in Callers : u # t => call'[u] = call[u]
            BY <2>3 DEF Returns, Moves, Idle
        <3> QED BY <2>1, <2>2, <2>3, <3>1, UserIs, AdminIs, StepKeepsLate
                DEF FilesSame, CountsSame, MountsSame
    <2>4. ASSUME NEW f \in Files,
                 Moves(t, [op |-> "created", fd |-> call[t].fd, file |-> f]),
                 parent'[f] = call[t].fs,
                 \A x \in Files : x # f => parent'[x] = parent[x],
                 late \subseteq late', call[t].late => f \in late'
          PROVE  LateInv' /\ OnlyLateFilesRemain'
        <3>1. /\ call'[t].op = "created"
              /\ \A u \in Callers : u # t => call'[u] = call[u]
            BY <2>4 DEF Moves
        <3>2. \A u \in Users : call'[u].op = "resolved" => call'[u] = call[u]
            BY <3>1, UserIs
        <3>3. \A a \in Admins : call'[a] = call[a]
            BY <3>1, UserIs, AdminIs
        <3>4. \A u \in Users : call'[u].op = "resolved" /\ mutex' # NoThread => call'[u].late
            BY <2>1, <2>2, <3>2 DEF LateInv
        <3>5. ASSUME NEW a \in Admins, call'[a].op = "erase", NEW o \in Files, InTargets(o, call[a])'
              PROVE  o \in late'
            <4>1. call[a].op = "erase" /\ mutex # NoThread
                BY <2>1, <3>3, <3>5, EraseOwns DEF UmountOps
            <4>2. CASE o = f
                BY <2>1, <2>2, <2>4, <4>1, <4>2 DEF LateInv
            <4>3. CASE o # f
                <5>1. InTargets(o, call[a])
                    BY <2>2, <2>4, <3>3, <3>5, <4>3 DEF InTargets, MountsSame
                <5> QED BY <2>1, <2>4, <4>1, <5>1 DEF LateInv
            <4> QED BY <4>2, <4>3
        <3>6. \A o \in Files : GoneNext(parent'[o]) => o \in late'
            BY <2>1, <2>2, <2>4 DEF OnlyLateFilesRemain, Gone, GoneNext, MountsSame
        <3>7. \A u \in Users : call'[u].op = "resolved" /\ GoneNext(call'[u].fs)
                                => call'[u].late
            BY <2>1, <2>2, <3>2 DEF OnlyLateFilesRemain, Gone, GoneNext, MountsSame
        <3> QED BY <3>4, <3>5, <3>6, <3>7 DEF LateInv, OnlyLateFilesRemain, Gone, GoneNext
    <2> QED BY <1>3, CreateEffect, <2>1, <2>3, <2>4
<1>4. ASSUME NEW t \in Users, openPublish(t) PROVE LateInv' /\ OnlyLateFilesRemain'
    <2>1. /\ BaseType /\ LockInv /\ UmountInv /\ EntryInv /\ CountInv
          /\ LateInv /\ OnlyLateFilesRemain
        BY DEF FilesystemInv
    <2>2. /\ CountsSame /\ MountsSame /\ mutex' = mutex
          /\ Moves(t, [op |-> "published", fd |-> call[t].fd, file |-> call[t].file])
        BY <1>4, PublishEffect, <2>1
    <2>3. call'[t].op = "published" /\ \A u \in Callers : u # t => call'[u] = call[u]
        BY <2>2 DEF Moves
    <2> QED BY <2>1, <2>2, <2>3, UserIs, AdminIs, StepKeepsLate DEF FilesSame, CountsSame, MountsSame
<1>5. ASSUME NEW t \in Users, openCount(t) PROVE LateInv' /\ OnlyLateFilesRemain'
    <2>1. /\ BaseType /\ LockInv /\ UmountInv /\ EntryInv /\ CountInv
          /\ LateInv /\ OnlyLateFilesRemain
        BY DEF FilesystemInv
    <2>2. Returns(t) /\ MountsSame /\ mutex' = mutex
        BY <1>5, CountEffect, <2>1
    <2>3. call'[t].op = "idle" /\ \A u \in Callers : u # t => call'[u] = call[u]
        BY <2>2 DEF Returns, Moves, Idle
    <2>4. \A o \in Files :
             parent'[o] = NoFs \/ (parent'[o] = parent[o] /\ (o \in late => o \in late'))
        <3>1. CASE CountsSame
            BY <3>1 DEF CountsSame
        <3>2. CASE Release(One(call[t].file))
            BY <2>1, <3>2, OneIs, ReleaseKeepsParents
        <3> QED BY <1>5, CountEffect, <2>1, <3>1, <3>2
    <2> QED BY <2>1, <2>2, <2>3, <2>4, UserIs, AdminIs, StepKeepsLate DEF MountsSame
<1>6. ASSUME NEW t \in Users, use(t) PROVE LateInv' /\ OnlyLateFilesRemain'
    <2>1. /\ BaseType /\ LockInv /\ UmountInv /\ EntryInv /\ CountInv
          /\ LateInv /\ OnlyLateFilesRemain
        BY DEF FilesystemInv
    <2>2. PICK i \in Fds : /\ MountsSame /\ mutex' = mutex /\ parent' = parent /\ late' = late
                           /\ Moves(t, [op |-> "use", file |-> files[TableOf[t]][i]])
        BY <1>6, UseEffect, <2>1
    <2>3. call'[t].op = "use" /\ \A u \in Callers : u # t => call'[u] = call[u]
        BY <2>2 DEF Moves
    <2> QED BY <2>1, <2>2, <2>3, UserIs, AdminIs, StepKeepsLate DEF FilesSame, CountsSame, MountsSame
<1>7. ASSUME NEW t \in Users, useEnd(t) PROVE LateInv' /\ OnlyLateFilesRemain'
    <2>1. /\ BaseType /\ LockInv /\ UmountInv /\ EntryInv /\ CountInv
          /\ LateInv /\ OnlyLateFilesRemain
        BY DEF FilesystemInv
    <2>2. Release(One(call[t].file)) /\ Moves(t, Idle) /\ MountsSame /\ mutex' = mutex
        BY <1>7, UseEndEffect, <2>1
    <2>3. call'[t].op = "idle" /\ \A u \in Callers : u # t => call'[u] = call[u]
        BY <2>2 DEF Moves, Idle
    <2>4. \A o \in Files :
             parent'[o] = NoFs \/ (parent'[o] = parent[o] /\ (o \in late => o \in late'))
        BY <2>1, <2>2, OneIs, ReleaseKeepsParents
    <2> QED BY <2>1, <2>2, <2>3, <2>4, UserIs, AdminIs, StepKeepsLate DEF MountsSame
<1>8. ASSUME NEW t \in Users, close(t) PROVE LateInv' /\ OnlyLateFilesRemain'
    <2>1. /\ BaseType /\ LockInv /\ UmountInv /\ EntryInv /\ CountInv
          /\ LateInv /\ OnlyLateFilesRemain
        BY DEF FilesystemInv
    <2>2. PICK i \in Fds : /\ Release(One(files[TableOf[t]][i])) /\ MountsSame
                           /\ mutex' = mutex /\ call' = call
        BY <1>8, CloseEffect, <2>1
    <2>3. \A o \in Files :
             parent'[o] = NoFs \/ (parent'[o] = parent[o] /\ (o \in late => o \in late'))
        BY <2>1, <2>2, OneIs, ReleaseKeepsParents
    <2> QED BY <2>1, <2>2, <2>3, StepKeepsLate DEF MountsSame
<1>9. ASSUME NEW d \in Tables, addFileDescriptorTable(d) PROVE LateInv' /\ OnlyLateFilesRemain'
    <2>1. /\ BaseType /\ LockInv /\ UmountInv /\ EntryInv /\ CountInv
          /\ LateInv /\ OnlyLateFilesRemain
        BY DEF FilesystemInv
    <2>2. FilesSame /\ filesystems' = filesystems /\ mutex' = mutex /\ call' = call
        BY <1>9, AddEffect, <2>1 DEF LockInv
    <2> QED BY <2>1, <2>2, StepKeepsLate DEF FilesSame, CountsSame
<1>10. ASSUME NEW d \in Tables, removeFileDescriptorTable(d) PROVE LateInv' /\ OnlyLateFilesRemain'
    <2>1. /\ BaseType /\ LockInv /\ UmountInv /\ EntryInv /\ CountInv
          /\ LateInv /\ OnlyLateFilesRemain
        BY DEF FilesystemInv
    <2>2. FilesSame /\ filesystems' = filesystems /\ mutex' = mutex /\ call' = call
        BY <1>10, RemoveEffect, <2>1 DEF LockInv
    <2> QED BY <2>1, <2>2, StepKeepsLate DEF FilesSame, CountsSame
<1>11. ASSUME NEW d \in Tables, DestroyEntry(d) PROVE LateInv' /\ OnlyLateFilesRemain'
    <2>1. /\ BaseType /\ LockInv /\ UmountInv /\ EntryInv /\ CountInv
          /\ LateInv /\ OnlyLateFilesRemain
        BY DEF FilesystemInv
    <2>2. PICK i \in Fds : /\ Release(One(files[d][i])) /\ MountsSame
                           /\ mutex' = mutex /\ call' = call
        BY <1>11, DestroyEffect, <2>1
    <2>3. \A o \in Files :
             parent'[o] = NoFs \/ (parent'[o] = parent[o] /\ (o \in late => o \in late'))
        BY <2>1, <2>2, OneIs, ReleaseKeepsParents
    <2> QED BY <2>1, <2>2, <2>3, StepKeepsLate DEF MountsSame
<1>12. ASSUME NEW t \in Admins, NEW m \in MountPoints, kmount(t, m) PROVE LateInv' /\ OnlyLateFilesRemain'
    <2>1. /\ BaseType /\ LockInv /\ UmountInv /\ EntryInv /\ CountInv
          /\ LateInv /\ OnlyLateFilesRemain
        BY DEF FilesystemInv
    <2>2. PICK f \in Fs :
             /\ mutex = NoThread /\ m \notin Mounted /\ filesystems'[m] = f
             /\ \A n \in MountPoints : n # m => filesystems'[n] = filesystems[n]
             /\ FilesSame /\ mutex' = mutex /\ call' = call
        BY <1>12, MountEffect, <2>1
    <2>3. \A x : GoneNext(x) => Gone(x)
        BY <1>12, <2>2 DEF Gone, GoneNext, Mounted
    <2>4. LateInv'
        BY <2>1, <2>2, EraseOwns DEF LateInv, UmountOps
    <2>5. OnlyLateFilesRemain'
        <3>1. \A o \in Files : GoneNext(parent'[o]) => o \in late'
            BY <2>1, <2>2, <2>3 DEF OnlyLateFilesRemain, Gone, GoneNext, FilesSame, CountsSame
        <3>2. \A u \in Users : call'[u].op = "resolved" /\ GoneNext(call'[u].fs)
                                => call'[u].late
            BY <2>1, <2>2, <2>3 DEF OnlyLateFilesRemain, Gone, GoneNext
        <3> QED BY <3>1, <3>2 DEF OnlyLateFilesRemain, Gone, GoneNext
    <2> QED BY <2>4, <2>5
<1>13. ASSUME NEW t \in Admins, NEW m \in MountPoints, NEW force \in BOOLEAN,
              umount(t, m, force)
       PROVE LateInv' /\ OnlyLateFilesRemain'
    <2>1. /\ BaseType /\ LockInv /\ UmountInv /\ EntryInv /\ CountInv
          /\ LateInv /\ OnlyLateFilesRemain
        BY DEF FilesystemInv
    <2>2. mutex = NoThread /\ MountsSame /\ FilesSame
        BY <1>13, UmountEffect, <2>1
    <2>3. call'[t].op = "scan"
        <3>1. call'[t] = [op |-> "scan", targets |-> FsToUmount(m), force |-> force, entry |-> 1]
            BY <1>13, UmountEffect, <2>1
        <3> QED BY <3>1
    <2>4. \A u \in Users : call'[u].op = "resolved" => call'[u].late
        <3>1. \A u \in Users : u \in Callers /\ u # t
            BY <1>13, UserIs
        <3> QED BY <1>13, UmountEffect, <2>1, <3>1 DEF Marked
    <2>5. \A a \in Admins : call'[a].op # "erase"
        <3>1. \A a \in Admins : call[a].op \notin UmountOps /\ a \in Callers
            BY <2>1, <2>2, AdminIs, EraseOwns
        <3>2. \A a \in Admins : a # t => call'[a].op = call[a].op
            BY <1>13, <2>1, <3>1, UmountKeepsOps
        <3> QED BY <2>3, <3>1, <3>2 DEF UmountOps
    <2>6. \A o \in Files : GoneNext(parent'[o]) => o \in late'
        BY <2>1, <2>2 DEF OnlyLateFilesRemain, Gone, GoneNext, MountsSame, FilesSame, CountsSame
    <2> QED BY <2>4, <2>5, <2>6 DEF LateInv, OnlyLateFilesRemain, Gone, GoneNext
<1>14. ASSUME NEW t \in Admins, umountScan(t) PROVE LateInv' /\ OnlyLateFilesRemain'
    <2>1. /\ BaseType /\ LockInv /\ UmountInv /\ EntryInv /\ CountInv
          /\ LateInv /\ OnlyLateFilesRemain
        BY DEF FilesystemInv
    <2>2. /\ parent' = parent /\ late' = late /\ MountsSame
          /\ \A u \in Callers : u # t => call'[u] = call[u]
        BY <1>14, ScanEffect, <2>1, UmountMoves
    <2>3. (mutex' = mutex \/ mutex' = NoThread) /\ call'[t].op # "erase"
        <3>1. PICK c, f : c = call[t] /\ f = files[TableAt(c.entry)][FdAt(c.entry)]
            OBVIOUS
        <3>2. CASE /\ mutex' = mutex
                   /\ Moves(t, [op |-> "check", targets |-> c.targets, force |-> c.force,
                                tries |-> 0])
            BY <3>2 DEF Moves
        <3>3. CASE /\ mutex' = mutex
                   /\ Moves(t, [op |-> "scan", targets |-> c.targets, force |-> c.force,
                                entry |-> c.entry + 1])
            BY <3>3 DEF Moves
        <3>4. CASE Unlocks(t)
            BY <3>4 DEF Moves, Unlocks, Idle
        <3>5. CASE /\ mutex' = mutex
                   /\ Moves(t, [op |-> "close", targets |-> c.targets, file |-> f,
                                entry |-> c.entry])
            BY <3>5 DEF Moves
        <3> QED BY <1>14, ScanEffect, <2>1, <3>1, <3>2, <3>3, <3>4, <3>5
    <2> QED BY <1>14, <2>1, <2>2, <2>3, UserIs, AdminIs, StepKeepsLate DEF MountsSame
<1>15. ASSUME NEW t \in Admins, umountClose(t) PROVE LateInv' /\ OnlyLateFilesRemain'
    <2>1. /\ BaseType /\ LockInv /\ UmountInv /\ EntryInv /\ CountInv
          /\ LateInv /\ OnlyLateFilesRemain
        BY DEF FilesystemInv
    <2>2. PICK n \in [Files -> Nat] :
             /\ Release(n) /\ MountsSame /\ mutex' = mutex
             /\ Moves(t, [op |-> "scan", targets |-> call[t].targets, force |-> TRUE,
                          entry |-> call[t].entry + 1])
        BY <1>15, UmountCloseEffect, <2>1
    <2>3. call'[t].op = "scan" /\ \A u \in Callers : u # t => call'[u] = call[u]
        BY <2>2 DEF Moves
    <2>4. \A o \in Files :
             parent'[o] = NoFs \/ (parent'[o] = parent[o] /\ (o \in late => o \in late'))
        BY <2>1, <2>2, ReleaseKeepsParents
    <2> QED BY <1>15, <2>1, <2>2, <2>3, <2>4, UserIs, AdminIs, StepKeepsLate DEF MountsSame
<1>16. ASSUME NEW t \in Admins, umountCheck(t) PROVE LateInv' /\ OnlyLateFilesRemain'
    <2>1. /\ BaseType /\ LockInv /\ UmountInv /\ EntryInv /\ CountInv
          /\ LateInv /\ OnlyLateFilesRemain
        BY DEF FilesystemInv
    <2>2. /\ call[t].op = "check" /\ FilesSame /\ MountsSame
          /\ \A u \in Callers : u # t => call'[u] = call[u]
        BY <1>16, CheckEffect, <2>1, UmountMoves
    <2>3. ASSUME mutex' = mutex \/ mutex' = NoThread, call'[t].op # "erase"
          PROVE  LateInv' /\ OnlyLateFilesRemain'
        BY <1>16, <2>1, <2>2, <2>3, UserIs, AdminIs, StepKeepsLate DEF MountsSame, FilesSame, CountsSame
    <2>4. CASE Unlocks(t)
        <3>1. call'[t].op = "idle" /\ mutex' = NoThread
            BY <2>4 DEF Moves, Unlocks, Idle
        <3> QED BY <2>3, <3>1
    <2>5. CASE /\ areAllFilesClosed(call[t]) /\ mutex' = mutex
               /\ Moves(t, [op |-> "erase", targets |-> call[t].targets])
        <3>1. call'[t].op = "erase" /\ call'[t].targets = call[t].targets
            BY <2>5 DEF Moves
        <3>2. \A u \in Users : call'[u] = call[u]
            BY <1>16, <2>2, UserIs, AdminIs
        <3>3. \A a \in Admins : a # t => call'[a].op # "erase"
            BY <1>16, <2>1, <2>2, AdminIs, EraseOwns DEF UmountOps
        <3>4. \A m \in call[t].targets : filesystems[m] # NoFs
            BY <1>16, <2>1, <2>2 DEF UmountInv, UmountOps, Mounted
        <3>5. \A o \in Files : ~InTargets(o, call[t])'
            BY <2>2, <2>5, <3>1, <3>4
               DEF areAllFilesClosed, InTargets, Alive, MountsSame, FilesSame, CountsSame
        <3>6. LateInv'
            BY <2>1, <2>5, <3>2, <3>3, <3>5 DEF LateInv
        <3>7. OnlyLateFilesRemain'
            <4>1. \A o \in Files : GoneNext(parent'[o]) => o \in late'
                BY <2>1, <2>2 DEF OnlyLateFilesRemain, Gone, GoneNext, FilesSame, CountsSame, MountsSame
            <4>2. \A u \in Users : call'[u].op = "resolved" /\ GoneNext(call'[u].fs)
                                    => call'[u].late
                BY <2>1, <2>2, <3>2 DEF OnlyLateFilesRemain, Gone, GoneNext, MountsSame
            <4> QED BY <4>1, <4>2 DEF OnlyLateFilesRemain, Gone, GoneNext
        <3> QED BY <3>6, <3>7
    <2>6. ASSUME NEW n \in 0 .. maxRetry - 1, mutex' = mutex,
                 Moves(t, [op |-> "check", targets |-> call[t].targets,
                           force |-> call[t].force, tries |-> n])
          PROVE  LateInv' /\ OnlyLateFilesRemain'
        <3>1. call'[t].op = "check"
            BY <2>6 DEF Moves
        <3> QED BY <2>3, <2>6, <3>1
    <2> QED BY <1>16, CheckEffect, <2>1, <2>4, <2>5, <2>6
<1>17. ASSUME NEW t \in Admins, umountErase(t) PROVE LateInv' /\ OnlyLateFilesRemain'
    <2>1. /\ BaseType /\ LockInv /\ UmountInv /\ EntryInv /\ CountInv
          /\ LateInv /\ OnlyLateFilesRemain
        BY DEF FilesystemInv
    <2>2. /\ call[t].op = "erase" /\ Unlocks(t) /\ FilesSame
          /\ \A m \in MountPoints :
                filesystems'[m] = IF m \in call[t].targets THEN NoFs ELSE filesystems[m]
        BY <1>17, EraseEffect, <2>1
    <2>3. call'[t].op = "idle" /\ mutex' = NoThread /\ \A u \in Callers : u # t => call'[u] = call[u]
        BY <2>2 DEF Moves, Unlocks, Idle
    <2>4. mutex = t /\ mutex # NoThread /\ \A a \in Admins : a # t => call[a].op # "erase"
        BY <1>17, <2>1, <2>2, EraseOwns DEF UmountOps
    <2>5. LateInv'
        <3>1. \A a \in Admins : call'[a].op # "erase"
            BY <2>3, <2>4, AdminIs
        <3> QED BY <2>3, <3>1 DEF LateInv
    <2>6. \A x : GoneNext(x) =>
             Gone(x) \/ \E m \in call[t].targets : filesystems[m] = x
        BY <2>2 DEF Gone, GoneNext
    <2>7. \A o \in Files : GoneNext(parent'[o]) => o \in late'
        <3> SUFFICES ASSUME NEW o \in Files, GoneNext(parent[o])
                     PROVE  o \in late
            BY <2>2 DEF FilesSame, CountsSame
        <3>1. CASE Gone(parent[o])
            BY <2>1, <3>1 DEF OnlyLateFilesRemain, Gone, GoneNext
        <3>2. CASE \E m \in call[t].targets : filesystems[m] = parent[o]
            BY <1>17, <2>1, <2>2, <3>2 DEF LateInv, InTargets
        <3> QED BY <2>6, <3>1, <3>2
    <2>8. \A u \in Users : call'[u].op = "resolved" => call'[u].late
        <3>1. \A u \in Users : call'[u] = call[u]
            BY <1>17, <2>3, UserIs, AdminIs
        <3> QED BY <2>1, <2>4, <3>1 DEF LateInv
    <2>9. OnlyLateFilesRemain'
        BY <2>7, <2>8 DEF OnlyLateFilesRemain, Gone, GoneNext
    <2> QED BY <2>5, <2>9
<1>18. CASE UNCHANGED vars
    BY <1>18, StepKeepsLate DEF FilesystemInv, vars
<1> QED
    BY <1>1, <1>2, <1>3, <1>4, <1>5, <1>6, <1>7, <1>8, <1>9, <1>10, <1>11,
       <1>12, <1>13, <1>14, <1>15, <1>16, <1>17, <1>18
    DEF Next, OpenStep, UmountStep

\* What is in an entry after a step is alive, unless torn.
LEMMA EntryAliveNext ==
    ASSUME BaseType', EntryInv', CountInv', NEW d \in Tables, NEW i \in Fds,
           files'[d][i] # NoFile
    PROVE  /\ files'[d][i] \in Files
           /\ files'[d][i] \in torn' \/ parent'[files'[d][i]] # NoFs
<1>1. PICK o : o = files'[d][i]
    OBVIOUS
<1>2. o \in Files
    BY <1>1 DEF BaseType
<1> SUFFICES ASSUME o \notin torn' PROVE Alive(o)'
    BY <1>1, <1>2 DEF Alive
<1>3. refs'[o] = Holders(o)' /\ (Alive(o)' <=> refs'[o] > 0)
    BY <1>2 DEF CountInv
<1>4. InEntry(files', o)
    BY <1>1 DEF InEntry
<1>5. Cardinality(EntriesOf(files', o)) = 1
    <2>1. \A e, x \in Tables, j, k \in Fds :
             files'[e][j] = o /\ files'[x][k] = o => e = x /\ j = k
        BY <1>1 DEF EntryInv
    <2> QED BY <1>4, <2>1, EntriesSize DEF B
<1>6. PICK C : C = CallsOf(call', o)
    OBVIOUS
<1>7. Cardinality(C) \in Nat
    <2>1. IsFiniteSet(Callers)
        BY FilesystemAssumption, FS_Union DEF Callers
    <2> QED BY <1>6, <2>1, FS_Subset, FS_CardinalityType DEF CallsOf
<1>8. C = {u \in Users \cup Admins : /\ call'[u].op \in {"created", "use", "close"}
                                     /\ call'[u].file = o}
    BY <1>6 DEF CallsOf, Holds, Callers
<1>9. Holders(o)' = 1 + Cardinality(C)
    BY <1>5, <1>8 DEF Holders, EntriesOf
<1> QED BY <1>3, <1>7, <1>9

\* A step that leaves alone the calls inside umount(), fills no entry but
\* one a user has made a file for, and lets no user past resolvePath().
LEMMA StepKeepsClose ==
    ASSUME BaseType, LockInv, UmountInv, CloseInv, MountsSame, torn \subseteq torn',
           \A a \in Admins : call'[a] = call[a],
           \A d \in Tables, i \in Fds :
              \/ files'[d][i] = files[d][i] \/ files'[d][i] = NoFile
              \/ \E u \in Users : call[u].op = "created" /\ TableOf[u] = d /\ call[u].fd = i,
           \A d \in Tables, i \in Fds : files'[d][i] # NoFile /\ files'[d][i] = files[d][i]
              => files[d][i] \in torn' \/ parent'[files[d][i]] = parent[files[d][i]],
           \A u \in Users : call'[u].op \in {"resolved", "created"} =>
              call[u].op \in {"resolved", "created"} /\ call'[u].fd = call[u].fd
    PROVE  CloseInv'
<1> SUFFICES ASSUME NEW t \in Admins, call'[t].op = "close", NEW d, NEW i,
                    d = TableAt(call[t].entry)', i = FdAt(call[t].entry)'
             PROVE  /\ \/ files'[d][i] = NoFile \/ files'[d][i] \in torn'
                       \/ InTargets(files[d][i], call[t])'
                    /\ \A u \in Users : call'[u].op \in {"resolved", "created"} /\ TableOf[u] = d
                          => call'[u].fd # i
    BY DEF CloseInv
<1>1. call'[t] = call[t] /\ call[t].op = "close" /\ filesystems' = filesystems
    BY DEF MountsSame
<1>2. d = TableAt(call[t].entry) /\ i = FdAt(call[t].entry)
    BY <1>1 DEF TableAt, FdAt, MountsSame
<1>4. d \in Tables /\ i \in Fds
    <2>1. call[t] \in Calls
        BY AdminIs DEF BaseType
    <2>2. call[t].entry \in Nat \ {0}
        BY <1>1, <2>1, CallFields, FdsFinite
    <2>3. call[t].entry <= Len(fileTables) * Cardinality(Fds)
        BY <1>1 DEF UmountInv, UmountOps
    <2> QED BY <1>2, <2>2, <2>3, EntryAt
<1>5. /\ files[d][i] = NoFile \/ files[d][i] \in torn \/ InTargets(files[d][i], call[t])
      /\ \A u \in Users : call[u].op \in {"resolved", "created"} /\ TableOf[u] = d => call[u].fd # i
    BY <1>1, <1>2 DEF CloseInv
<1>6. files'[d][i] = files[d][i] \/ files'[d][i] = NoFile
    BY <1>4, <1>5
<1>7. files'[d][i] = NoFile \/ files'[d][i] \in torn' \/ InTargets(files[d][i], call[t])'
    <2>1. CASE files'[d][i] # NoFile /\ files'[d][i] \notin torn'
        <3>1. files'[d][i] = files[d][i] /\ parent'[files[d][i]] = parent[files[d][i]]
            BY <1>4, <1>6, <2>1
        <3>2. PICK m \in call[t].targets : filesystems[m] = parent[files[d][i]]
            BY <1>5, <2>1, <3>1 DEF InTargets
        <3> QED BY <1>1, <3>1, <3>2 DEF InTargets
    <2> QED BY <2>1
<1>8. \A u \in Users : call'[u].op \in {"resolved", "created"} /\ TableOf[u] = d => call'[u].fd # i
    BY <1>5
<1> QED BY <1>7, <1>8

\* Nobody is inside the close() of a forced umount().
LEMMA NoClose ==
    ASSUME \A a \in Admins : call'[a].op # "close"
    PROVE  CloseInv'
BY DEF CloseInv

\* Nobody inside umount() when the manager's mutex is free.
LEMMA FreeNoClose ==
    ASSUME LockInv, mutex = NoThread, \A a \in Admins : call'[a] = call[a]
    PROVE  CloseInv'
<1>1. \A a \in Admins : call'[a].op # "close"
    BY EraseOwns DEF UmountOps
<1> QED BY <1>1, NoClose

\* Only the thread inside umount() can be closing.
LEMMA OtherNoClose ==
    ASSUME LockInv, NEW t \in Admins, call[t].op \in UmountOps, call'[t].op # "close",
           \A u \in Callers : u # t => call'[u] = call[u]
    PROVE  CloseInv'
<1>1. \A a \in Admins : a # t => call'[a].op # "close"
    BY AdminIs, EraseOwns DEF UmountOps
<1> QED BY <1>1, NoClose

\* The entry a forced umount() is about to close.
LEMMA NextCloseInv ==
    ASSUME FilesystemInv, [Next]_vars
    PROVE  CloseInv'
<1>1. ASSUME NEW t \in Openers, open(t) PROVE CloseInv'
    <2>1. /\ BaseType /\ LockInv /\ UmountInv /\ EntryInv /\ CountInv /\ CloseInv
          /\ BaseType' /\ EntryInv' /\ CountInv'
        BY NextBaseType, NextEntryInv, NextCountInv DEF FilesystemInv
    <2>2. PICK i \in Fds : /\ t \in Users /\ FilesSame /\ MountsSame
                           /\ Moves(t, [op |-> "open", fd |-> i])
        BY <1>1, OpenEffect, <2>1
    <2>3. call'[t].op = "open" /\ \A u \in Callers : u # t => call'[u] = call[u]
        BY <2>2 DEF Moves, Returns, Idle
    <2> QED BY <2>1, <2>2, <2>3, UserIs, AdminIs, StepKeepsClose DEF FilesSame, CountsSame
<1>2. ASSUME NEW t \in Users, openResolve(t) PROVE CloseInv'
    <2>1. /\ BaseType /\ LockInv /\ UmountInv /\ EntryInv /\ CountInv /\ CloseInv
          /\ BaseType' /\ EntryInv' /\ CountInv'
        BY NextBaseType, NextEntryInv, NextCountInv DEF FilesystemInv
    <2>2. mutex = NoThread
        BY <1>2, ResolveEffect, <2>1
    <2>3. \A u \in Callers : u # t => call'[u] = call[u]
        BY <1>2, <2>1, UserMoves
    <2> QED BY <1>2, <2>1, <2>2, <2>3, UserIs, AdminIs, FreeNoClose
<1>3. ASSUME NEW t \in Users, openCreate(t) PROVE CloseInv'
    <2>1. /\ BaseType /\ LockInv /\ UmountInv /\ EntryInv /\ CountInv /\ CloseInv
          /\ BaseType' /\ EntryInv' /\ CountInv'
        BY NextBaseType, NextEntryInv, NextCountInv DEF FilesystemInv
    <2>2. call[t].op = "resolved" /\ files' = files /\ MountsSame
        BY <1>3, CreateEffect, <2>1
    <2>3. CASE Returns(t) /\ FilesSame
        <3>1. call'[t].op = "idle" /\ \A u \in Callers : u # t => call'[u] = call[u]
            BY <2>3 DEF Returns, Moves, Idle
        <3> QED BY <2>1, <2>2, <2>3, <3>1, UserIs, AdminIs, StepKeepsClose DEF FilesSame, CountsSame
    <2>4. ASSUME NEW f \in Files, Fresh(f), torn' = torn,
                 Moves(t, [op |-> "created", fd |-> call[t].fd, file |-> f]),
                 \A x \in Files : x # f => parent'[x] = parent[x]
          PROVE  CloseInv'
        <3>1. /\ call'[t].op = "created" /\ call'[t].fd = call[t].fd
              /\ \A u \in Callers : u # t => call'[u] = call[u]
            BY <2>4 DEF Moves
        <3>2. ASSUME NEW d \in Tables, NEW i \in Fds, files[d][i] # NoFile
              PROVE  files[d][i] \in torn \/ parent'[files[d][i]] = parent[files[d][i]]
            <4>1. files[d][i] \in Files /\ (files[d][i] \in torn \/ Alive(files[d][i]))
                BY <3>2, EntryAlive
            <4> QED BY <2>4, <4>1 DEF Fresh
        <3>3. \A u \in Users : call'[u].op \in {"resolved", "created"} =>
                 call[u].op \in {"resolved", "created"} /\ call'[u].fd = call[u].fd
            BY <2>2, <3>1, UserIs
        <3>4. \A a \in Admins : call'[a] = call[a]
            BY <3>1, UserIs, AdminIs
        <3> QED BY <2>1, <2>2, <2>4, <3>2, <3>3, <3>4, StepKeepsClose
    <2> QED BY <1>3, CreateEffect, <2>1, <2>3, <2>4
<1>4. ASSUME NEW t \in Users, openPublish(t) PROVE CloseInv'
    <2>1. /\ BaseType /\ LockInv /\ UmountInv /\ EntryInv /\ CountInv /\ CloseInv
          /\ BaseType' /\ EntryInv' /\ CountInv'
        BY NextBaseType, NextEntryInv, NextCountInv DEF FilesystemInv
    <2>2. /\ call[t].op = "created" /\ CountsSame /\ MountsSame /\ torn' = torn
          /\ Stores(TableOf[t], call[t].fd, call[t].file)
          /\ Moves(t, [op |-> "published", fd |-> call[t].fd, file |-> call[t].file])
        BY <1>4, PublishEffect, <2>1
    <2>3. call'[t].op = "published" /\ \A u \in Callers : u # t => call'[u] = call[u]
        BY <2>2 DEF Moves
    <2>4. \A e \in Tables, j \in Fds :
             \/ files'[e][j] = files[e][j]
             \/ \E u \in Users : call[u].op = "created" /\ TableOf[u] = e /\ call[u].fd = j
        BY <1>4, <2>2 DEF Stores
    <2>5. \A u \in Users : call'[u].op \in {"resolved", "created"} =>
             call[u].op \in {"resolved", "created"} /\ call'[u].fd = call[u].fd
        BY <2>3, UserIs
    <2>6. \A a \in Admins : call'[a] = call[a]
        BY <1>4, <2>3, UserIs, AdminIs
    <2> QED BY <2>1, <2>2, <2>4, <2>5, <2>6, StepKeepsClose DEF CountsSame
<1>5. ASSUME NEW t \in Users, openCount(t) PROVE CloseInv'
    <2>1. /\ BaseType /\ LockInv /\ UmountInv /\ EntryInv /\ CountInv /\ CloseInv
          /\ BaseType' /\ EntryInv' /\ CountInv'
        BY NextBaseType, NextEntryInv, NextCountInv DEF FilesystemInv
    <2>2. Returns(t) /\ MountsSame /\ files' = files /\ torn' = torn
        BY <1>5, CountEffect, <2>1
    <2>3. call'[t].op = "idle" /\ \A u \in Callers : u # t => call'[u] = call[u]
        BY <2>2 DEF Returns, Moves, Idle
    <2>4. \A o \in Files : parent'[o] = NoFs \/ parent'[o] = parent[o]
        <3>1. CASE CountsSame
            BY <3>1 DEF CountsSame
        <3>2. CASE Release(One(call[t].file))
            BY <2>1, <3>2, OneIs, ReleaseKeepsParents
        <3> QED BY <1>5, CountEffect, <2>1, <3>1, <3>2
    <2>5. \A d \in Tables, i \in Fds : files'[d][i] # NoFile /\ files'[d][i] = files[d][i]
             => files[d][i] \in torn' \/ parent'[files[d][i]] = parent[files[d][i]]
        BY <2>1, <2>4, EntryAliveNext
    <2> QED BY <2>1, <2>2, <2>3, <2>5, UserIs, AdminIs, StepKeepsClose
<1>6. ASSUME NEW t \in Users, use(t) PROVE CloseInv'
    <2>1. /\ BaseType /\ LockInv /\ UmountInv /\ EntryInv /\ CountInv /\ CloseInv
          /\ BaseType' /\ EntryInv' /\ CountInv'
        BY NextBaseType, NextEntryInv, NextCountInv DEF FilesystemInv
    <2>2. PICK i \in Fds : /\ MountsSame /\ files' = files /\ parent' = parent /\ torn' = torn
                           /\ Moves(t, [op |-> "use", file |-> files[TableOf[t]][i]])
        BY <1>6, UseEffect, <2>1
    <2>3. call'[t].op = "use" /\ \A u \in Callers : u # t => call'[u] = call[u]
        BY <2>2 DEF Moves
    <2> QED BY <2>1, <2>2, <2>3, UserIs, AdminIs, StepKeepsClose
<1>7. ASSUME NEW t \in Users, useEnd(t) PROVE CloseInv'
    <2>1. /\ BaseType /\ LockInv /\ UmountInv /\ EntryInv /\ CountInv /\ CloseInv
          /\ BaseType' /\ EntryInv' /\ CountInv'
        BY NextBaseType, NextEntryInv, NextCountInv DEF FilesystemInv
    <2>2. /\ Release(One(call[t].file)) /\ Moves(t, Idle) /\ MountsSame /\ files' = files
          /\ torn' = torn
        BY <1>7, UseEndEffect, <2>1
    <2>3. call'[t].op = "idle" /\ \A u \in Callers : u # t => call'[u] = call[u]
        BY <2>2 DEF Moves, Idle
    <2>4. \A o \in Files : parent'[o] = NoFs \/ parent'[o] = parent[o]
        BY <2>1, <2>2, OneIs, ReleaseKeepsParents
    <2>5. \A d \in Tables, i \in Fds : files'[d][i] # NoFile /\ files'[d][i] = files[d][i]
             => files[d][i] \in torn' \/ parent'[files[d][i]] = parent[files[d][i]]
        BY <2>1, <2>4, EntryAliveNext
    <2> QED BY <2>1, <2>2, <2>3, <2>5, UserIs, AdminIs, StepKeepsClose
<1>8. ASSUME NEW t \in Users, close(t) PROVE CloseInv'
    <2>1. /\ BaseType /\ LockInv /\ UmountInv /\ EntryInv /\ CountInv /\ CloseInv
          /\ BaseType' /\ EntryInv' /\ CountInv'
        BY NextBaseType, NextEntryInv, NextCountInv DEF FilesystemInv
    <2>2. PICK k \in Fds : /\ Release(One(files[TableOf[t]][k])) /\ Stores(TableOf[t], k, NoFile)
                           /\ MountsSame /\ call' = call /\ torn \subseteq torn'
        BY <1>8, CloseEffect, <2>1
    <2>3. \A o \in Files : parent'[o] = NoFs \/ parent'[o] = parent[o]
        BY <2>1, <2>2, OneIs, ReleaseKeepsParents
    <2>4. \A e \in Tables, i \in Fds : files'[e][i] # NoFile /\ files'[e][i] = files[e][i]
             => files[e][i] \in torn' \/ parent'[files[e][i]] = parent[files[e][i]]
        BY <2>1, <2>3, EntryAliveNext
    <2>5. \A e \in Tables, i \in Fds : files'[e][i] = files[e][i] \/ files'[e][i] = NoFile
        BY <2>2 DEF Stores
    <2> QED BY <2>1, <2>2, <2>4, <2>5, StepKeepsClose
<1>9. ASSUME NEW d \in Tables, addFileDescriptorTable(d) PROVE CloseInv'
    <2>1. /\ BaseType /\ LockInv /\ UmountInv /\ EntryInv /\ CountInv /\ CloseInv
          /\ BaseType' /\ EntryInv' /\ CountInv'
        BY NextBaseType, NextEntryInv, NextCountInv DEF FilesystemInv
    <2>2. mutex = NoThread /\ call' = call
        BY <1>9, AddEffect, <2>1 DEF LockInv
    <2> QED BY <2>1, <2>2, FreeNoClose
<1>10. ASSUME NEW d \in Tables, removeFileDescriptorTable(d) PROVE CloseInv'
    <2>1. /\ BaseType /\ LockInv /\ UmountInv /\ EntryInv /\ CountInv /\ CloseInv
          /\ BaseType' /\ EntryInv' /\ CountInv'
        BY NextBaseType, NextEntryInv, NextCountInv DEF FilesystemInv
    <2>2. mutex = NoThread /\ call' = call
        BY <1>10, RemoveEffect, <2>1 DEF LockInv
    <2> QED BY <2>1, <2>2, FreeNoClose
<1>11. ASSUME NEW d \in Tables, DestroyEntry(d) PROVE CloseInv'
    <2>1. /\ BaseType /\ LockInv /\ UmountInv /\ EntryInv /\ CountInv /\ CloseInv
          /\ BaseType' /\ EntryInv' /\ CountInv'
        BY NextBaseType, NextEntryInv, NextCountInv DEF FilesystemInv
    <2>2. PICK k \in Fds : /\ Release(One(files[d][k])) /\ Stores(d, k, NoFile)
                           /\ MountsSame /\ call' = call /\ torn \subseteq torn'
        BY <1>11, DestroyEffect, <2>1
    <2>3. \A o \in Files : parent'[o] = NoFs \/ parent'[o] = parent[o]
        BY <2>1, <2>2, OneIs, ReleaseKeepsParents
    <2>4. \A e \in Tables, i \in Fds : files'[e][i] # NoFile /\ files'[e][i] = files[e][i]
             => files[e][i] \in torn' \/ parent'[files[e][i]] = parent[files[e][i]]
        BY <2>1, <2>3, EntryAliveNext
    <2>5. \A e \in Tables, i \in Fds : files'[e][i] = files[e][i] \/ files'[e][i] = NoFile
        BY <2>2 DEF Stores
    <2> QED BY <2>1, <2>2, <2>4, <2>5, StepKeepsClose
<1>12. ASSUME NEW t \in Admins, NEW m \in MountPoints, kmount(t, m) PROVE CloseInv'
    <2>1. /\ BaseType /\ LockInv /\ UmountInv /\ EntryInv /\ CountInv /\ CloseInv
          /\ BaseType' /\ EntryInv' /\ CountInv'
        BY NextBaseType, NextEntryInv, NextCountInv DEF FilesystemInv
    <2>2. mutex = NoThread /\ call' = call
        BY <1>12, MountEffect, <2>1 DEF LockInv
    <2> QED BY <2>1, <2>2, FreeNoClose
<1>13. ASSUME NEW t \in Admins, NEW m \in MountPoints, NEW force \in BOOLEAN,
              umount(t, m, force)
       PROVE CloseInv'
    <2>1. /\ BaseType /\ LockInv /\ UmountInv /\ EntryInv /\ CountInv /\ CloseInv
          /\ BaseType' /\ EntryInv' /\ CountInv'
        BY NextBaseType, NextEntryInv, NextCountInv DEF FilesystemInv
    <2>2. mutex = NoThread
        BY <1>13, UmountEffect, <2>1
    <2>3. call'[t].op = "scan"
        <3>1. call'[t] = [op |-> "scan", targets |-> FsToUmount(m), force |-> force, entry |-> 1]
            BY <1>13, UmountEffect, <2>1
        <3> QED BY <3>1
    <2>4. \A a \in Admins : call[a].op \notin UmountOps \cup OpenOps /\ a \in Callers
        BY <2>1, <2>2, AdminIs, EraseOwns
    <2>5. \A a \in Admins : a # t => call'[a] = call[a]
        BY <1>13, UmountEffect, <2>1, <2>4 DEF OpenOps
    <2>6. \A a \in Admins : call'[a].op # "close"
        BY <2>3, <2>4, <2>5 DEF UmountOps
    <2> QED BY <2>6, NoClose
<1>14. ASSUME NEW t \in Admins, umountScan(t) PROVE CloseInv'
    <2>1. /\ BaseType /\ LockInv /\ UmountInv /\ EntryInv /\ CountInv /\ CloseInv
          /\ BaseType' /\ EntryInv' /\ CountInv'
        BY NextBaseType, NextEntryInv, NextCountInv DEF FilesystemInv
    <2>2. PICK c, f : c = call[t] /\ f = files[TableAt(c.entry)][FdAt(c.entry)]
        OBVIOUS
    <2>3. /\ c.op = "scan" /\ files' = files /\ parent' = parent /\ MountsSame
          /\ \A u \in Callers : u # t => call'[u] = call[u]
        BY <1>14, ScanEffect, <2>1, <2>2, UmountMoves
    <2>4. ASSUME call'[t].op \in {"check", "scan", "idle"} PROVE CloseInv'
        BY <1>14, <2>1, <2>2, <2>3, <2>4, OtherNoClose DEF UmountOps
    <2>5. CASE Moves(t, [op |-> "check", targets |-> c.targets, force |-> c.force, tries |-> 0])
        <3>1. call'[t].op = "check"
            BY <2>5 DEF Moves
        <3> QED BY <2>4, <3>1
    <2>6. CASE Moves(t, [op |-> "scan", targets |-> c.targets, force |-> c.force,
                         entry |-> c.entry + 1])
        <3>1. call'[t].op = "scan"
            BY <2>6 DEF Moves
        <3> QED BY <2>4, <3>1
    <2>7. CASE Unlocks(t)
        <3>1. call'[t].op = "idle"
            BY <2>7 DEF Moves, Unlocks, Idle
        <3> QED BY <2>4, <3>1
    <2>8. CASE /\ f \in Files /\ InTargets(f, c)
               /\ Moves(t, [op |-> "close", targets |-> c.targets, file |-> f, entry |-> c.entry])
        <3>1. /\ call'[t].op = "close" /\ call'[t].targets = c.targets
              /\ call'[t].entry = c.entry
            BY <2>8 DEF Moves
        <3>2. \A a \in Admins : a # t => call'[a].op # "close"
            BY <1>14, <2>1, <2>2, <2>3, AdminIs, EraseOwns DEF UmountOps
        <3>3. PICK d, i : d = TableAt(c.entry) /\ i = FdAt(c.entry)
            OBVIOUS
        <3>4. d = TableAt(call[t].entry)' /\ i = FdAt(call[t].entry)'
            BY <2>3, <3>1, <3>3 DEF TableAt, FdAt, MountsSame
        <3>5. f = files'[d][i] /\ InTargets(files[d][i], call[t])'
            BY <2>2, <2>3, <2>8, <3>1, <3>3 DEF InTargets, MountsSame
        <3>6. ASSUME NEW u \in Users, call'[u].op \in {"resolved", "created"}, TableOf[u] = d,
                     call'[u].fd = i
              PROVE  FALSE
            <4>1. call'[u] = call[u]
                BY <1>14, <2>3, UserIs, AdminIs
            <4>2. files[d][i] = NoFile
                BY <2>1, <3>6, <4>1 DEF EntryInv
            <4> QED BY <2>2, <2>8, <3>3, <4>2, FilesystemAssumption
        <3> QED BY <3>1, <3>2, <3>4, <3>5, <3>6 DEF CloseInv
    <2> QED BY <1>14, ScanEffect, <2>1, <2>2, <2>5, <2>6, <2>7, <2>8
<1>15. ASSUME NEW t \in Admins, umountClose(t) PROVE CloseInv'
    <2>1. /\ BaseType /\ LockInv /\ UmountInv /\ EntryInv /\ CountInv /\ CloseInv
          /\ BaseType' /\ EntryInv' /\ CountInv'
        BY NextBaseType, NextEntryInv, NextCountInv DEF FilesystemInv
    <2>2. /\ call[t].op = "close"
          /\ Moves(t, [op |-> "scan", targets |-> call[t].targets, force |-> TRUE,
                       entry |-> call[t].entry + 1])
        BY <1>15, UmountCloseEffect, <2>1
    <2>3. call'[t].op = "scan" /\ \A u \in Callers : u # t => call'[u] = call[u]
        BY <2>2 DEF Moves
    <2> QED BY <1>15, <2>1, <2>2, <2>3, OtherNoClose DEF UmountOps
<1>16. ASSUME NEW t \in Admins, umountCheck(t) PROVE CloseInv'
    <2>1. /\ BaseType /\ LockInv /\ UmountInv /\ EntryInv /\ CountInv /\ CloseInv
          /\ BaseType' /\ EntryInv' /\ CountInv'
        BY NextBaseType, NextEntryInv, NextCountInv DEF FilesystemInv
    <2>2. call[t].op = "check" /\ \A u \in Callers : u # t => call'[u] = call[u]
        BY <1>16, CheckEffect, <2>1, UmountMoves
    <2>3. call'[t].op # "close"
        <3>1. CASE Unlocks(t)
            BY <3>1 DEF Moves, Unlocks, Idle
        <3>2. CASE Moves(t, [op |-> "erase", targets |-> call[t].targets])
            BY <3>2 DEF Moves
        <3>3. ASSUME NEW n \in 0 .. maxRetry - 1,
                     Moves(t, [op |-> "check", targets |-> call[t].targets,
                               force |-> call[t].force, tries |-> n])
              PROVE  call'[t].op # "close"
            BY <3>3 DEF Moves
        <3> QED BY <1>16, CheckEffect, <2>1, <3>1, <3>2, <3>3
    <2> QED BY <1>16, <2>1, <2>2, <2>3, OtherNoClose DEF UmountOps
<1>17. ASSUME NEW t \in Admins, umountErase(t) PROVE CloseInv'
    <2>1. /\ BaseType /\ LockInv /\ UmountInv /\ EntryInv /\ CountInv /\ CloseInv
          /\ BaseType' /\ EntryInv' /\ CountInv'
        BY NextBaseType, NextEntryInv, NextCountInv DEF FilesystemInv
    <2>2. call[t].op = "erase" /\ Unlocks(t)
        BY <1>17, EraseEffect, <2>1
    <2>3. call'[t].op = "idle" /\ \A u \in Callers : u # t => call'[u] = call[u]
        BY <2>2 DEF Moves, Unlocks, Idle
    <2> QED BY <1>17, <2>1, <2>2, <2>3, OtherNoClose DEF UmountOps
<1>18. CASE UNCHANGED vars
    BY <1>18, StepKeepsClose DEF FilesystemInv, vars, MountsSame
<1> QED
    BY <1>1, <1>2, <1>3, <1>4, <1>5, <1>6, <1>7, <1>8, <1>9, <1>10, <1>11,
       <1>12, <1>13, <1>14, <1>15, <1>16, <1>17, <1>18
    DEF Next, OpenStep, UmountStep

-----------------------------------------------------------------------------
(* The theorems *)

\* The invariant holds when the root has been mounted.
LEMMA InitInv == Init => FilesystemInv
<1> SUFFICES ASSUME Init PROVE FilesystemInv
    OBVIOUS
<1>1. BaseType
    BY InitBaseType
<1>2. /\ \A t \in Callers : call[t] = Idle
      /\ \A t \in Callers : call[t].op = "idle"
    BY DEF Init, Idle, Callers
<1>3. \A t \in Users : call[t].op = "idle" /\ TableOf[t] \in Tables /\ t # NoThread
    BY <1>2, UserIs
<1>4. \A t \in Admins : call[t].op = "idle" /\ t # NoThread
    BY <1>2, AdminIs
<1>5. \A d \in Tables, i \in Fds : files[d][i] = NoFile
    BY DEF Init
<1>6. LockInv
    <2>1. Once(fileTables)
        <3>1. DOMAIN fileTables = {1}
            BY DEF Init
        <3> QED BY <3>1 DEF Once
    <2>2. \A t \in Users : busy[TableOf[t]] # t
        BY <1>3 DEF Init
    <2>3. \A t \in Admins : mutex # t
        BY <1>4 DEF Init
    <2> QED BY <1>3, <1>4, <2>1, <2>2, <2>3 DEF LockInv, OpenOps, UmountOps
<1>7. UmountInv
    BY <1>4 DEF UmountInv, UmountOps
<1>8. EntryInv
    BY <1>3, <1>5 DEF EntryInv, Init
<1>9. CountInv
    <2>1. ASSUME NEW o \in Files PROVE Holders(o) = 0
        <3>1. ~InEntry(files, o)
            BY <1>5, FilesystemAssumption DEF InEntry
        <3>2. \A u \in Callers : ~Holds(call, u, o)
            BY <1>2 DEF Holds
        <3> QED BY <3>1, <3>2, NoHolders
    <2>2. \A o \in Files : refs[o] = 0 /\ parent[o] = NoFs
        BY DEF Init
    <2> QED BY <2>1, <2>2 DEF CountInv, Alive
<1>10. LateInv
    BY <1>3, <1>4 DEF LateInv
<1>11. OnlyLateFilesRemain
    <2>1. \A o \in Files : parent[o] = NoFs
        BY DEF Init
    <2> QED BY <1>3, <2>1 DEF OnlyLateFilesRemain, Gone
<1>12. CloseInv
    BY <1>4 DEF CloseInv
<1> QED BY <1>1, <1>6, <1>7, <1>8, <1>9, <1>10, <1>11, <1>12 DEF FilesystemInv

\* The invariant is inductive.
LEMMA Invariant == Spec => []FilesystemInv
<1>1. FilesystemInv /\ [Next]_vars => FilesystemInv'
    BY NextBaseType, NextLockInv, NextUmountInv, NextEntryInv, NextCountInv, NextLateInv,
       NextCloseInv DEF FilesystemInv
<1> QED BY <1>1, InitInv, PTL DEF Spec

LEMMA TypeFollows == FilesystemInv => TypeOK
BY DEF FilesystemInv, BaseType, TypeOK, Callers

\* Every state of the mount table, the descriptor tables and the threads
\* inside them is well formed; above all the loop of umount() stays within
\* the number of entries there can be, while tables come and go.
THEOREM FilesystemTypeCorrect == Spec => []TypeOK
BY Invariant, TypeFollows, PTL

\* The references of every file are counted, unless at its address an entry
\* was taken, by close() or a forced umount(), before open() had counted it:
\* addresses of deleted files are used again, whoever still points to them.
THEOREM ReferencesCounted == Spec => []RefsConsistent
<1>1. FilesystemInv => RefsConsistent
    <2> SUFFICES ASSUME FilesystemInv PROVE RefsConsistent
        OBVIOUS
    <2>1. TypeOK /\ BaseType /\ EntryInv /\ CountInv
        BY TypeFollows DEF FilesystemInv
    <2>2. ASSUME NEW o \in Files \ torn, Published(o) PROVE Alive(o)
        <3>1. PICK t \in Users : call[t].op = "published" /\ call[t].file = o
            BY <2>2 DEF Published
        <3>2. TableOf[t] \in Tables /\ call[t] \in Calls
            BY <2>1, UserIs DEF BaseType
        <3>3. call[t].fd \in Fds
            BY <3>1, <3>2, CallFields DEF OpenOps
        <3>4. files[TableOf[t]][call[t].fd] = o
            BY <2>1, <2>2, <3>1 DEF EntryInv
        <3>5. o # NoFile
            BY FilesystemAssumption
        <3> QED BY <3>2, <3>3, <3>4, <3>5, EntryAlive
    <2> QED BY <2>1, <2>2 DEF RefsConsistent, CountInv
<1> QED BY <1>1, Invariant, PTL

\* A filesystem that umount() has removed has no files left but those of
\* threads that were past resolvePath() when umount() began, for any number
\* of threads, tables and mount points.
THEOREM UmountMissesOnlyLate == Spec => []OnlyLateFilesRemain
<1>1. FilesystemInv => OnlyLateFilesRemain
    BY DEF FilesystemInv
<1> QED BY <1>1, Invariant, PTL

\* The close() of a forced umount(), of an entry it looked at earlier, closes
\* a file of what is unmounted or nothing, if the file was not torn.
THEOREM ForcedCloseSafe == Spec => ForcedCloseHitsTargets
<1>1. ASSUME FilesystemInv, NEW t \in Admins, umountClose(t)
      PROVE  LET o == files[TableAt(call[t].entry)][FdAt(call[t].entry)] IN
             o = NoFile \/ o \in torn \/ InTargets(o, call[t])
    BY <1>1 DEF FilesystemInv, CloseInv, umountClose
<1>2. FilesystemInv /\ [Next]_vars =>
        [\A t \in Admins : umountClose(t) =>
           LET o == files[TableAt(call[t].entry)][FdAt(call[t].entry)] IN
           o = NoFile \/ o \in torn \/ InTargets(o, call[t])]_vars
    BY <1>1
<1> QED BY <1>2, Invariant, PTL DEF Spec, ForcedCloseHitsTargets
=============================================================================
