-------------------------- MODULE SessionFilesProofs --------------------------
(***************************************************************************)
(* Theorems about SessionFiles: what was deleted stays deleted, what is    *)
(* there is found, calls agree on the copy they are about, and listings    *)
(* and forks show what they should, for any directories, calls and writes. *)
(***************************************************************************)
EXTENDS SessionFiles, FiniteSetTheorems, NaturalsInduction, WellFoundedInduction, TLAPS

\* A set of natural numbers that is not empty has a least member.
LEMMA LeastNat ==
    ASSUME NEW T \in SUBSET Nat, T # {}
    PROVE  \E m \in T : \A n \in T : m <= n
<1>1. IsWellFoundedOn(OpToRel(<, Nat), Nat)
  BY NatLessThanWellFounded
<1>2. PICK m \in T : \A n \in T : ~(<<n, m>> \in OpToRel(<, Nat))
  BY <1>1, WFMin
<1>3. \A n \in T : ~(n < m)
  BY <1>2 DEF OpToRel
<1>. QED
  BY <1>3

Lines == Callers \cup {"talk", "meta", "mode", "side"}
Ops == {"rename", "delete", "fork", "info", "messages", "list"}
Pcs == {"search", "opened", "found", "unlinked", "read", "created", "names", "rows"}
          \cup Finished
Files == 1..MaxFiles
MaybeFile == 0..MaxFiles
MaybeTitle == Callers \cup {Nobody}

RowType == [session : Sessions, file : Files, title : MaybeTitle, mtime : Nat]
LatestType == MaybeTitle \X MaybeFile \X Nat
NewType == [pc : {"new"}, op : Ops \cup {Nobody}]
CallType ==
    [pc : Pcs, op : Ops, order : Orders, at : Nat, file : MaybeFile,
     names : SUBSET Sessions, rows : SUBSET RowType, lines : Seq({"talk", "meta"}), want : LatestType]

Begun(c) == call[c].pc # "new"

\* Which call may be where, and in which directory.
Stage(c) ==
    /\ call[c].pc = "opened" => call[c].op = "rename"
    /\ call[c].pc = "unlinked" => call[c].op = "delete"
    /\ call[c].pc = "found" => call[c].op \in {"delete", "fork"}
    /\ call[c].pc \in {"read", "created", "no_messages"} => call[c].op = "fork"
    /\ call[c].pc \in {"names", "rows"} => call[c].op = "list"
    /\ call[c].pc \in {"search", "not_found"} => call[c].op # "list"
    /\ call[c].at \in 1..(Len(call[c].order) + 1)
    /\ call[c].pc = "rows" \/ call[c].op # "list" => call[c].at \in DOMAIN call[c].order

TypeOK ==
    /\ file \in [Dirs -> [Sessions -> 0..created]]
    /\ data \in [Files -> Seq(Lines)]
    /\ mtime \in [Files -> 0..clock] /\ window \in [head : Nat, tail : Nat \ {0}]
    /\ agents \subseteq Dirs /\ gone \subseteq Dirs
    /\ created \in MaybeFile /\ clock \in Nat /\ writes \in 0..MaxWrites
    /\ call \in [Callers -> NewType \cup CallType]
    /\ \A c \in Callers : Begun(c) => Stage(c)
    /\ steady \in [Callers -> SUBSET (Dirs \X Sessions)]
    /\ quiet \in [Callers -> BOOLEAN]
    /\ latest \in LatestType

-----------------------------------------------------------------------------
(***************************************************************************)
(* The invariant                                                           *)
(***************************************************************************)
\* A file has one name, one content for each time, and no content before it is made.
OneName ==
    \A d, e \in Dirs : \A s, t \in Sessions :
        file[d][s] # NoFile /\ file[d][s] = file[e][t] => d = e /\ s = t
Times ==
    /\ \A f, g \in Files : mtime[f] = mtime[g] /\ mtime[f] # 0 => f = g
    /\ \A f \in Files : data[f] # <<>> => mtime[f] # 0
    /\ \A f \in Files : f > created => data[f] = <<>>

\* The file of a fork is there from its creation on, and has its title at the end.
ForkMade(c) ==
    /\ \A d \in Dirs : file[d][c] # NoFile =>
          Begun(c) /\ call[c].op = "fork" /\ call[c].pc \in {"created", "ok"}
    /\ At(c, "created", "fork") => file[Dir(c)][c] # NoFile /\ data[file[Dir(c)][c]] = <<>>
    /\ At(c, "ok", "fork") => Shown(file[Dir(c)][c])

\* A copy that is steady is there; the searches that passed it by have none.
SteadyThere(c) ==
    \A p \in steady[c] :
        IF call[c].op = "list" THEN Shown(file[p[1]][p[2]])
        ELSE p[2] = Session /\ NonEmpty(file[p[1]][Session])
Passed(c) ==
    /\ call[c].pc \in {"search", "opened"} =>
          \A j \in 1..(call[c].at - 1) : <<call[c].order[j], Session>> \notin steady[c]
    /\ call[c].pc = "opened" =>
          call[c].file = Here(c) \/ <<Dir(c), Session>> \notin steady[c]
    /\ call[c].pc = "not_found" /\ call[c].op \in {"rename", "info", "messages"} =>
          steady[c] = {}

\* The file a rename has open has no other name than the one it was found by.
Opened(c) ==
    call[c].pc = "opened" =>
        /\ call[c].file \in 1..created
        /\ \A d \in Dirs : \A s \in Sessions :
              file[d][s] = call[c].file => d = Dir(c) /\ s = Session

\* While nothing comes or goes, a call is about the first copy on its way.
EmptyBefore(c, n) ==
    \A j \in 1..n : ~NonEmpty(file[call[c].order[j]][Session])
AboutFirst(c) ==
    quiet[c] /\ call[c].op \in {"rename", "info", "messages", "fork"} =>
        IF call[c].pc = "not_found" THEN EmptyBefore(c, Len(call[c].order))
        ELSE /\ EmptyBefore(c, call[c].at - 1)
             /\ call[c].pc = "opened" => call[c].file = Here(c)
             /\ call[c].pc = "found" => NonEmpty(Here(c))
             /\ call[c].pc \in {"read", "created", "ok", "no_messages"} =>
                   call[c].file = Here(c) /\ NonEmpty(Here(c))
NoneHeld(c) ==
    call[c].op # "delete" /\ call[c].pc \in {"search", "found", "not_found"} => call[c].file = NoFile

\* What a listing has read: of a steady copy whose directory is behind it, a row.
HasRow(c, p) == \E r \in call[c].rows : r.session = p[2] /\ r.file = file[p[1]][p[2]]
Covered(c) ==
    \A p \in steady[c] :
        /\ call[c].pc \in {"names", "rows"} =>
              \A j \in 1..(call[c].at - 1) : call[c].order[j] = p[1] => HasRow(c, p)
        /\ call[c].pc = "rows" /\ Dir(c) = p[1] => p[2] \in call[c].names \/ HasRow(c, p)
        /\ call[c].pc = "ok" => \E r \in call[c].rows : r.session = p[2]

\* A row is what its file was at the time it has.
RowsTrue(c) ==
    /\ \A r \in call[c].rows :
          /\ r.mtime \in 1..mtime[r.file]
          /\ r.mtime = mtime[r.file] => r.title = Title(r.file)
          /\ \A g \in Files : mtime[g] = r.mtime => g = r.file
    /\ \A r, o \in call[c].rows : r.mtime = o.mtime => r.file = o.file /\ r.title = o.title
    /\ call[c].pc = "ok" =>
          \A r, o \in call[c].rows : r.session = o.session => r = o

\* The last rename is the last title of its file, and a listing can see it.
LatestSeen ==
    LET lines == data[latest[2]]
        k == latest[3]
    IN  /\ k \in DOMAIN lines /\ lines[k] = latest[1] /\ InSight(k, Len(lines))
        /\ lines[1] # "side"
        /\ \A j \in DOMAIN lines : lines[j] \in Callers => j <= k

\* The last rename is in the newest copy.
LatestNewest ==
    latest[1] # Nobody =>
        /\ latest[2] # NoFile /\ \E d \in Dirs : file[d][Session] = latest[2]
        /\ LatestSeen
        /\ \A d \in Dirs : NonEmpty(file[d][Session]) /\ file[d][Session] # latest[2] =>
              mtime[file[d][Session]] < mtime[latest[2]]

\* Whoever made it has returned, so that it is not the last one once more.
Renamed(x) == x # Nobody => call[x].pc = "ok"

\* As long as it is the last one, a listing that began after it reads no newer row.
Tracks(c) == call[c].want = latest /\ latest[1] # Nobody
Recent(c) ==
    /\ call[c].pc \in {"names", "rows"} /\ Tracks(c) =>
          /\ \E d \in Dirs : file[d][Session] = latest[2] /\ <<d, Session>> \in steady[c]
          /\ \A r \in call[c].rows : r.session = Session =>
                IF r.file = latest[2] THEN r.title = latest[1]
                ELSE /\ r.mtime < mtime[latest[2]]
                     /\ \A o \in call[c].rows : o.file = latest[2] => r.mtime < o.mtime
          /\ \A d \in Dirs : NonEmpty(file[d][Session]) /\ file[d][Session] # latest[2] =>
                \A o \in call[c].rows : o.file = latest[2] => mtime[file[d][Session]] < o.mtime
    /\ call[c].pc = "ok" /\ call[c].want[1] # Nobody =>
          \E r \in call[c].rows : r.session = Session /\ r.title = call[c].want[1]

SearchInv(c) == SteadyThere(c) /\ Passed(c) /\ Opened(c) /\ AboutFirst(c) /\ NoneHeld(c)
ListInv(c) == Covered(c) /\ RowsTrue(c) /\ Recent(c)

CallInv(c) ==
    /\ ForkMade(c)
    /\ Begun(c) => SearchInv(c) /\ Renamed(call[c].want[1])
    /\ Begun(c) /\ call[c].op = "list" => ListInv(c)

DirInv == OneName /\ Times /\ DeletedStaysDeleted /\ LatestNewest /\ Renamed(latest[1])

FilesInv == TypeOK /\ DirInv /\ \A c \in Callers : CallInv(c)

-----------------------------------------------------------------------------
(***************************************************************************)
(* Helpers: the last of some positions, the lines of some kinds, the title *)
(***************************************************************************)
LEMMA MaxIs ==
    ASSUME NEW T \in SUBSET Nat, T # {}, NEW n \in Nat, \A x \in T : x <= n
    PROVE  Max(T) \in T /\ \A x \in T : x <= Max(T)
<1>. DEFINE U == {n - x : x \in T}
<1>1. U \in SUBSET Nat /\ U # {}
  <2>1. \A x \in T : n - x \in Nat
    OBVIOUS
  <2>. QED
    BY <2>1
<1>2. PICK u \in U : \A v \in U : u <= v
  BY <1>1, LeastNat
<1>3. \E m \in T : \A x \in T : m >= x
  <2>1. PICK m \in T : u = n - m
    BY <1>2
  <2>2. ASSUME NEW x \in T PROVE m >= x
    <3>1. n - x \in U
      OBVIOUS
    <3>. QED
      BY <1>2, <2>1, <3>1
  <2>. QED
    BY <2>2
<1>. QED
  BY <1>3 DEF Max

\* g[n] has the lines of these kinds among the first n.
IsHaving(g, n, lines, kinds) ==
    g = [k \in 0..n |->
            IF k = 0 THEN <<>>
            ELSE IF lines[k] \in kinds THEN Append(g[k - 1], lines[k]) ELSE g[k - 1]]

LEMMA HavingStep ==
    ASSUME NEW lines, NEW kinds, NEW n \in Nat, NEW g, IsHaving(g, n, lines, kinds)
    PROVE  \E h : IsHaving(h, n + 1, lines, kinds)
<1>. DEFINE h == [k \in 0..(n + 1) |->
                    IF k = 0 THEN <<>>
                    ELSE IF lines[k] \in kinds THEN Append(g[k - 1], lines[k]) ELSE g[k - 1]]
<1>1. ASSUME NEW k \in 0..n PROVE h[k] = g[k]
  <2>1. g[k] = IF k = 0 THEN <<>>
               ELSE IF lines[k] \in kinds THEN Append(g[k - 1], lines[k]) ELSE g[k - 1]
    BY DEF IsHaving
  <2>. QED
    BY <2>1
<1>2. \A k \in 0..(n + 1) : k # 0 => k - 1 \in 0..n
  OBVIOUS
<1>3. \A k \in 0..(n + 1) :
         h[k] = IF k = 0 THEN <<>>
                ELSE IF lines[k] \in kinds THEN Append(h[k - 1], lines[k]) ELSE h[k - 1]
  BY <1>1, <1>2
<1>4. h = [k \in 0..(n + 1) |-> h[k]]
  OBVIOUS
<1>5. IsHaving(h, n + 1, lines, kinds)
  <2>. HIDE DEF h
  <2>. QED
    BY <1>3, <1>4 DEF IsHaving
<1>. QED
  BY <1>5

LEMMA HavingExists ==
    ASSUME NEW lines, NEW kinds, NEW n \in Nat
    PROVE  \E g : IsHaving(g, n, lines, kinds)
<1>. DEFINE Bad == {k \in Nat : ~ \E g : IsHaving(g, k, lines, kinds)}
<1>. SUFFICES ASSUME Bad # {} PROVE FALSE
  OBVIOUS
<1>1. PICK m \in Bad : \A k \in Bad : m <= k
  BY LeastNat
<1>2. CASE m = 0
  <2>. DEFINE g == [k \in 0..0 |-> <<>>]
  <2>1. IsHaving(g, 0, lines, kinds)
    BY DEF IsHaving
  <2>. QED
    BY <1>2, <2>1
<1>3. CASE m # 0
  <2>1. m - 1 \in Nat /\ m - 1 \notin Bad /\ (m - 1) + 1 = m
    BY <1>1, <1>3
  <2>. QED
    BY <2>1, HavingStep
<1>. QED
  BY <1>2, <1>3

LEMMA HavingSeq ==
    ASSUME NEW S, NEW lines \in Seq(S), NEW kinds
    PROVE  Having(lines, kinds) \in Seq(kinds)
<1>. DEFINE n == Len(lines)
            g == CHOOSE g : IsHaving(g, n, lines, kinds)
            Bad == {k \in 0..n : g[k] \notin Seq(kinds)}
<1>1. n \in Nat /\ IsHaving(g, n, lines, kinds)
  <2>1. n \in Nat
    OBVIOUS
  <2>2. \E h : IsHaving(h, n, lines, kinds)
    BY <2>1, HavingExists
  <2>. QED
    BY <2>1, <2>2
<1>2. Having(lines, kinds) = g[n]
  BY DEF Having, IsHaving
<1>. HIDE DEF g
<1>3. ASSUME NEW k \in 0..n
      PROVE  g[k] = IF k = 0 THEN <<>>
                    ELSE IF lines[k] \in kinds THEN Append(g[k - 1], lines[k]) ELSE g[k - 1]
  BY <1>1 DEF IsHaving
<1>4. Bad = {}
  <2>. SUFFICES ASSUME Bad # {} PROVE FALSE
    OBVIOUS
  <2>0. Bad \in SUBSET Nat
    BY <1>1
  <2>1. PICK m \in Bad : \A k \in Bad : m <= k
    BY <2>0, LeastNat
  <2>2. m \in 0..n /\ m # 0
    <3>1. 0 \in 0..n /\ <<>> \in Seq(kinds)
      BY <1>1
    <3>2. g[0] = <<>>
      BY <1>3, <3>1
    <3>. QED
      BY <2>1, <3>1, <3>2
  <2>3. m - 1 \in 0..n /\ m - 1 \notin Bad
    BY <1>1, <2>1, <2>2
  <2>4. g[m - 1] \in Seq(kinds)
    BY <2>3
  <2>5. g[m] = IF lines[m] \in kinds THEN Append(g[m - 1], lines[m]) ELSE g[m - 1]
    BY <1>3, <2>2
  <2>6. g[m] \in Seq(kinds)
    BY <2>3, <2>4, <2>5
  <2>. QED
    BY <2>6
<1>. QED
  BY <1>1, <1>2, <1>4

LEMMA CopiedSeq ==
    ASSUME TypeOK, NEW f \in Files
    PROVE  Copied(f) \in Seq({"talk", "meta"})
  BY HavingSeq DEF Copied, TypeOK

LEMMA TitlesMax ==
    ASSUME NEW lines \in Seq(Lines), Titles(lines) # {}
    PROVE  Max(Titles(lines)) \in Titles(lines) /\ \A k \in Titles(lines) : k <= Max(Titles(lines))
<1>1. Len(lines) \in Nat /\ DOMAIN lines = 1..Len(lines)
  OBVIOUS
<1>2. Titles(lines) \in SUBSET Nat /\ \A k \in Titles(lines) : k <= Len(lines)
  BY <1>1 DEF Titles
<1>. QED
  BY <1>1, <1>2, MaxIs

LEMMA TitleType ==
    ASSUME NEW f \in Files, data \in [Files -> Seq(Lines)]
    PROVE  Title(f) \in MaybeTitle
<1>1. data[f] \in Seq(Lines)
  OBVIOUS
<1>. QED
  BY <1>1, TitlesMax DEF Title, TitleOf, Titles, MaybeTitle

LEMMA TitleSame ==
    ASSUME NEW f \in Files, data'[f] = data[f], window' = window
    PROVE  Title(f)' = Title(f) /\ (Shown(f)' <=> Shown(f))
  BY DEF Title, TitleOf, Titles, Shown, Shows, Sidechain, InSight

\* The last title is the title, if it is in sight.
LEMMA TitleIs ==
    ASSUME NEW lines \in Seq(Lines), NEW k \in DOMAIN lines, lines[k] \in Callers,
           InSight(k, Len(lines)), \A j \in DOMAIN lines : lines[j] \in Callers => j <= k
    PROVE  TitleOf(lines) = lines[k] /\ Titles(lines) # {}
<1>1. k \in Titles(lines) /\ k \in Nat /\ \A j \in Titles(lines) : j \in Nat /\ j <= k
  BY DEF Titles
<1>2. Max(Titles(lines)) \in Titles(lines) /\ k <= Max(Titles(lines))
  BY <1>1, TitlesMax
<1>3. Max(Titles(lines)) = k
  BY <1>1, <1>2
<1>. QED
  BY <1>1, <1>3 DEF TitleOf

LEMMA LatestTitle ==
    ASSUME TypeOK, LatestSeen, latest[1] # Nobody, latest[2] \in Files
    PROVE  Title(latest[2]) = latest[1] /\ Shown(latest[2])
<1>1. data[latest[2]] \in Seq(Lines) /\ latest[1] \in Callers /\ latest[2] # NoFile
  BY DEF TypeOK, LatestType, MaybeTitle, Files, NoFile
<1>2. TitleOf(data[latest[2]]) = latest[1] /\ Titles(data[latest[2]]) # {}
  BY <1>1, TitleIs DEF LatestSeen
<1>3. data[latest[2]] # <<>>
  BY <1>2 DEF Titles
<1>. QED
  BY <1>1, <1>2, <1>3 DEF Title, Shown, Shows, Sidechain, LatestSeen

\* The last line is always in sight: a file whose last line is a title is shown,
\* unless it begins with a sidechain.
LEMMA ShownAppended ==
    ASSUME NEW f \in Files, data \in [Files -> Seq(Lines)], NEW lines \in Seq(Lines),
           lines # <<>>, data'[f] = data[f] \o lines,
           window \in [head : Nat, tail : Nat \ {0}], window' = window
    PROVE  /\ data'[f] # <<>>
           /\ lines[Len(lines)] \in Callers /\ (data[f] = <<>> => lines[1] # "side")
                 /\ (data[f] # <<>> => data[f][1] # "side")
              => Shown(f)'
<1>. DEFINE n == Len(data[f])
            m == Len(lines)
<1>1. /\ n \in Nat /\ m \in Nat \ {0} /\ DOMAIN data[f] = 1..n /\ DOMAIN lines = 1..m
      /\ DOMAIN data'[f] = 1..(n + m) /\ Len(data'[f]) = n + m
      /\ \A k \in 1..n : data'[f][k] = data[f][k]
      /\ \A k \in 1..m : data'[f][n + k] = lines[k] /\ n + k \in 1..(n + m)
  OBVIOUS
<1>2. data'[f] # <<>> /\ f # NoFile
  BY <1>1 DEF Files, NoFile
<1>3. ASSUME lines[m] \in Callers, data[f] = <<>> => lines[1] # "side",
             data[f] # <<>> => data[f][1] # "side"
      PROVE  Shown(f)'
  <2>1. data'[f][n + m] \in Callers /\ n + m \in DOMAIN data'[f]
    BY <1>1, <1>3
  <2>2. n + m > (n + m) - window'.tail
    <3>1. window'.tail \in Nat \ {0}
      OBVIOUS
    <3>. QED
      BY <1>1, <3>1
  <2>3. (Titles(data[f]) # {})'
    BY <1>1, <2>1, <2>2 DEF Titles, InSight
  <2>4. data'[f][1] # "side"
    <3>1. CASE n = 0
      BY <1>1, <1>3, <3>1
    <3>2. CASE n # 0
      <4>1. data[f] # <<>> /\ 1 \in 1..n
        BY <1>1, <3>2
      <4>. QED
        BY <1>1, <1>3, <4>1
    <3>. QED
      BY <3>1, <3>2
  <2>. QED
    BY <1>2, <2>3, <2>4 DEF Shown, Shows, Sidechain
<1>. QED
  BY <1>2, <1>3

-----------------------------------------------------------------------------
(***************************************************************************)
(* What any step does to the files, and what it leaves of a call           *)
(***************************************************************************)
\* What a write takes out of sight was not steady for a listing any longer.
Dropped(f) ==
    \E d \in Dirs : file[d][Session] = f /\ \A c \in Callers :
        Begun(c) /\ call[c].op = "list" => <<d, Session>> \notin steady'[c]

\* Files only grow, one at a time, and a write is newer than all before it.
DataGrows ==
    /\ clock <= clock' /\ created <= created' /\ window' = window
    /\ \A f \in Files :
          \/ data'[f] = data[f] /\ mtime'[f] = mtime[f]
          \/ /\ mtime'[f] = clock + 1 /\ clock' = clock + 1
             /\ data'[f] # <<>> /\ (Shown(f) => Shown(f)' \/ Dropped(f))
    /\ \A f, g \in Files : mtime'[f] = clock + 1 /\ mtime'[g] = clock + 1 => f = g

\* A name goes only with all that was said of it, and comes with a file of its own.
NamesStay ==
    \A d \in Dirs : \A s \in Sessions :
        \/ file'[d][s] = file[d][s]
        \/ file[d][s] = NoFile /\ file'[d][s] = created + 1
        \/ /\ file'[d][s] = NoFile /\ s = Session
           /\ \A c \in Callers : <<d, s>> \notin steady'[c] /\ ~quiet'[c]

Witnesses ==
    \A c \in Callers : Begun(c) =>
        /\ steady'[c] \subseteq steady[c]
        /\ quiet'[c] => quiet[c] /\ \A d \in Dirs :
               NonEmpty(file[d][Session])' <=> NonEmpty(file[d][Session])

\* The last rename stays the last one, unless it is overtaken.
LatestKept ==
    /\ latest' = latest
    /\ LatestSeen'
    /\ \A d \in Dirs :
          /\ file[d][Session] = latest[2] =>
                /\ file'[d][Session] = latest[2]
                /\ \A c \in Callers : Begun(c) /\ <<d, Session>> \in steady[c] =>
                      <<d, Session>> \in steady'[c]
          /\ NonEmpty(file[d][Session])' /\ file'[d][Session] # latest[2] =>
                /\ file'[d][Session] = file[d][Session] /\ NonEmpty(file[d][Session])
                /\ mtime'[file[d][Session]] = mtime[file[d][Session]]
LatestStays ==
    \/ latest'[1] = Nobody
    \/ latest[1] # Nobody /\ LatestKept
    \/ \E c \in Callers : latest'[1] = c /\ call[c].pc = "opened"

\* Nobody but its caller writes to a fork.
ForksLeft ==
    \A c \in Callers : call'[c] = call[c] =>
        \A d \in Dirs : \A f \in Files : file[d][c] = f => data'[f] = data[f]

World == DataGrows /\ NamesStay /\ Witnesses /\ LatestStays /\ ForksLeft

LEMMA CallIs ==
    ASSUME TypeOK, NEW c \in Callers, Begun(c)
    PROVE  /\ call[c] \in CallType /\ Stage(c)
           /\ call[c].pc \in Pcs /\ call[c].op \in Ops /\ call[c].order \in Orders
           /\ call[c].at \in Nat /\ call[c].file \in MaybeFile
           /\ call[c].names \in SUBSET Sessions /\ call[c].rows \in SUBSET RowType
           /\ call[c].lines \in Seq({"talk", "meta"}) /\ call[c].want \in LatestType
<1>1. call[c] \in NewType \cup CallType /\ Stage(c)
  BY DEF TypeOK
<1>2. call[c] \in CallType
  BY <1>1 DEF Begun, NewType
<1>. QED
  BY <1>1, <1>2 DEF CallType

LEMMA OrderIs ==
    ASSUME NEW order \in Orders
    PROVE  /\ order \in Seq(Dirs) /\ Len(order) \in Nat \ {0} /\ DOMAIN order = 1..Len(order)
           /\ \A j \in 1..Len(order) : order[j] \in Dirs
           /\ \A d \in Dirs : \E j \in 1..Len(order) : order[j] = d
<1>1. order \in Seq(Dirs) /\ order # <<>> /\ Range(order) = Dirs
  BY FilesAssumption
<1>. QED
  BY <1>1 DEF Range

LEMMA FileIs ==
    ASSUME TypeOK, NEW d \in Dirs, NEW s \in Sessions
    PROVE  /\ file[d][s] \in 0..created /\ file[d][s] \in MaybeFile
           /\ file[d][s] # NoFile => file[d][s] \in Files
           /\ NonEmpty(file[d][s]) => file[d][s] \in Files
           /\ created \in Nat /\ created <= MaxFiles
<1>1. created \in Nat /\ created <= MaxFiles /\ MaxFiles \in Nat
  BY FilesAssumption DEF TypeOK, MaybeFile
<1>2. file[d][s] \in 0..created
  BY DEF TypeOK
<1>. QED
  BY <1>1, <1>2 DEF MaybeFile, Files, NoFile, NonEmpty

\* The directory of a call that is in one, and the copy there.
LEMMA HereIs ==
    ASSUME TypeOK, NEW c \in Callers, Begun(c), call[c].at \in DOMAIN call[c].order
    PROVE  /\ Dir(c) \in Dirs /\ Here(c) \in 0..created
           /\ \A j \in 1..(call[c].at - 1) : call[c].order[j] \in Dirs
<1>1. call[c].order \in Orders
  BY CallIs
<1>2. Session \in Sessions
  BY DEF Sessions
<1>3. /\ DOMAIN call[c].order = 1..Len(call[c].order) /\ Len(call[c].order) \in Nat
      /\ \A j \in 1..Len(call[c].order) : call[c].order[j] \in Dirs
  BY <1>1, OrderIs
<1>4. Dir(c) \in Dirs
  BY <1>3 DEF Dir
<1>. QED
  BY <1>2, <1>3, <1>4, FileIs DEF Here

LEMMA IdleSearch ==
    ASSUME FilesInv, TypeOK', World, NEW c \in Callers, Begun(c), call'[c] = call[c]
    PROVE  SearchInv(c)'
<1>0. TypeOK /\ OneName /\ SearchInv(c) /\ Session \in Sessions /\ Session \notin Callers
  BY FilesAssumption DEF FilesInv, DirInv, CallInv, Sessions
<1>. USE DEF World
<1>1. call[c].order \in Orders /\ call[c].at \in Nat /\ Stage(c)
  BY <1>0, CallIs
<1>2. SteadyThere(c)'
  <2>. SUFFICES ASSUME NEW p \in steady'[c]
                PROVE  IF call[c].op = "list" THEN Shown(file[p[1]][p[2]])'
                       ELSE p[2] = Session /\ NonEmpty(file[p[1]][Session])'
    BY DEF SteadyThere
  <2>1. p \in steady[c] /\ p[1] \in Dirs /\ p[2] \in Sessions /\ p = <<p[1], p[2]>>
    BY <1>0 DEF Witnesses, TypeOK
  <2>2. file[p[1]][p[2]] \in MaybeFile
    BY <1>0, <2>1, FileIs
  <2>3. CASE call[c].op = "list"
    <3>1. Shown(file[p[1]][p[2]]) /\ file[p[1]][p[2]] # NoFile
      BY <1>0, <2>1, <2>3 DEF SearchInv, SteadyThere, Shown
    <3>2. file'[p[1]][p[2]] = file[p[1]][p[2]] /\ file[p[1]][p[2]] \in Files
      BY <2>1, <2>2, <3>1 DEF NamesStay, Files, MaybeFile, NoFile
    <3>3. PICK f \in Files : f = file[p[1]][p[2]]
      BY <3>2
    <3>4. ~Dropped(f)
      <4>. SUFFICES ASSUME Dropped(f) PROVE FALSE
        OBVIOUS
      <4>1. PICK d \in Dirs : file[d][Session] = f /\ <<d, Session>> \notin steady'[c]
        BY <2>3 DEF Dropped
      <4>2. d = p[1] /\ Session = p[2]
        BY <1>0, <2>1, <3>1, <3>3, <4>1 DEF OneName
      <4>. QED
        BY <2>1, <4>1, <4>2
    <3>5. Shown(f)'
      <4>1. CASE data'[f] = data[f]
        BY <3>1, <3>3, <4>1, TitleSame DEF DataGrows
      <4>2. CASE data'[f] # data[f]
        BY <3>1, <3>3, <3>4, <4>2 DEF DataGrows
      <4>. QED
        BY <4>1, <4>2
    <3>. QED
      BY <2>3, <3>2, <3>3, <3>5
  <2>4. CASE call[c].op # "list"
    <3>1. NonEmpty(file[p[1]][p[2]]) /\ file[p[1]][p[2]] # NoFile /\ p[2] = Session
      BY <1>0, <2>1, <2>4 DEF SearchInv, SteadyThere, NonEmpty
    <3>2. file'[p[1]][p[2]] = file[p[1]][p[2]] /\ file[p[1]][p[2]] \in Files
      BY <2>1, <2>2, <3>1 DEF NamesStay, Files, MaybeFile, NoFile
    <3>. QED
      BY <2>4, <3>1, <3>2 DEF DataGrows, NonEmpty
  <2>. QED
    BY <2>3, <2>4
<1>3. Dir(c)' = Dir(c) /\ Here(c)' = file'[Dir(c)][Session]
  BY DEF Dir, Here
<1>4. ASSUME call[c].pc = "opened"
      PROVE  /\ Dir(c) \in Dirs /\ Here(c) \in 0..created /\ call[c].file \in 1..created
             /\ call[c].op = "rename"
  BY <1>0, <1>1, <1>4, HereIs DEF SearchInv, Opened, Stage
<1>5. Passed(c)'
  <2>1. call[c].pc = "opened" => call[c].file = Here(c)' \/ <<Dir(c), Session>> \notin steady'[c]
    BY <1>0, <1>3, <1>4 DEF SearchInv, Passed, NamesStay, Witnesses, Here, NoFile
  <2>. QED
    BY <1>0, <1>3, <2>1 DEF SearchInv, Passed, Witnesses
<1>6. Opened(c)'
  <2>. SUFFICES ASSUME call[c].pc = "opened"
                PROVE  /\ call[c].file \in 1..created'
                       /\ \A d \in Dirs : \A s \in Sessions :
                             file'[d][s] = call[c].file => d = Dir(c) /\ s = Session
    BY <1>3 DEF Opened
  <2>1. created \in Nat /\ created' \in Nat /\ created <= created'
    BY <1>0 DEF TypeOK, MaybeFile, DataGrows
  <2>2. ASSUME NEW d \in Dirs, NEW s \in Sessions, file'[d][s] = call[c].file
        PROVE  d = Dir(c) /\ s = Session
    <3>1. call[c].file # created + 1 /\ call[c].file # NoFile
      BY <1>4, <2>1 DEF NoFile
    <3>2. file[d][s] = call[c].file
      BY <2>2, <3>1 DEF NamesStay
    <3>. QED
      BY <1>0, <1>4, <3>2 DEF SearchInv, Opened
  <2>. QED
    BY <1>4, <2>1, <2>2
<1>7. AboutFirst(c)'
  <2>. SUFFICES ASSUME quiet'[c], call[c].op \in {"rename", "info", "messages", "fork"}
                PROVE  AboutFirst(c)'
    BY DEF AboutFirst
  <2>1. quiet[c] /\ \A d \in Dirs : NonEmpty(file[d][Session])' <=> NonEmpty(file[d][Session])
    BY DEF Witnesses
  <2>2. \A d \in Dirs : file[d][Session] # NoFile => file'[d][Session] = file[d][Session]
    BY <1>0 DEF NamesStay
  <2>3. Dir(c) \in Dirs
    BY <1>0, <1>1, HereIs DEF Stage
  <2>4. Here(c) # NoFile => Here(c)' = Here(c)
    BY <1>3, <2>2, <2>3 DEF Here
  <2>5. \A j \in 1..Len(call[c].order) :
            NonEmpty(file[call[c].order[j]][Session])' <=> NonEmpty(file[call[c].order[j]][Session])
    BY <1>1, <2>1, OrderIs
  <2>6. /\ EmptyBefore(c, Len(call[c].order)) => EmptyBefore(c, Len(call[c].order))'
        /\ EmptyBefore(c, call[c].at - 1) => EmptyBefore(c, call[c].at - 1)'
    <3>1. Len(call[c].order) \in Nat /\ call[c].at - 1 <= Len(call[c].order)
      <4>1. Len(call[c].order) \in Nat
        BY <1>1, OrderIs
      <4>2. call[c].at \in 1..(Len(call[c].order) + 1)
        BY <1>1 DEF Stage
      <4>. QED
        BY <4>1, <4>2
    <3>. QED
      BY <1>1, <2>5, <3>1 DEF EmptyBefore
  <2>7. NonEmpty(Here(c))' <=> NonEmpty(Here(c))
    BY <1>3, <2>1, <2>3 DEF Here
  <2>8. AboutFirst(c)
    BY <1>0 DEF SearchInv
  <2>9. call[c].pc = "opened" => Here(c) # NoFile \/ call[c].file # Here(c)
    BY <1>4 DEF NoFile
  <2>. QED
    BY <2>1, <2>4, <2>6, <2>7, <2>8, <2>9 DEF AboutFirst, NonEmpty
<1>8. NoneHeld(c)'
  BY <1>0 DEF SearchInv, NoneHeld
<1>. QED
  BY <1>2, <1>5, <1>6, <1>7, <1>8 DEF SearchInv

LEMMA RowIs ==
    ASSUME TypeOK, NEW c \in Callers, Begun(c), NEW r \in call[c].rows
    PROVE  /\ r \in RowType /\ r.file \in Files /\ r.session \in Sessions
           /\ r.title \in MaybeTitle /\ r.mtime \in Nat
  BY CallIs DEF RowType

LEMMA MtimeIs ==
    ASSUME TypeOK, NEW f \in Files
    PROVE  mtime[f] \in Nat /\ mtime[f] <= clock /\ clock \in Nat
  BY DEF TypeOK

LEMMA IdleCovered ==
    ASSUME FilesInv, World, NEW c \in Callers, Begun(c), call[c].op = "list",
           call'[c] = call[c]
    PROVE  Covered(c)'
<1>. SUFFICES ASSUME NEW p \in steady'[c]
              PROVE  /\ HasRow(c, p) => HasRow(c, p)'
                     /\ p \in steady[c]
  BY DEF FilesInv, DirInv, CallInv, ListInv, Covered, Dir
<1>1. TypeOK /\ SteadyThere(c)
  BY DEF FilesInv, DirInv, CallInv, SearchInv
<1>2. p \in steady[c] /\ p[1] \in Dirs /\ p[2] \in Sessions /\ p = <<p[1], p[2]>>
  BY <1>1 DEF World, Witnesses, TypeOK
<1>3. file[p[1]][p[2]] # NoFile
  BY <1>1, <1>2 DEF SteadyThere, Shown, NonEmpty
<1>4. file'[p[1]][p[2]] = file[p[1]][p[2]]
  BY <1>2, <1>3 DEF World, NamesStay
<1>. QED
  BY <1>2, <1>4 DEF HasRow

LEMMA IdleRows ==
    ASSUME FilesInv, World, NEW c \in Callers, Begun(c), call[c].op = "list",
           call'[c] = call[c]
    PROVE  RowsTrue(c)'
<1>1. TypeOK /\ RowsTrue(c)
  BY DEF FilesInv, DirInv, CallInv, ListInv
<1>2. ASSUME NEW r \in call[c].rows
      PROVE  /\ r.mtime \in 1..mtime'[r.file]
             /\ r.mtime = mtime'[r.file] => r.title = Title(r.file)'
             /\ \A g \in Files : mtime'[g] = r.mtime => g = r.file
  <2>1. /\ r.file \in Files /\ r.mtime \in 1..mtime[r.file] /\ mtime[r.file] <= clock
        /\ clock \in Nat /\ mtime[r.file] \in Nat
    BY <1>1, RowIs, MtimeIs DEF RowsTrue
  <2>2. ASSUME NEW g \in Files, mtime'[g] = r.mtime
        PROVE  data'[g] = data[g] /\ mtime'[g] = mtime[g] /\ g = r.file
    <3>1. mtime'[g] # clock + 1
      BY <2>1, <2>2
    <3>2. data'[g] = data[g] /\ mtime'[g] = mtime[g]
      BY <3>1 DEF World, DataGrows
    <3>. QED
      BY <1>1, <2>2, <3>2 DEF RowsTrue
  <2>3. mtime[r.file] <= mtime'[r.file] /\ mtime'[r.file] \in Nat
    BY <2>1 DEF World, DataGrows
  <2>4. r.mtime = mtime'[r.file] => r.title = Title(r.file)'
    <3>. SUFFICES ASSUME r.mtime = mtime'[r.file] PROVE r.title = Title(r.file)'
      OBVIOUS
    <3>1. data'[r.file] = data[r.file] /\ mtime'[r.file] = mtime[r.file]
      BY <2>1, <2>2
    <3>2. Title(r.file)' = Title(r.file)
      BY <2>1, <3>1, TitleSame DEF World, DataGrows
    <3>. QED
      BY <1>1, <3>1, <3>2 DEF RowsTrue
  <2>. QED
    BY <2>1, <2>2, <2>3, <2>4
<1>. QED
  BY <1>1, <1>2 DEF RowsTrue

LEMMA IdleRecent ==
    ASSUME FilesInv, World, NEW c \in Callers, Begun(c), call[c].op = "list",
           call'[c] = call[c]
    PROVE  Recent(c)'
<1>1. TypeOK /\ Recent(c) /\ Renamed(call[c].want[1])
  BY DEF FilesInv, DirInv, CallInv, ListInv
<1>2. call[c].pc = "ok" => Recent(c)'
  BY <1>1 DEF Recent
<1>. SUFFICES ASSUME call[c].pc \in {"names", "rows"}, Tracks(c)' PROVE Recent(c)'
  BY <1>1, <1>2 DEF Recent
<1>3. LatestKept /\ latest[1] # Nobody
  <2>1. call[c].want = latest' /\ latest'[1] # Nobody
    BY DEF Tracks
  <2>2. ASSUME NEW x \in Callers, latest'[1] = x, call[x].pc = "opened" PROVE FALSE
    BY <1>1, <2>1, <2>2 DEF Renamed
  <2>. QED
    BY <2>1, <2>2 DEF World, LatestStays
<1>4. latest' = latest /\ Tracks(c)
  BY <1>3 DEF LatestKept, Tracks
<1>5. PICK d \in Dirs : file[d][Session] = latest[2] /\ <<d, Session>> \in steady[c]
  BY <1>1, <1>4 DEF Recent
<1>6. file'[d][Session] = latest[2] /\ <<d, Session>> \in steady'[c]
  BY <1>3, <1>5 DEF LatestKept
<1>7. /\ latest[2] \in Files /\ mtime[latest[2]] \in Nat
      /\ mtime[latest[2]] <= mtime'[latest[2]] /\ mtime'[latest[2]] \in Nat
  <2>1. latest[2] # NoFile
    BY <1>3 DEF FilesInv, DirInv, CallInv, LatestNewest
  <2>2. latest[2] \in Files
    BY <1>1, <1>5, <2>1, FileIs DEF Sessions
  <2>. QED
    BY <1>1, <2>2, MtimeIs DEF World, DataGrows
<1>8. \A r \in call[c].rows : r.session = Session =>
          IF r.file = latest[2] THEN r.title = latest[1]
          ELSE /\ r.mtime < mtime'[latest[2]]
               /\ \A o \in call[c].rows : o.file = latest[2] => r.mtime < o.mtime
  <2>1. \A r \in call[c].rows : r.mtime \in Nat
    BY <1>1, RowIs
  <2>. QED
    BY <1>1, <1>4, <1>7, <2>1 DEF Recent
<1>9. ASSUME NEW e \in Dirs, NonEmpty(file[e][Session])', file'[e][Session] # latest[2],
             NEW o \in call[c].rows, o.file = latest[2]
      PROVE  mtime'[file'[e][Session]] < o.mtime
  <2>1. /\ file'[e][Session] = file[e][Session] /\ NonEmpty(file[e][Session])
        /\ mtime'[file[e][Session]] = mtime[file[e][Session]]
    BY <1>3, <1>9 DEF LatestKept
  <2>. QED
    BY <1>1, <1>4, <1>9, <2>1 DEF Recent
<1>. QED
  BY <1>4, <1>6, <1>8, <1>9 DEF Recent

LEMMA IdleList ==
    ASSUME FilesInv, World, NEW c \in Callers, Begun(c), call[c].op = "list",
           call'[c] = call[c]
    PROVE  ListInv(c)'
  BY IdleCovered, IdleRows, IdleRecent DEF ListInv

\* The last rename is in the newest copy also after a step that leaves it the last one.
LEMMA LatestStill ==
    ASSUME FilesInv, World, LatestKept, latest[1] # Nobody
    PROVE  LatestNewest'
<1>1. TypeOK /\ LatestNewest
  BY DEF FilesInv, DirInv, CallInv
<1>2. /\ latest' = latest /\ latest[2] # NoFile /\ LatestSeen'
  BY <1>1 DEF LatestNewest, LatestKept
<1>3. PICK d \in Dirs : file[d][Session] = latest[2]
  BY <1>1 DEF LatestNewest
<1>4. /\ latest[2] \in Files /\ mtime[latest[2]] \in Nat
      /\ mtime[latest[2]] <= mtime'[latest[2]] /\ mtime'[latest[2]] \in Nat
  <2>1. latest[2] \in Files
    BY <1>1, <1>2, <1>3, FileIs DEF Sessions
  <2>. QED
    BY <1>1, <2>1, MtimeIs DEF World, DataGrows
<1>5. ASSUME NEW e \in Dirs, NonEmpty(file[e][Session])', file'[e][Session] # latest[2]
      PROVE  mtime'[file'[e][Session]] < mtime'[latest[2]]
  <2>1. /\ file'[e][Session] = file[e][Session] /\ NonEmpty(file[e][Session])
        /\ mtime'[file[e][Session]] = mtime[file[e][Session]]
    BY <1>5 DEF LatestKept
  <2>2. file[e][Session] \in Files
    BY <1>1, <2>1, FileIs DEF Sessions
  <2>3. mtime[file[e][Session]] < mtime[latest[2]] /\ mtime[file[e][Session]] \in Nat
    BY <1>1, <1>5, <2>1, <2>2, MtimeIs DEF LatestNewest
  <2>. QED
    BY <1>4, <2>1, <2>3
<1>6. file'[d][Session] = latest[2]
  BY <1>3 DEF LatestKept
<1>. QED
  BY <1>2, <1>3, <1>5, <1>6 DEF LatestNewest

\* Calls that have returned stay returned.
OkStays == \A x \in Callers : call[x].pc = "ok" => call'[x].pc = "ok"

LEMMA IdleFork ==
    ASSUME FilesInv, World, NEW c \in Callers, call'[c] = call[c],
           \A d \in Dirs : file'[d][c] = file[d][c]
    PROVE  ForkMade(c)'
<1>1. TypeOK /\ ForkMade(c)
  BY DEF FilesInv, DirInv, CallInv
<1>2. \A d \in Dirs : file'[d][c] # NoFile =>
          Begun(c)' /\ call'[c].op = "fork" /\ call'[c].pc \in {"created", "ok"}
  BY <1>1 DEF ForkMade, Begun
<1>3. ASSUME At(c, "created", "fork") \/ At(c, "ok", "fork")
      PROVE  /\ Dir(c) \in Dirs /\ c \in Sessions
             /\ file[Dir(c)][c] # NoFile => file[Dir(c)][c] \in Files
  <2>1. Begun(c) /\ call[c].at \in DOMAIN call[c].order
    BY <1>1, <1>3, CallIs DEF At, Begun, Stage, TypeOK
  <2>2. Dir(c) \in Dirs /\ c \in Sessions
    BY <1>1, <2>1, HereIs DEF Sessions
  <2>. QED
    BY <1>1, <2>2, FileIs
<1>4. At(c, "created", "fork") => file'[Dir(c)][c] # NoFile /\ data'[file'[Dir(c)][c]] = <<>>
  BY <1>1, <1>3 DEF ForkMade, World, ForksLeft
<1>5. ASSUME At(c, "ok", "fork") PROVE Shown(file[Dir(c)][c])'
  <2>1. Shown(file[Dir(c)][c])
    BY <1>1, <1>5 DEF ForkMade
  <2>2. file[Dir(c)][c] \in Files /\ file[Dir(c)][c] # NoFile
    BY <1>3, <1>5, <2>1 DEF Shown
  <2>3. file'[Dir(c)'][c] = file[Dir(c)][c]
    BY <1>3, <1>5 DEF Dir
  <2>4. PICK f \in Files : f = file[Dir(c)][c]
    BY <2>2
  <2>5. data'[f] = data[f] /\ window' = window
    BY <1>3, <1>5, <2>4 DEF World, ForksLeft, DataGrows
  <2>6. Shown(f)'
    BY <2>1, <2>4, <2>5, TitleSame
  <2>. QED
    BY <2>3, <2>4, <2>6
<1>. QED
  BY <1>2, <1>4, <1>5 DEF ForkMade, At, Dir

LEMMA IdleKept ==
    ASSUME FilesInv, TypeOK', World, OkStays, NEW c \in Callers, call'[c] = call[c],
           \A d \in Dirs : file'[d][c] = file[d][c]
    PROVE  CallInv(c)'
<1>1. ForkMade(c)'
  BY IdleFork
<1>2. ASSUME Begun(c) PROVE SearchInv(c)' /\ Renamed(call[c].want[1])'
  <2>1. Renamed(call[c].want[1]) /\ call[c].want[1] \in MaybeTitle
    BY <1>2, CallIs DEF FilesInv, DirInv, CallInv, LatestType
  <2>2. Renamed(call[c].want[1])'
    BY <2>1 DEF Renamed, OkStays, MaybeTitle
  <2>. QED
    BY <1>2, <2>2, IdleSearch
<1>. QED
  BY <1>1, <1>2, IdleList DEF CallInv, Begun

-----------------------------------------------------------------------------
(***************************************************************************)
(* What becomes of the files when one is written, or made                  *)
(***************************************************************************)
LEMMA AppendsDoes ==
    ASSUME TypeOK, Times, NEW f \in Files, NEW lines \in Seq(Lines), lines # <<>>,
           Appends(f, lines), created' \in Nat, created <= created', f <= created',
           window' = window, Shown(f) => Shown(f)' \/ Dropped(f)
    PROVE  /\ data' \in [Files -> Seq(Lines)] /\ mtime' \in [Files -> 0..clock']
           /\ clock' = clock + 1 /\ clock' \in Nat
           /\ data'[f] = data[f] \o lines /\ mtime'[f] = clock + 1
           /\ \A g \in Files : g # f => data'[g] = data[g] /\ mtime'[g] = mtime[g]
           /\ DataGrows /\ Times'
<1>1. /\ clock' = clock + 1 /\ clock \in Nat
      /\ data' = [data EXCEPT ![f] = data[f] \o lines]
      /\ mtime' = [mtime EXCEPT ![f] = clock + 1]
      /\ data \in [Files -> Seq(Lines)] /\ mtime \in [Files -> 0..clock]
  BY DEF Appends, TypeOK
<1>2. data[f] \o lines \in Seq(Lines)
  BY <1>1
<1>3. /\ data' \in [Files -> Seq(Lines)] /\ mtime' \in [Files -> 0..clock']
      /\ data'[f] = data[f] \o lines /\ mtime'[f] = clock + 1
      /\ \A g \in Files : g # f => data'[g] = data[g] /\ mtime'[g] = mtime[g]
      /\ \A g \in Files : mtime[g] \in Nat /\ mtime[g] <= clock
  <2>1. \A n \in 0..clock : n \in 0..(clock + 1) /\ n \in Nat /\ n <= clock
    BY <1>1
  <2>. QED
    BY <1>1, <1>2, <2>1
<1>4. data'[f] # <<>> /\ (Shown(f) => Shown(f)' \/ Dropped(f))
  BY <1>1, <1>3, ShownAppended DEF TypeOK
<1>5. DataGrows
  BY <1>1, <1>3, <1>4 DEF DataGrows
<1>6. Times'
  <2>1. \A g \in Files : g > created' => g > created /\ g # f
    BY DEF TypeOK, MaybeFile, Files
  <2>2. \A g, h \in Files : mtime'[g] = mtime'[h] /\ mtime'[g] # 0 => g = h
    BY <1>1, <1>3 DEF Times
  <2>3. \A g \in Files : data'[g] # <<>> => mtime'[g] # 0
    BY <1>1, <1>3 DEF Times
  <2>. QED
    BY <1>3, <2>1, <2>2, <2>3 DEF Times
<1>. QED
  BY <1>1, <1>3, <1>5, <1>6

LEMMA CreateDoes ==
    ASSUME TypeOK, OneName, NEW d \in Dirs, NEW s \in Sessions, Create(d, s)
    PROVE  /\ created' = created + 1 /\ created' \in MaybeFile /\ created + 1 \in Files
           /\ file' \in [Dirs -> [Sessions -> 0..created']]
           /\ file'[d][s] = created + 1
           /\ \A e \in Dirs : \A u \in Sessions :
                 e # d \/ u # s => file'[e][u] = file[e][u]
           /\ OneName'
<1>1. /\ created \in Nat /\ MaxFiles \in Nat /\ created < MaxFiles /\ created' = created + 1
      /\ file \in [Dirs -> [Sessions -> 0..created]]
      /\ file' = [file EXCEPT ![d][s] = created + 1]
  BY FilesAssumption DEF TypeOK, MaybeFile, Create
<1>2. created' \in MaybeFile /\ created + 1 \in Files
  BY <1>1 DEF MaybeFile, Files
<1>3. \A n \in 0..created : n \in 0..created' /\ n # created + 1
  BY <1>1
<1>4. /\ file' \in [Dirs -> [Sessions -> 0..created']]
      /\ file'[d][s] = created + 1
      /\ \A e \in Dirs : \A u \in Sessions : e # d \/ u # s => file'[e][u] = file[e][u]
  BY <1>1, <1>3
<1>5. \A e \in Dirs : \A u \in Sessions : file[e][u] # created + 1
  BY <1>1, <1>3
<1>6. OneName'
  BY <1>4, <1>5 DEF OneName
<1>. QED
  BY <1>1, <1>2, <1>4, <1>6

LEMMA Stays ==
    ASSUME LatestSeen, latest' = latest, data'[latest[2]] = data[latest[2]], window' = window
    PROVE  LatestSeen'
  BY DEF LatestSeen, InSight

LEMMA SeenThen ==
    ASSUME NEW h, latest'[2] = h, latest'[3] \in DOMAIN data'[h],
           data'[h][latest'[3]] = latest'[1], data'[h][1] # "side",
           latest'[3] <= window'.head \/ latest'[3] > Len(data'[h]) - window'.tail,
           \A j \in DOMAIN data'[h] : data'[h][j] \in Callers => j <= latest'[3]
    PROVE  LatestSeen'
  BY DEF LatestSeen, InSight

\* Nothing of what the invariants are about changes.
LEMMA Still ==
    ASSUME TypeOK, LatestNewest, UNCHANGED <<fs, steady, quiet, latest>>
    PROVE  World /\ (OneName => OneName') /\ (Times => Times') /\ LatestNewest'
<1>1. /\ file' = file /\ data' = data /\ mtime' = mtime /\ created' = created /\ clock' = clock
      /\ window' = window /\ steady' = steady /\ quiet' = quiet /\ latest' = latest
  BY DEF fs
<1>2. DataGrows
  BY <1>1, MtimeIs DEF DataGrows, TypeOK, MaybeFile
<1>3. NamesStay /\ Witnesses /\ LatestStays
  BY <1>1, Stays
     DEF NamesStay, Witnesses, LatestStays, LatestKept, LatestNewest, NonEmpty
<1>. QED
  BY <1>1, <1>2, <1>3 DEF World, ForksLeft, OneName, Times, LatestNewest, LatestSeen, InSight, NonEmpty

-----------------------------------------------------------------------------
(***************************************************************************)
(* The CLI                                                                 *)
(***************************************************************************)
LEMMA CliKeepsCalls ==
    ASSUME FilesInv, TypeOK', World, call' = call,
           \A d \in Dirs : \A c \in Callers : file'[d][c] = file[d][c]
    PROVE  \A c \in Callers : CallInv(c)'
<1>1. OkStays
  BY DEF OkStays
<1>. QED
  BY <1>1, IdleKept

LEMMA CallsKept ==
    ASSUME TypeOK, call' = call
    PROVE  /\ call' \in [Callers -> NewType \cup CallType]
           /\ \A c \in Callers : Begun(c)' => Stage(c)'
  BY DEF TypeOK, Begun, Stage

LEMMA LineIs == \A line \in CliLines : line \in Lines /\ line \notin Callers
  BY FilesAssumption DEF Lines

LEMMA WritesKeeps ==
    ASSUME FilesInv, NEW d \in Dirs, NEW line \in CliLines, Writes(d, line)
    PROVE  FilesInv'
<1>. DEFINE f == file[d][Session]
            g == IF f = NoFile THEN created + 1 ELSE f
<1>0. TypeOK /\ DirInv /\ Session \in Sessions /\ Session \notin Callers
  BY FilesAssumption DEF FilesInv, Sessions
<1>1. /\ call' = call /\ window' = window /\ agents' = agents /\ gone' = gone \ {d}
      /\ steady' = [c \in Callers |->
            IF call[c].op = "list" /\ PushesOut(f, line) THEN steady[c] \ {<<d, Session>>}
            ELSE steady[c]]
      /\ writes < MaxWrites /\ writes' = writes + 1
      /\ Appends(g, <<line>>)
      /\ f = NoFile => Create(d, Session)
      /\ f # NoFile => file' = file /\ created' = created
      /\ NonEmpty(f) => quiet' = quiet
      /\ ~NonEmpty(f) => quiet' = [c \in Callers |-> FALSE]
      /\ latest' = IF latest[2] = f /\ NonEmpty(f) /\ InSight(latest[3], Len(data[f]) + 1)
                    THEN latest ELSE NoRename
  BY DEF Writes, Disturbed
<1>2. /\ created \in Nat /\ f \in 0..created /\ (f # NoFile => f \in Files)
  BY <1>0, FileIs
<1>3. /\ created' \in MaybeFile /\ created' \in Nat /\ created <= created'
      /\ g \in Files /\ g <= created'
      /\ file' \in [Dirs -> [Sessions -> 0..created']] /\ file'[d][Session] = g
      /\ \A e \in Dirs : \A s \in Sessions : e # d \/ s # Session => file'[e][s] = file[e][s]
      /\ OneName'
  <2>1. CASE f = NoFile
    <3>1. Create(d, Session) /\ OneName
      BY <1>0, <1>1, <2>1 DEF DirInv
    <3>. QED
      BY <1>0, <1>2, <2>1, <3>1, CreateDoes
  <2>2. CASE f # NoFile
    BY <1>0, <1>1, <1>2, <2>2 DEF TypeOK, MaybeFile, NoFile, DirInv, OneName
  <2>. QED
    BY <2>1, <2>2
<1>4. line \in Lines /\ line \notin Callers /\ <<line>> \in Seq(Lines) /\ <<line>> # <<>>
  BY LineIs
<1>5. /\ data' \in [Files -> Seq(Lines)] /\ mtime' \in [Files -> 0..clock']
      /\ clock' = clock + 1 /\ clock' \in Nat
      /\ data'[g] = data[g] \o <<line>> /\ mtime'[g] = clock + 1
      /\ \A h \in Files : h # g => data'[h] = data[h] /\ mtime'[h] = mtime[h]
      /\ DataGrows /\ Times'
  <2>1. Times
    BY <1>0 DEF DirInv
  <2>2. data[g] \in Seq(Lines) /\ data' = [data EXCEPT ![g] = @ \o <<line>>]
    BY <1>0, <1>1, <1>3 DEF Appends, TypeOK
  <2>3. PICK h \in Files : h = g
    BY <1>3
  <2>4. data'[h] = Append(data[h], line)
    BY <1>0, <1>3, <1>4, <2>2, <2>3 DEF TypeOK
  <2>5. Shown(h) => Shown(h)' \/ Dropped(h)
    <3>. SUFFICES ASSUME Shown(h) PROVE Shown(h)' \/ Dropped(h)
      OBVIOUS
    <3>1. data[h] # <<>> /\ h # NoFile /\ h <= created
      BY <1>0, <1>2, <2>1 DEF Shown, Shows, Times, TypeOK, Files, MaybeFile
    <3>2. h = f /\ NonEmpty(f)
      BY <1>2, <2>3, <3>1 DEF NonEmpty
    <3>3. CASE PushesOut(f, line)
      <4>1. \A c \in Callers : call[c].op = "list" => <<d, Session>> \notin steady'[c]
        BY <1>1, <3>3
      <4>. QED
        BY <3>2, <4>1 DEF Dropped
    <3>4. CASE ~PushesOut(f, line)
      <4>1. Shows(Append(data[h], line))
        BY <3>2, <3>4 DEF PushesOut
      <4>2. Shown(h)'
        BY <1>1, <2>4, <3>1, <4>1 DEF Shown, Shows, Sidechain, Titles, InSight
      <4>. QED
        BY <4>2
    <3>. QED
      BY <3>3, <3>4
  <2>6. Appends(h, <<line>>) /\ h <= created'
    BY <1>1, <1>3, <2>3
  <2>. HIDE DEF g
  <2>. QED
    BY <1>0, <1>1, <1>3, <1>4, <2>1, <2>3, <2>5, <2>6, AppendsDoes
<1>6. /\ latest' \in LatestType
      /\ latest'[1] # Nobody => /\ latest' = latest /\ latest[2] = f /\ f # NoFile
                                /\ InSight(latest[3], Len(data[f]) + 1)
  <2>1. NoRename \in LatestType /\ NoRename[1] = Nobody
    BY FilesAssumption DEF NoRename, LatestType, MaybeTitle, MaybeFile, NoFile
  <2>2. latest \in LatestType /\ (latest[1] # Nobody => latest[2] # NoFile)
    BY <1>0 DEF TypeOK, DirInv, LatestNewest
  <2>. QED
    BY <1>1, <2>1, <2>2
<1>7. TypeOK'
  <2>1. /\ agents' \subseteq Dirs /\ gone' \subseteq Dirs /\ writes' \in 0..MaxWrites
        /\ steady' \in [Callers -> SUBSET (Dirs \X Sessions)] /\ window' \in [head : Nat, tail : Nat \ {0}]
    BY <1>0, <1>1, FilesAssumption DEF TypeOK
  <2>2. quiet' \in [Callers -> BOOLEAN]
    <3>1. quiet \in [Callers -> BOOLEAN] /\ [c \in Callers |-> FALSE] \in [Callers -> BOOLEAN]
      BY <1>0 DEF TypeOK
    <3>2. quiet' = quiet \/ quiet' = [c \in Callers |-> FALSE]
      BY <1>1
    <3>. QED
      BY <3>1, <3>2
  <2>. QED
    BY <1>0, <1>1, <1>3, <1>5, <1>6, <2>1, <2>2, CallsKept DEF TypeOK
<1>8. NamesStay
  BY <1>2, <1>3 DEF NamesStay
<1>9. Witnesses
  <2>. SUFFICES ASSUME NEW c \in Callers, quiet'[c]
                PROVE  quiet[c] /\ \A e \in Dirs :
                           NonEmpty(file[e][Session])' <=> NonEmpty(file[e][Session])
    BY <1>0, <1>1 DEF Witnesses, TypeOK
  <2>1. NonEmpty(f) /\ quiet' = quiet
    BY <1>1
  <2>2. f # NoFile /\ file' = file /\ g = f
    BY <1>1, <2>1 DEF NonEmpty
  <2>3. \A h \in Files : data'[h] # <<>> <=> data[h] # <<>> \/ h = f
    BY <1>2, <1>5, <2>2 DEF DataGrows
  <2>4. ASSUME NEW e \in Dirs
        PROVE  NonEmpty(file[e][Session])' <=> NonEmpty(file[e][Session])
    <3>1. file[e][Session] # NoFile => file[e][Session] \in Files
      BY <1>0, FileIs
    <3>. QED
      BY <2>1, <2>2, <2>3, <3>1 DEF NonEmpty
  <2>. QED
    BY <2>1, <2>4
<1>10. ASSUME latest'[1] # Nobody PROVE latest[1] # Nobody /\ LatestKept
  <2>1. latest' = latest /\ latest[2] = f /\ f # NoFile /\ g = f /\ file' = file /\ f \in Files
    BY <1>1, <1>2, <1>6, <1>10
  <2>2. LatestSeen'
    <3>0. PICK h \in Files : h = f
      BY <2>1
    <3>1. LatestSeen /\ data[h] \in Seq(Lines)
      BY <1>0, <1>10, <2>1, <3>0 DEF DirInv, LatestNewest, TypeOK
    <3>2. PICK n \in Nat : n = Len(data[h])
      BY <3>1
    <3>3. /\ DOMAIN data[h] = 1..n /\ DOMAIN data'[h] = 1..(n + 1)
          /\ Len(data'[h]) = n + 1 /\ data'[h][n + 1] = line
          /\ \A k \in 1..n : data'[h][k] = data[h][k]
      BY <1>4, <1>5, <2>1, <3>0, <3>1, <3>2
    <3>4. InSight(latest[3], n + 1)
      BY <1>6, <1>10, <3>0, <3>2
    <3>5. latest' = latest /\ latest[2] = h
      BY <2>1, <3>0
    <3>6. /\ latest[3] \in 1..n /\ data[h][latest[3]] = latest[1] /\ data[h][1] # "side"
          /\ \A j \in 1..n : data[h][j] \in Callers => j <= latest[3]
      BY <3>1, <3>3, <3>5 DEF LatestSeen
    <3>7. /\ latest[3] \in 1..(n + 1) /\ data'[h][latest[3]] = latest[1] /\ data'[h][1] # "side"
          /\ \A j \in 1..(n + 1) : data'[h][j] \in Callers => j <= latest[3]
      <4>1. 1 \in 1..n /\ latest[3] \in 1..(n + 1)
        BY <3>6
      <4>2. data'[h][latest[3]] = latest[1] /\ data'[h][1] # "side"
        BY <3>3, <3>6, <4>1, Zenon
      <4>3. ASSUME NEW j \in 1..(n + 1), data'[h][j] \in Callers PROVE j <= latest[3]
        <5>1. j \in 1..n
          <6>1. j # n + 1
            BY <1>4, <3>3, <4>3, Zenon
          <6>. QED
            BY <6>1
        <5>2. data'[h][j] = data[h][j]
          BY <3>3, <5>1, Zenon
        <5>. QED
          BY <3>6, <4>3, <5>1, <5>2, Zenon
      <4>. QED
        BY <4>1, <4>2, <4>3, Zenon
    <3>8. latest[3] <= window'.head \/ latest[3] > (n + 1) - window'.tail
      BY <1>1, <3>4 DEF InSight
    <3>. HIDE DEF f
    <3>. QED
      BY <3>3, <3>5, <3>7, <3>8, SeenThen
  <2>3. ASSUME NEW e \in Dirs, NonEmpty(file[e][Session])', file'[e][Session] # f
        PROVE  NonEmpty(file[e][Session]) /\ mtime'[file[e][Session]] = mtime[file[e][Session]]
    BY <1>0, <1>5, <2>1, <2>3, FileIs DEF NonEmpty
  <2>4. ASSUME NEW e \in Dirs, file[e][Session] = f, NEW c \in Callers,
               <<e, Session>> \in steady[c]
        PROVE  <<e, Session>> \in steady'[c]
    <3>2. Shows(Append(data[f], line))
      <4>0. PICK h \in Files : h = f
        BY <2>1
      <4>1. latest'[2] = h /\ h # NoFile /\ latest'[1] \in Callers
        BY <1>6, <1>10, <2>1, <4>0 DEF LatestType, MaybeTitle
      <4>2. (Titles(data[h]) # {})' /\ data'[h][1] # "side" /\ data'[h] # <<>>
        BY <2>2, <4>1 DEF LatestSeen, Titles
      <4>4. Shown(h)'
        BY <4>1, <4>2 DEF Shown, Shows, Sidechain
      <4>5. data'[h] = Append(data[h], line)
        BY <1>0, <1>4, <1>5, <2>1, <4>0 DEF TypeOK
      <4>. QED
        BY <1>1, <4>0, <4>4, <4>5 DEF Shown, Shows, Sidechain, Titles, InSight
    <3>. QED
      BY <1>1, <3>2, <2>4 DEF PushesOut, TypeOK
  <2>. QED
    BY <1>1, <1>10, <2>1, <2>2, <2>3, <2>4 DEF LatestKept
<1>11. World
  <2>1. ForksLeft
    <3>. SUFFICES ASSUME NEW c \in Callers, NEW e \in Dirs, file[e][c] = g PROVE FALSE
      BY <1>5 DEF ForksLeft
    <3>1. file[e][c] \in 0..created /\ c \in Sessions /\ c # Session
      BY <1>0, FileIs DEF Sessions
    <3>2. f # NoFile /\ g = f
      BY <1>2, <3>1
    <3>. QED
      BY <1>0, <3>1, <3>2 DEF DirInv, OneName
  <2>. QED
    BY <1>5, <1>8, <1>9, <1>10, <2>1 DEF World, LatestStays
<1>12. LatestNewest' /\ Renamed(latest[1])'
  <2>1. latest'[1] # Nobody => LatestNewest'
    BY <1>10, <1>11, LatestStill
  <2>. QED
    BY <1>0, <1>1, <1>6, <2>1 DEF LatestNewest, Renamed, DirInv
<1>13. DeletedStaysDeleted'
  <2>1. DeletedStaysDeleted
    BY <1>0 DEF DirInv
  <2>2. \A e \in Dirs : e # d => file'[e][Session] = file[e][Session]
    BY <1>0, <1>3
  <2>3. gone \subseteq Dirs
    BY <1>0 DEF TypeOK
  <2>. QED
    BY <1>1, <2>1, <2>2, <2>3 DEF DeletedStaysDeleted, At, Dir
<1>14. \A e \in Dirs : \A c \in Callers : file'[e][c] = file[e][c]
  BY <1>0, <1>3 DEF Sessions
<1>15. \A c \in Callers : CallInv(c)'
  BY <1>1, <1>7, <1>11, <1>14, CliKeepsCalls
<1>. QED
  BY <1>3, <1>5, <1>7, <1>12, <1>13, <1>15 DEF FilesInv, DirInv

LEMMA StubKeeps ==
    ASSUME FilesInv, NEW d \in Dirs, Stub(d)
    PROVE  FilesInv'
<1>0. TypeOK /\ DirInv /\ Session \in Sessions /\ Session \notin Callers
  BY FilesAssumption DEF FilesInv, Sessions
<1>1. /\ call' = call /\ steady' = steady /\ agents' = agents /\ gone' = gone \ {d}
      /\ data' = data /\ mtime' = mtime /\ window' = window /\ clock' = clock /\ quiet' = quiet /\ latest' = latest
      /\ writes < MaxWrites /\ writes' = writes + 1
      /\ file[d][Session] = NoFile /\ Create(d, Session)
  BY DEF Stub
<1>2. /\ created' = created + 1 /\ created' \in MaybeFile /\ created + 1 \in Files
      /\ file' \in [Dirs -> [Sessions -> 0..created']] /\ file'[d][Session] = created + 1
      /\ \A e \in Dirs : \A s \in Sessions : e # d \/ s # Session => file'[e][s] = file[e][s]
      /\ OneName'
  BY <1>0, <1>1, CreateDoes DEF DirInv
<1>3. created \in Nat /\ clock \in Nat /\ data[created + 1] = <<>>
  BY <1>0, <1>2 DEF TypeOK, MaybeFile, DirInv, Times
<1>4. TypeOK'
  <2>1. agents' \subseteq Dirs /\ gone' \subseteq Dirs /\ writes' \in 0..MaxWrites
    BY <1>0, <1>1, FilesAssumption DEF TypeOK
  <2>. QED
    BY <1>0, <1>1, <1>2, <2>1, CallsKept DEF TypeOK
<1>5. DataGrows /\ Times'
  <2>1. DataGrows
    BY <1>0, <1>1, <1>2, <1>3, MtimeIs DEF DataGrows
  <2>2. \A f \in Files : f > created' => f > created
    BY <1>2, <1>3 DEF Files
  <2>. QED
    BY <1>0, <1>1, <2>1, <2>2 DEF Times, DirInv
<1>6. NamesStay
  BY <1>1, <1>2 DEF NamesStay
<1>7. \A e \in Dirs : NonEmpty(file[e][Session])' <=> NonEmpty(file[e][Session])
  BY <1>0, <1>1, <1>2, <1>3 DEF NonEmpty
<1>8. Witnesses
  BY <1>1, <1>7 DEF Witnesses
<1>9. ASSUME latest[1] # Nobody PROVE LatestKept
  <2>1. latest[2] # NoFile
    BY <1>0, <1>9 DEF DirInv, LatestNewest
  <2>2. LatestSeen'
    BY <1>0, <1>1, <1>9, Stays DEF DirInv, LatestNewest
  <2>3. \A e \in Dirs : NonEmpty(file[e][Session]) => file'[e][Session] = file[e][Session]
    BY <1>0, <1>1, <1>2 DEF NonEmpty
  <2>. QED
    BY <1>0, <1>1, <1>2, <1>7, <2>1, <2>2, <2>3 DEF LatestKept
<1>10. World
  BY <1>1, <1>5, <1>6, <1>8, <1>9 DEF World, ForksLeft, LatestStays
<1>11. LatestNewest' /\ Renamed(latest[1])'
  <2>1. latest[1] # Nobody => LatestNewest'
    BY <1>9, <1>10, LatestStill
  <2>. QED
    BY <1>0, <1>1, <2>1 DEF LatestNewest, Renamed, DirInv
<1>12. DeletedStaysDeleted'
  <2>1. DeletedStaysDeleted /\ gone \subseteq Dirs
    BY <1>0 DEF DirInv, TypeOK
  <2>2. \A e \in Dirs : e # d => file'[e][Session] = file[e][Session]
    BY <1>0, <1>2
  <2>. QED
    BY <1>1, <2>1, <2>2 DEF DeletedStaysDeleted, At, Dir
<1>13. \A e \in Dirs : \A c \in Callers : file'[e][c] = file[e][c]
  BY <1>0, <1>2 DEF Sessions
<1>14. \A c \in Callers : CallInv(c)'
  BY <1>1, <1>4, <1>10, <1>13, CliKeepsCalls
<1>. QED
  BY <1>2, <1>4, <1>5, <1>11, <1>12, <1>14 DEF FilesInv, DirInv

LEMMA SubagentKeeps ==
    ASSUME FilesInv, NEW d \in Dirs, SubagentWrites(d)
    PROVE  FilesInv'
<1>0. TypeOK /\ DirInv
  BY DEF FilesInv
<1>1. /\ call' = call /\ steady' = steady /\ quiet' = quiet /\ latest' = latest
      /\ agents' = agents \cup {d} /\ gone' = gone \ {d}
      /\ file' = file /\ data' = data /\ mtime' = mtime /\ window' = window /\ created' = created /\ clock' = clock
      /\ writes < MaxWrites /\ writes' = writes + 1 /\ UNCHANGED <<fs, steady, quiet, latest>>
  BY DEF SubagentWrites, fs
<1>2. TypeOK'
  <2>1. agents' \subseteq Dirs /\ gone' \subseteq Dirs /\ writes' \in 0..MaxWrites
    BY <1>0, <1>1, FilesAssumption DEF TypeOK
  <2>. QED
    BY <1>0, <1>1, <2>1, CallsKept DEF TypeOK
<1>3. World /\ OneName' /\ Times' /\ LatestNewest'
  BY <1>0, <1>1, Still DEF DirInv
<1>4. DeletedStaysDeleted' /\ Renamed(latest[1])'
  BY <1>0, <1>1 DEF DirInv, DeletedStaysDeleted, At, Dir, Renamed
<1>5. \A c \in Callers : CallInv(c)'
  BY <1>1, <1>2, <1>3, CliKeepsCalls
<1>. QED
  BY <1>2, <1>3, <1>4, <1>5 DEF FilesInv, DirInv

-----------------------------------------------------------------------------
(***************************************************************************)
(* A call that looks and goes on, and changes nothing                      *)
(***************************************************************************)
LEMMA OwnCall ==
    ASSUME TypeOK, NEW c \in Callers, NEW r \in CallType, call' = [call EXCEPT ![c] = r],
           Stage(c)'
    PROVE  /\ call'[c] = r /\ Begun(c)' /\ \A x \in Callers \ {c} : call'[x] = call[x]
           /\ call' \in [Callers -> NewType \cup CallType]
           /\ \A x \in Callers : Begun(x)' => Stage(x)'
<1>1. /\ call \in [Callers -> NewType \cup CallType]
      /\ \A x \in Callers : Begun(x) => Stage(x)
  BY DEF TypeOK
<1>2. /\ call'[c] = r /\ \A x \in Callers \ {c} : call'[x] = call[x]
      /\ call' \in [Callers -> NewType \cup CallType]
  BY <1>1
<1>3. r.pc # "new"
  BY DEF CallType, Pcs, Finished
<1>4. \A x \in Callers : Begun(x)' => Stage(x)'
  BY <1>1, <1>2 DEF Begun, Stage
<1>. QED
  BY <1>2, <1>3, <1>4 DEF Begun

\* A call that has not made its fork keeps nothing of it.
NoForkYet(c) ==
    ~(call[c].op = "fork" /\ call[c].pc \in {"created", "ok"})

LEMMA LooksKeeps ==
    ASSUME FilesInv, Untouched, NEW c \in Callers, Begun(c), NEW r \in CallType,
           call' = [call EXCEPT ![c] = r], Stage(c)', call[c].pc \notin {"ok", "unlinked"},
           r.op = call[c].op, r.order = call[c].order,
           NoForkYet(c), NoForkYet(c)', r.want[1] \in {call[c].want[1], Nobody},
           SearchInv(c)', r.op = "list" => ListInv(c)'
    PROVE  FilesInv'
<1>0. TypeOK /\ DirInv /\ CallInv(c)
  BY DEF FilesInv
<1>1. /\ call'[c] = r /\ Begun(c)' /\ \A x \in Callers \ {c} : call'[x] = call[x]
      /\ call' \in [Callers -> NewType \cup CallType]
      /\ \A x \in Callers : Begun(x)' => Stage(x)'
  BY <1>0, OwnCall
<1>2. /\ file' = file /\ data' = data /\ mtime' = mtime /\ created' = created /\ clock' = clock
      /\ agents' = agents /\ writes' = writes /\ gone' = gone /\ window' = window
      /\ steady' = steady /\ quiet' = quiet /\ latest' = latest
      /\ UNCHANGED <<fs, steady, quiet, latest>>
  BY DEF Untouched, fs
<1>3. TypeOK'
  BY <1>0, <1>1, <1>2 DEF TypeOK
<1>4. World /\ OneName' /\ Times' /\ LatestNewest'
  BY <1>0, <1>2, Still DEF DirInv
<1>5. OkStays
  BY <1>1 DEF OkStays
<1>6. Renamed(latest[1])'
  BY <1>0, <1>2, <1>5 DEF DirInv, Renamed, OkStays, TypeOK, LatestType, MaybeTitle
<1>7. DeletedStaysDeleted'
  <2>1. ASSUME NEW x \in Callers, At(x, "unlinked", "delete")
        PROVE  At(x, "unlinked", "delete")' /\ Dir(x)' = Dir(x)
    <3>1. x # c
      BY <2>1 DEF At
    <3>. QED
      BY <1>1, <2>1, <3>1 DEF At, Dir
  <2>. QED
    BY <1>0, <1>2, <2>1 DEF DirInv, DeletedStaysDeleted
<1>8. ASSUME NEW x \in Callers, x # c PROVE CallInv(x)'
  BY <1>1, <1>2, <1>3, <1>4, <1>5, <1>8, IdleKept
<1>9. CallInv(c)'
  <2>1. ForkMade(c)'
    BY <1>0, <1>1, <1>2 DEF CallInv, ForkMade, NoForkYet, At
  <2>2. Renamed(call[c].want[1])'
    <3>1. Renamed(call[c].want[1]) /\ call[c].want[1] \in MaybeTitle
      BY <1>0, CallIs DEF CallInv, LatestType
    <3>. QED
      BY <1>1, <1>5, <3>1 DEF Renamed, OkStays, MaybeTitle
  <2>. QED
    BY <1>1, <2>1, <2>2 DEF CallInv
<1>. QED
  BY <1>3, <1>4, <1>6, <1>7, <1>8, <1>9 DEF FilesInv, DirInv

\* The part of the invariant of a search that follows when nothing changes.
LEMMA SteadyStill ==
    ASSUME FilesInv, Untouched, NEW c \in Callers, Begun(c), call'[c].op = call[c].op
    PROVE  SteadyThere(c)'
<1>1. file' = file /\ data' = data /\ window' = window /\ steady' = steady
  BY DEF Untouched, fs
<1>2. \A f : (Shown(f)' <=> Shown(f)) /\ (NonEmpty(f)' <=> NonEmpty(f))
  BY <1>1 DEF Shown, Shows, Sidechain, Titles, InSight, NonEmpty
<1>. QED
  BY <1>1, <1>2 DEF FilesInv, DirInv, CallInv, SearchInv, SteadyThere

\* A search whose directory does not have the session.
LEMMA MissKeeps ==
    ASSUME FilesInv, Untouched, NEW c \in Callers, Begun(c), call[c].op # "list",
           call[c].pc \in {"search", "opened"},
           ~NonEmpty(IF call[c].pc = "search" THEN Here(c) ELSE call[c].file),
           NEW f \in MaybeFile, call[c].op # "delete" => f = NoFile,
           call' = [call EXCEPT ![c] =
                      IF call[c].at = Len(call[c].order)
                      THEN [call[c] EXCEPT !.pc = "not_found", !.file = f]
                      ELSE [call[c] EXCEPT !.at = @ + 1, !.pc = "search", !.file = f]]
    PROVE  FilesInv'
<1>. DEFINE n == Len(call[c].order)
            r == IF call[c].at = n THEN [call[c] EXCEPT !.pc = "not_found", !.file = f]
                 ELSE [call[c] EXCEPT !.at = @ + 1, !.pc = "search", !.file = f]
<1>0. TypeOK /\ SearchInv(c)
  BY DEF FilesInv, CallInv
<1>1. /\ call[c] \in CallType /\ Stage(c) /\ call[c].order \in Orders /\ call[c].at \in Nat
      /\ n \in Nat \ {0} /\ DOMAIN call[c].order = 1..n
      /\ \A e \in Dirs : \E j \in 1..n : call[c].order[j] = e
  BY <1>0, CallIs, OrderIs
<1>2. call[c].at \in 1..n
  BY <1>1 DEF Stage
<1>3. r \in CallType
  <2>1. call[c].at + 1 \in Nat /\ "not_found" \in Pcs /\ "search" \in Pcs
    BY <1>1 DEF Pcs, Finished
  <2>. QED
    BY <1>1, <2>1 DEF CallType
<1>4. /\ r.op = call[c].op /\ r.order = call[c].order /\ r.want = call[c].want /\ r.file = f
      /\ call[c].at = n => r.pc = "not_found" /\ r.at = n
      /\ call[c].at # n => r.pc = "search" /\ r.at = call[c].at + 1
  BY <1>1 DEF CallType
<1>. HIDE DEF r
<1>5. call' = [call EXCEPT ![c] = r]
  BY DEF r
<1>6. call'[c] = r
  BY <1>0, <1>5 DEF TypeOK
<1>7. Stage(c)'
  BY <1>1, <1>2, <1>4, <1>6 DEF Stage
<1>8. /\ file' = file /\ data' = data /\ steady' = steady /\ quiet' = quiet
  BY DEF Untouched, fs
<1>9. Dir(c) = call[c].order[call[c].at] /\ Dir(c) \in Dirs
  BY <1>0, <1>1, <1>2, HereIs DEF Dir
<1>10. <<Dir(c), Session>> \notin steady[c]
  <2>1. <<Dir(c), Session>> \in steady[c] => NonEmpty(Here(c))
    BY <1>0 DEF SearchInv, SteadyThere, Here
  <2>. QED
    BY <1>0, <2>1 DEF SearchInv, Passed
<1>11. \A j \in 1..call[c].at : <<call[c].order[j], Session>> \notin steady[c]
  <2>1. \A j \in 1..call[c].at : j \in 1..(call[c].at - 1) \/ j = call[c].at
    BY <1>2
  <2>2. \A j \in 1..(call[c].at - 1) : <<call[c].order[j], Session>> \notin steady[c]
    BY <1>0 DEF SearchInv, Passed
  <2>. QED
    BY <1>9, <1>10, <2>1, <2>2
<1>12. Passed(c)'
  <2>1. CASE call[c].at = n
    <3>1. steady[c] = {}
      <4>. SUFFICES ASSUME NEW p \in steady[c] PROVE FALSE
        OBVIOUS
      <4>1. p \in Dirs \X Sessions /\ p[2] = Session
        BY <1>0 DEF TypeOK, SearchInv, SteadyThere
      <4>2. p = <<p[1], Session>> /\ p[1] \in Dirs
        BY <4>1
      <4>. QED
        BY <1>1, <1>11, <2>1, <4>2
    <3>. QED
      BY <1>4, <1>6, <1>8, <2>1, <3>1 DEF Passed
  <2>2. CASE call[c].at # n
    <3>1. r.at - 1 = call[c].at
      BY <1>1, <1>4, <2>2
    <3>. QED
      BY <1>4, <1>6, <1>8, <1>11, <2>2, <3>1 DEF Passed
  <2>. QED
    BY <2>1, <2>2
<1>13. Opened(c)' /\ NoneHeld(c)'
  BY <1>4, <1>6 DEF Opened, NoneHeld
<1>14. AboutFirst(c)'
  <2>. SUFFICES ASSUME quiet[c], call[c].op \in {"rename", "info", "messages", "fork"}
                PROVE  AboutFirst(c)'
    BY <1>4, <1>6, <1>8 DEF AboutFirst
  <2>1. ~NonEmpty(Here(c)) /\ EmptyBefore(c, call[c].at - 1)
    BY <1>0 DEF SearchInv, AboutFirst
  <2>2. \A j \in 1..call[c].at : ~NonEmpty(file[call[c].order[j]][Session])
    <3>1. \A j \in 1..call[c].at : j \in 1..(call[c].at - 1) \/ j = call[c].at
      BY <1>2
    <3>. QED
      BY <1>9, <2>1, <3>1 DEF EmptyBefore, Here
  <2>3. \A j \in 1..call[c].at : ~NonEmpty(file[call[c].order[j]][Session])'
    BY <1>8, <2>2 DEF NonEmpty
  <2>4. CASE call[c].at = n
    BY <1>4, <1>6, <2>3, <2>4 DEF AboutFirst, EmptyBefore
  <2>5. CASE call[c].at # n
    <3>1. r.at - 1 = call[c].at
      BY <1>1, <1>4, <2>5
    <3>. QED
      BY <1>4, <1>6, <2>3, <2>5, <3>1 DEF AboutFirst, EmptyBefore
  <2>. QED
    BY <2>4, <2>5
<1>15. SearchInv(c)'
  BY <1>4, <1>6, <1>12, <1>13, <1>14, SteadyStill DEF SearchInv
<1>16. NoForkYet(c) /\ NoForkYet(c)'
  BY <1>4, <1>6 DEF NoForkYet
<1>. QED
  BY <1>3, <1>4, <1>5, <1>6, <1>7, <1>15, <1>16, LooksKeeps

\* A search that has come to a copy of the session.
LEMMA FindKeeps ==
    ASSUME FilesInv, Untouched, NEW c \in Callers, Begun(c), call[c].pc = "search",
           Here(c) # NoFile, NEW pc \in Pcs, NEW f \in MaybeFile, NEW rows \in SUBSET RowType,
           \/ call[c].op = "rename" /\ pc = "opened" /\ f = Here(c)
           \/ call[c].op \in {"info", "messages"} /\ pc = "ok" /\ f = Here(c) /\ NonEmpty(Here(c))
           \/ call[c].op = "delete" /\ pc = "found" /\ f = Here(c)
           \/ call[c].op = "fork" /\ pc = "found" /\ f = call[c].file /\ NonEmpty(Here(c)),
           call' = [call EXCEPT ![c] = [call[c] EXCEPT !.pc = pc, !.file = f, !.rows = rows]]
    PROVE  FilesInv'
<1>. DEFINE r == [call[c] EXCEPT !.pc = pc, !.file = f, !.rows = rows]
<1>0. TypeOK /\ SearchInv(c) /\ OneName
  BY DEF FilesInv, DirInv, CallInv
<1>1. call[c] \in CallType /\ Stage(c) /\ call[c].order \in Orders /\ call[c].at \in Nat
  BY <1>0, CallIs
<1>2. /\ r \in CallType /\ r.pc = pc /\ r.op = call[c].op /\ r.order = call[c].order
      /\ r.want = call[c].want /\ r.at = call[c].at /\ r.file = f
  BY <1>1 DEF CallType
<1>. HIDE DEF r
<1>3. call' = [call EXCEPT ![c] = r]
  BY DEF r
<1>4. call'[c] = r
  BY <1>0, <1>3 DEF TypeOK
<1>5. Stage(c)'
  BY <1>1, <1>2, <1>4 DEF Stage
<1>6. /\ file' = file /\ data' = data /\ steady' = steady /\ quiet' = quiet /\ created' = created
  BY DEF Untouched, fs
<1>7. /\ Dir(c)' = Dir(c) /\ Here(c)' = Here(c) /\ Dir(c) \in Dirs /\ Here(c) \in 1..created
      /\ NonEmpty(Here(c))' <=> NonEmpty(Here(c))
  <2>1. Dir(c)' = Dir(c) /\ Here(c)' = Here(c)
    BY <1>2, <1>4, <1>6 DEF Dir, Here
  <2>2. Dir(c) \in Dirs /\ Here(c) \in 0..created
    BY <1>0, <1>1, HereIs DEF Stage
  <2>. QED
    BY <1>0, <1>6, <2>1, <2>2 DEF NoFile, NonEmpty
<1>8. Passed(c)'
  BY <1>0, <1>2, <1>4, <1>6, <1>7 DEF SearchInv, Passed
<1>9. Opened(c)'
  <2>1. \A d \in Dirs : \A s \in Sessions :
            file[d][s] = Here(c) => d = Dir(c) /\ s = Session
    BY <1>0, <1>7 DEF OneName, Here, Sessions
  <2>. QED
    BY <1>2, <1>4, <1>6, <1>7, <2>1 DEF Opened
<1>10. AboutFirst(c)'
  <2>1. EmptyBefore(c, call[c].at - 1)' <=> EmptyBefore(c, call[c].at - 1)
    BY <1>2, <1>4, <1>6 DEF EmptyBefore, NonEmpty
  <2>. QED
    BY <1>0, <1>2, <1>4, <1>6, <1>7, <2>1 DEF SearchInv, AboutFirst
<1>11. NoneHeld(c)'
  BY <1>0, <1>2, <1>4 DEF SearchInv, NoneHeld
<1>12. SearchInv(c)'
  BY <1>2, <1>4, <1>8, <1>9, <1>10, <1>11, SteadyStill DEF SearchInv
<1>13. NoForkYet(c) /\ NoForkYet(c)' /\ call[c].op # "list"
  BY <1>1, <1>2, <1>4 DEF NoForkYet, Stage
<1>. QED
  BY <1>2, <1>3, <1>5, <1>12, <1>13, LooksKeeps

\* A fork that reads its source, or a deletion that finds it gone.
LEMMA SourceKeeps ==
    ASSUME FilesInv, Untouched, NEW c \in Callers, Begun(c), call[c].pc = "found",
           NEW pc \in Pcs, NEW f \in MaybeFile, NEW lines \in Seq({"talk", "meta"}),
           \/ call[c].op = "delete" /\ pc = "not_found"
           \/ call[c].op = "fork" /\ pc = "not_found" /\ f = call[c].file /\ Here(c) = NoFile
           \/ call[c].op = "fork" /\ pc \in {"read", "no_messages"} /\ f = Here(c),
           call' = [call EXCEPT ![c] = [call[c] EXCEPT !.pc = pc, !.file = f, !.lines = lines]]
    PROVE  FilesInv'
<1>. DEFINE r == [call[c] EXCEPT !.pc = pc, !.file = f, !.lines = lines]
<1>0. TypeOK /\ SearchInv(c)
  BY DEF FilesInv, CallInv
<1>1. call[c] \in CallType /\ Stage(c)
  BY <1>0, CallIs
<1>2. /\ r \in CallType /\ r.pc = pc /\ r.op = call[c].op /\ r.order = call[c].order
      /\ r.want = call[c].want /\ r.at = call[c].at /\ r.file = f
  BY <1>1 DEF CallType
<1>. HIDE DEF r
<1>3. call' = [call EXCEPT ![c] = r]
  BY DEF r
<1>4. call'[c] = r
  BY <1>0, <1>3 DEF TypeOK
<1>5. Stage(c)'
  BY <1>1, <1>2, <1>4 DEF Stage
<1>6. /\ file' = file /\ data' = data /\ steady' = steady /\ quiet' = quiet /\ created' = created
  BY DEF Untouched, fs
<1>7. Here(c)' = Here(c) /\ (NonEmpty(Here(c))' <=> NonEmpty(Here(c)))
  BY <1>2, <1>4, <1>6 DEF Dir, Here, NonEmpty
<1>8. Passed(c)' /\ Opened(c)'
  BY <1>2, <1>4 DEF Passed, Opened
<1>9. AboutFirst(c)'
  <2>1. EmptyBefore(c, call[c].at - 1)' <=> EmptyBefore(c, call[c].at - 1)
    BY <1>2, <1>4, <1>6 DEF EmptyBefore, NonEmpty
  <2>. QED
    BY <1>0, <1>2, <1>4, <1>6, <1>7, <2>1 DEF SearchInv, AboutFirst, NonEmpty
<1>10. NoneHeld(c)'
  BY <1>0, <1>2, <1>4 DEF SearchInv, NoneHeld
<1>11. SearchInv(c)'
  BY <1>2, <1>4, <1>8, <1>9, <1>10, SteadyStill DEF SearchInv
<1>12. NoForkYet(c) /\ NoForkYet(c)' /\ call[c].op # "list"
  BY <1>1, <1>2, <1>4 DEF NoForkYet, Stage
<1>. QED
  BY <1>1, <1>2, <1>3, <1>5, <1>11, <1>12, LooksKeeps

\* All that the calls on one session do to look for it.
LEMMA SearchesKeep ==
    ASSUME FilesInv, NEW c \in Callers,
           \/ OpensFile(c)
           \/ WritesTitle(c) /\ ~NonEmpty(call[c].file)
           \/ ReadsInfo(c) \/ ReadsMessages(c) \/ FindsFile(c)
           \/ Unlinks(c) /\ Here(c) = NoFile
           \/ FindsSource(c) \/ ReadsSource(c)
    PROVE  FilesInv'
<1>0. TypeOK
  BY DEF FilesInv
<1>1. Untouched /\ Begun(c)
  BY DEF OpensFile, WritesTitle, ReadsInfo, ReadsMessages, FindsFile, Unlinks, FindsSource,
         ReadsSource, At, Begun
<1>2. /\ call[c] \in CallType /\ Stage(c) /\ call[c].file \in MaybeFile
      /\ call[c].rows \in SUBSET RowType /\ call[c].lines \in Seq({"talk", "meta"})
      /\ call \in [Callers -> NewType \cup CallType] /\ NoFile \in MaybeFile
      /\ call[c].file = call[c].file
  BY <1>0, <1>1, CallIs, FilesAssumption DEF TypeOK, NoFile, MaybeFile
<1>3. call[c].op # "delete" /\ call[c].pc = "search" => call[c].file = NoFile
  BY <1>1 DEF FilesInv, CallInv, SearchInv, NoneHeld
<1>4. ASSUME call[c].op # "list", call[c].pc = "search", ~NonEmpty(Here(c)), SearchesOn(c)
      PROVE  FilesInv'
  <2>1. call' = [call EXCEPT ![c] =
                   IF call[c].at = Len(call[c].order)
                   THEN [call[c] EXCEPT !.pc = "not_found", !.file = call[c].file]
                   ELSE [call[c] EXCEPT !.at = @ + 1, !.pc = "search", !.file = call[c].file]]
    BY <1>2, <1>4 DEF SearchesOn, Ends, Goes, CallType
  <2>. QED
    BY <1>1, <1>2, <1>3, <1>4, <2>1, MissKeeps
<1>5. ASSUME call[c].pc \in {"search", "opened"} \/ call[c].pc = "found"
      PROVE  call[c].op # "list" /\ Here(c) \in MaybeFile /\ (Here(c) # NoFile => Here(c) \in Files)
  <2>1. call[c].op # "list" /\ call[c].at \in DOMAIN call[c].order
    BY <1>2, <1>5 DEF Stage
  <2>2. Dir(c) \in Dirs
    BY <1>0, <1>1, <2>1, HereIs
  <2>. QED
    BY <1>0, <2>1, <2>2, FileIs DEF Here, Sessions
<1>6. ASSUME call[c].pc = "search", Here(c) # NoFile, NEW pc \in Pcs, Holds(c, pc, Here(c)),
             \/ call[c].op = "rename" /\ pc = "opened"
             \/ call[c].op = "messages" /\ pc = "ok" /\ NonEmpty(Here(c))
             \/ call[c].op = "delete" /\ pc = "found"
      PROVE  FilesInv'
  <2>1. call' = [call EXCEPT ![c] = [call[c] EXCEPT !.pc = pc, !.file = Here(c),
                                                    !.rows = call[c].rows]]
    BY <1>2, <1>6 DEF Holds, CallType
  <2>. QED
    BY <1>1, <1>2, <1>5, <1>6, <2>1, FindKeeps
<1>7. CASE OpensFile(c)
  BY <1>4, <1>5, <1>6, <1>7 DEF OpensFile, At, Pcs, NonEmpty
<1>8. CASE WritesTitle(c) /\ ~NonEmpty(call[c].file)
  <2>1. call[c].pc = "opened" /\ call[c].op = "rename"
    BY <1>8 DEF WritesTitle, At
  <2>2. call' = [call EXCEPT ![c] =
                   IF call[c].at = Len(call[c].order)
                   THEN [call[c] EXCEPT !.pc = "not_found", !.file = NoFile]
                   ELSE [call[c] EXCEPT !.at = @ + 1, !.pc = "search", !.file = NoFile]]
    BY <1>2, <1>8 DEF WritesTitle, Holds, CallType
  <2>. QED
    BY <1>1, <1>2, <1>8, <2>1, <2>2, MissKeeps
<1>9. CASE ReadsInfo(c)
  <2>1. call[c].pc = "search" /\ call[c].op = "info"
    BY <1>9 DEF ReadsInfo, At
  <2>2. CASE NonEmpty(Here(c))
    <3>. DEFINE rows == IF Shown(Here(c)) THEN {Row(Session, Here(c))} ELSE {}
    <3>1. Here(c) # NoFile /\ Here(c) \in Files
      BY <1>5, <2>1, <2>2 DEF NonEmpty
    <3>2. rows \in SUBSET RowType
      <4>1. Title(Here(c)) \in MaybeTitle /\ mtime[Here(c)] \in Nat
        BY <1>0, <3>1, TitleType, MtimeIs DEF TypeOK
      <4>. QED
        BY <3>1, <4>1 DEF Row, RowType, Sessions
    <3>3. call' = [call EXCEPT ![c] = [call[c] EXCEPT !.pc = "ok", !.file = Here(c), !.rows = rows]]
      BY <1>2, <1>9, <2>2 DEF ReadsInfo, CallType
    <3>. HIDE DEF rows
    <3>. QED
      BY <1>1, <1>5, <2>1, <2>2, <3>1, <3>2, <3>3, FindKeeps DEF Pcs, Finished
  <2>3. CASE ~NonEmpty(Here(c))
    BY <1>4, <1>9, <2>1, <2>3 DEF ReadsInfo
  <2>. QED
    BY <2>2, <2>3
<1>10. CASE ReadsMessages(c)
  BY <1>4, <1>5, <1>6, <1>10 DEF ReadsMessages, At, Pcs, Finished, NonEmpty
<1>11. CASE FindsFile(c)
  BY <1>4, <1>5, <1>6, <1>11 DEF FindsFile, At, Pcs, NonEmpty
<1>12. CASE Unlinks(c) /\ Here(c) = NoFile
  <2>1. call[c].pc = "found" /\ call[c].op = "delete"
    BY <1>12 DEF Unlinks, At
  <2>2. call' = [call EXCEPT ![c] = [call[c] EXCEPT !.pc = "not_found", !.file = call[c].file,
                                                    !.lines = call[c].lines]]
    BY <1>2, <1>12 DEF Unlinks, Ends, Goes, CallType
  <2>. QED
    BY <1>1, <1>2, <2>1, <2>2, SourceKeeps DEF Pcs, Finished
<1>13. CASE FindsSource(c)
  <2>1. call[c].pc = "search" /\ call[c].op = "fork"
    BY <1>13 DEF FindsSource, At
  <2>2. CASE NonEmpty(Here(c))
    <3>1. call' = [call EXCEPT ![c] = [call[c] EXCEPT !.pc = "found", !.file = call[c].file,
                                                      !.rows = call[c].rows]]
      BY <1>2, <1>13, <2>2 DEF FindsSource, Goes, CallType
    <3>. QED
      BY <1>1, <1>2, <2>1, <2>2, <3>1, FindKeeps DEF Pcs, NonEmpty
  <2>3. CASE ~NonEmpty(Here(c))
    BY <1>4, <1>13, <2>1, <2>3 DEF FindsSource
  <2>. QED
    BY <2>2, <2>3
<1>14. CASE ReadsSource(c)
  <2>1. call[c].pc = "found" /\ call[c].op = "fork"
    BY <1>14 DEF ReadsSource, At
  <2>2. CASE Here(c) = NoFile
    <3>1. call' = [call EXCEPT ![c] = [call[c] EXCEPT !.pc = "not_found", !.file = call[c].file,
                                                      !.lines = call[c].lines]]
      BY <1>2, <1>14, <2>2 DEF ReadsSource, Ends, Goes, CallType
    <3>. QED
      BY <1>1, <1>2, <2>1, <2>2, <3>1, SourceKeeps DEF Pcs, Finished
  <2>3. CASE Here(c) # NoFile /\ Copied(Here(c)) = <<>>
    <3>1. call' = [call EXCEPT ![c] = [call[c] EXCEPT !.pc = "no_messages", !.file = Here(c),
                                                      !.lines = call[c].lines]]
      BY <1>2, <1>14, <2>3 DEF ReadsSource, Holds, CallType
    <3>. QED
      BY <1>1, <1>2, <1>5, <2>1, <2>3, <3>1, SourceKeeps DEF Pcs, Finished
  <2>4. CASE Here(c) # NoFile /\ Copied(Here(c)) # <<>>
    <3>1. call' = [call EXCEPT ![c] = [call[c] EXCEPT !.pc = "read", !.file = Here(c),
                                                      !.lines = Copied(Here(c))]]
      BY <1>2, <1>14, <2>4 DEF ReadsSource, CallType
    <3>2. Copied(Here(c)) \in Seq({"talk", "meta"})
      BY <1>0, <1>5, <2>1, <2>4, CopiedSeq
    <3>. QED
      BY <1>1, <1>2, <1>5, <2>1, <2>4, <3>1, <3>2, SourceKeeps DEF Pcs
  <2>. QED
    BY <2>2, <2>3, <2>4
<1>. QED
  BY <1>7, <1>8, <1>9, <1>10, <1>11, <1>12, <1>13, <1>14

-----------------------------------------------------------------------------
(***************************************************************************)
(* Listings                                                                *)
(***************************************************************************)
\* A step of a listing needs to keep only what is said of listings.
LEMMA ListingKeeps ==
    ASSUME FilesInv, Untouched, NEW c \in Callers,
           call[c].op = "list", call[c].pc \in {"names", "rows"},
           NEW r \in CallType, call' = [call EXCEPT ![c] = r],
           r.op = "list", r.order = call[c].order, r.pc \in {"names", "rows", "ok"},
           r.at \in 1..(Len(call[c].order) + 1),
           r.pc = "rows" => r.at \in DOMAIN call[c].order,
           r.want[1] \in {call[c].want[1], Nobody}, ListInv(c)'
    PROVE  FilesInv'
<1>1. Begun(c) /\ TypeOK /\ call'[c] = r
  BY DEF Begun, FilesInv, TypeOK
<1>2. Stage(c)'
  BY <1>1 DEF Stage
<1>3. Passed(c)' /\ Opened(c)' /\ AboutFirst(c)' /\ NoneHeld(c)'
  BY <1>1 DEF Passed, Opened, AboutFirst, NoneHeld
<1>4. SearchInv(c)'
  BY <1>1, <1>3, SteadyStill DEF SearchInv
<1>5. NoForkYet(c) /\ NoForkYet(c)'
  BY <1>1 DEF NoForkYet
<1>. QED
  BY <1>1, <1>2, <1>4, <1>5, LooksKeeps

\* What is said of the rows, while there are no others.
LEMMA RowsStill ==
    ASSUME FilesInv, Untouched, NEW c \in Callers, Begun(c), call[c].op = "list",
           call[c].pc \in {"names", "rows"}, call'[c].pc \in {"names", "rows"},
           call'[c].rows = call[c].rows, call'[c].want = call[c].want
    PROVE  RowsTrue(c)' /\ Recent(c)'
<1>1. /\ file' = file /\ data' = data /\ mtime' = mtime /\ window' = window
      /\ steady' = steady /\ latest' = latest
      /\ RowsTrue(c) /\ Recent(c)
  BY DEF Untouched, fs, FilesInv, CallInv, ListInv
<1>2. \A f : Title(f)' = Title(f) /\ (NonEmpty(f)' <=> NonEmpty(f))
  BY <1>1 DEF Title, TitleOf, Titles, InSight, NonEmpty
<1>3. RowsTrue(c)'
  BY <1>1, <1>2 DEF RowsTrue
<1>4. Recent(c)'
  <2>. SUFFICES ASSUME Tracks(c)' PROVE Recent(c)'
    BY DEF Recent
  <2>1. Tracks(c)
    BY <1>1 DEF Tracks
  <2>. QED
    BY <1>1, <1>2, <2>1 DEF Recent
<1>. QED
  BY <1>3, <1>4

LEMMA ReadsNamesKeeps ==
    ASSUME FilesInv, NEW c \in Callers, ReadsNames(c)
    PROVE  FilesInv'
<1>. DEFINE found == {s \in Sessions : file[Dir(c)][s] # NoFile}
            r == [call[c] EXCEPT !.pc = "rows", !.names = found]
<1>1. /\ Untouched /\ call[c].op = "list" /\ call[c].pc = "names" /\ Begun(c)
      /\ call[c].at <= Len(call[c].order) /\ TypeOK /\ SteadyThere(c) /\ ListInv(c)
  BY DEF ReadsNames, At, Begun, FilesInv, CallInv, SearchInv
<1>2. /\ call[c] \in CallType /\ Stage(c) /\ call[c].order \in Orders
      /\ call \in [Callers -> NewType \cup CallType]
  BY <1>1, CallIs DEF TypeOK
<1>3. call' = [call EXCEPT ![c] = r]
  BY <1>2 DEF ReadsNames, CallType
<1>4. /\ r \in CallType /\ r.op = "list" /\ r.order = call[c].order /\ r.pc = "rows"
      /\ r.at = call[c].at /\ r.want = call[c].want /\ r.names = found /\ r.rows = call[c].rows
  <2>1. found \in SUBSET Sessions /\ "rows" \in Pcs
    BY DEF Pcs
  <2>. HIDE DEF found
  <2>. QED
    BY <1>1, <1>2, <2>1 DEF CallType
<1>. HIDE DEF r
<1>5. call'[c] = r
  BY <1>2, <1>3
<1>6. call[c].at \in 1..Len(call[c].order) /\ DOMAIN call[c].order = 1..Len(call[c].order)
  BY <1>1, <1>2, OrderIs DEF Stage
<1>7. /\ file' = file /\ data' = data /\ mtime' = mtime /\ steady' = steady /\ latest' = latest
  BY <1>1 DEF Untouched, fs
<1>8. Covered(c)'
  <2>1. ASSUME NEW p \in steady[c], Dir(c) = p[1] PROVE p[2] \in found
    <3>1. p[1] \in Dirs /\ p[2] \in Sessions /\ file[p[1]][p[2]] # NoFile
      BY <1>1 DEF TypeOK, SteadyThere, Shown
    <3>. QED
      BY <2>1, <3>1
  <2>2. Dir(c)' = Dir(c)
    BY <1>4, <1>5 DEF Dir
  <2>3. Covered(c)
    BY <1>1 DEF ListInv
  <2>. HIDE DEF found
  <2>. QED
    BY <1>1, <1>4, <1>5, <1>7, <2>1, <2>2, <2>3 DEF Covered, HasRow
<1>9. RowsTrue(c)' /\ Recent(c)'
  BY <1>1, <1>4, <1>5, RowsStill
<1>10. r.at \in 1..(Len(call[c].order) + 1) /\ r.at \in DOMAIN call[c].order
  BY <1>2, <1>4, <1>6, OrderIs
<1>. QED
  BY <1>1, <1>3, <1>4, <1>8, <1>9, <1>10, ListingKeeps DEF ListInv

LEMMA NextDirKeeps ==
    ASSUME FilesInv, NEW c \in Callers, NextDir(c)
    PROVE  FilesInv'
<1>. DEFINE r == [call[c] EXCEPT !.at = @ + 1, !.pc = "names"]
<1>1. /\ Untouched /\ call[c].op = "list" /\ call[c].pc = "rows" /\ Begun(c)
      /\ call[c].names = {} /\ TypeOK /\ ListInv(c)
  BY DEF NextDir, At, Begun, FilesInv, CallInv
<1>2. /\ call[c] \in CallType /\ Stage(c) /\ call[c].order \in Orders /\ call[c].at \in Nat
      /\ call \in [Callers -> NewType \cup CallType]
  BY <1>1, CallIs DEF TypeOK
<1>3. call' = [call EXCEPT ![c] = r]
  BY <1>2 DEF NextDir, CallType
<1>4. /\ r \in CallType /\ r.op = "list" /\ r.order = call[c].order /\ r.pc = "names"
      /\ r.at = call[c].at + 1 /\ r.want = call[c].want /\ r.rows = call[c].rows
  <2>1. call[c].at + 1 \in Nat /\ "names" \in Pcs
    BY <1>2 DEF Pcs
  <2>. QED
    BY <1>1, <1>2, <2>1 DEF CallType
<1>. HIDE DEF r
<1>5. call'[c] = r
  BY <1>2, <1>3
<1>6. call[c].at \in 1..Len(call[c].order) /\ Len(call[c].order) \in Nat
  BY <1>1, <1>2, OrderIs DEF Stage
<1>7. /\ file' = file /\ data' = data /\ mtime' = mtime /\ steady' = steady /\ latest' = latest
  BY <1>1 DEF Untouched, fs
<1>8. Covered(c)'
  <2>. SUFFICES ASSUME NEW p \in steady[c], NEW j \in 1..call[c].at, call[c].order[j] = p[1]
                PROVE  HasRow(c, p)
    BY <1>2, <1>4, <1>5, <1>7 DEF Covered, HasRow
  <2>1. Covered(c)
    BY <1>1 DEF ListInv
  <2>2. CASE j \in 1..(call[c].at - 1)
    BY <1>1, <2>1, <2>2 DEF Covered
  <2>3. CASE j = call[c].at
    BY <1>1, <2>1, <2>3 DEF Covered, Dir
  <2>. QED
    BY <1>2, <2>2, <2>3
<1>9. RowsTrue(c)' /\ Recent(c)'
  BY <1>1, <1>4, <1>5, RowsStill
<1>10. r.at \in 1..(Len(call[c].order) + 1)
  BY <1>4, <1>6
<1>. QED
  BY <1>1, <1>3, <1>4, <1>8, <1>9, <1>10, ListingKeeps DEF ListInv

LEMMA ReadsRowKeeps ==
    ASSUME FilesInv, NEW c \in Callers, NEW s \in Sessions, ReadsRow(c, s)
    PROVE  FilesInv'
<1>. DEFINE f == file[Dir(c)][s]
            rows == IF Shown(f) THEN call[c].rows \cup {Row(s, f)} ELSE call[c].rows
            r == [call[c] EXCEPT !.names = @ \ {s}, !.rows = rows]
<1>1. /\ Untouched /\ call[c].op = "list" /\ call[c].pc = "rows" /\ Begun(c)
      /\ TypeOK /\ SteadyThere(c) /\ ListInv(c) /\ OneName /\ Times /\ LatestNewest
  BY DEF ReadsRow, At, Begun, FilesInv, DirInv, CallInv, SearchInv
<1>2. /\ call[c] \in CallType /\ Stage(c) /\ call[c].order \in Orders
      /\ call[c].rows \in SUBSET RowType /\ call[c].names \in SUBSET Sessions
      /\ call \in [Callers -> NewType \cup CallType]
  BY <1>1, CallIs DEF TypeOK
<1>3. call' = [call EXCEPT ![c] = r]
  BY <1>2 DEF ReadsRow, CallType
<1>4. call[c].at \in DOMAIN call[c].order /\ call[c].at \in 1..(Len(call[c].order) + 1)
  BY <1>1, <1>2 DEF Stage
<1>5. Dir(c) \in Dirs /\ f \in MaybeFile /\ (Shown(f) => f \in Files)
  BY <1>1, <1>4, HereIs, FileIs DEF Shown
<1>6. Shown(f) => Row(s, f) \in RowType
  BY <1>1, <1>5, TitleType, MtimeIs DEF TypeOK, RowType, Row
<1>7. rows \in SUBSET RowType /\ call[c].rows \subseteq rows
  BY <1>2, <1>6
<1>8. \A x \in rows : x \in call[c].rows \/ (x = Row(s, f) /\ Shown(f))
  OBVIOUS
<1>9. Shown(f) => Row(s, f) \in rows
  OBVIOUS
<1>10. /\ Row(s, f).session = s /\ Row(s, f).file = f /\ Row(s, f).title = Title(f)
       /\ Row(s, f).mtime = mtime[f]
  BY DEF Row
<1>. HIDE DEF rows
<1>11. /\ r \in CallType /\ r.op = "list" /\ r.order = call[c].order /\ r.pc = "rows"
       /\ r.at = call[c].at /\ r.want = call[c].want /\ r.rows = rows
       /\ r.names = call[c].names \ {s}
  BY <1>1, <1>2, <1>7 DEF CallType
<1>. HIDE DEF r
<1>12. call'[c] = r
  BY <1>2, <1>3
<1>13. /\ file' = file /\ data' = data /\ mtime' = mtime /\ window' = window
       /\ steady' = steady /\ latest' = latest
  BY <1>1 DEF Untouched, fs
<1>14. \A g : Title(g)' = Title(g) /\ (NonEmpty(g)' <=> NonEmpty(g))
  BY <1>13 DEF Title, TitleOf, Titles, InSight, NonEmpty
<1>15. Covered(c)'
  <2>1. ASSUME NEW p \in steady[c], HasRow(c, p) PROVE HasRow(c, p)'
    BY <1>7, <1>11, <1>12, <1>13, <2>1 DEF HasRow
  <2>2. ASSUME NEW p \in steady[c], p[1] = Dir(c), p[2] = s PROVE HasRow(c, p)'
    <3>1. Shown(f)
      BY <1>1, <2>2 DEF SteadyThere
    <3>. QED
      BY <1>9, <1>10, <1>11, <1>12, <1>13, <2>2, <3>1 DEF HasRow
  <2>3. Dir(c)' = Dir(c)
    BY <1>11, <1>12 DEF Dir
  <2>4. Covered(c)
    BY <1>1 DEF ListInv
  <2>. QED
    BY <1>1, <1>11, <1>12, <1>13, <2>1, <2>2, <2>3, <2>4 DEF Covered
<1>16. RowsTrue(c)'
  <2>1. Shown(f) => /\ mtime[f] \in 1..mtime[f]
                    /\ \A g \in Files : mtime[g] = mtime[f] => g = f
    <3>. SUFFICES ASSUME Shown(f) PROVE /\ mtime[f] \in 1..mtime[f]
                                        /\ \A g \in Files : mtime[g] = mtime[f] => g = f
      OBVIOUS
    <3>1. f \in Files /\ mtime[f] \in Nat /\ mtime[f] # 0
      BY <1>1, <1>5, MtimeIs DEF Shown, Shows, Times
    <3>. QED
      BY <1>1, <3>1 DEF Times
  <2>2. RowsTrue(c)
    BY <1>1 DEF ListInv
  <2>3. ASSUME NEW x \in rows
        PROVE  /\ x.mtime \in 1..mtime[x.file]
               /\ x.mtime = mtime[x.file] => x.title = Title(x.file)
               /\ \A g \in Files : mtime[g] = x.mtime => g = x.file
    BY <1>8, <1>10, <2>1, <2>2 DEF RowsTrue
  <2>4. ASSUME NEW x \in rows, NEW o \in rows, x.mtime = o.mtime
        PROVE  x.file = o.file /\ x.title = o.title
    <3>1. CASE x = Row(s, f) /\ Shown(f)
      BY <1>5, <1>10, <2>3, <2>4, <3>1
    <3>2. CASE o = Row(s, f) /\ Shown(f)
      BY <1>5, <1>10, <2>3, <2>4, <3>2
    <3>3. CASE x \in call[c].rows /\ o \in call[c].rows
      BY <2>2, <2>4, <3>3 DEF RowsTrue
    <3>. QED
      BY <1>8, <3>1, <3>2, <3>3
  <2>. QED
    BY <1>11, <1>12, <1>13, <1>14, <2>3, <2>4 DEF RowsTrue
<1>17. Recent(c)'
  <2>. SUFFICES ASSUME Tracks(c)' PROVE Recent(c)'
    BY <1>11, <1>12 DEF Recent
  <2>1. Tracks(c) /\ Recent(c) /\ call[c].pc = "rows"
    BY <1>1, <1>11, <1>12, <1>13 DEF Tracks, ListInv
  <2>2. \E d \in Dirs : file[d][Session] = latest[2] /\ <<d, Session>> \in steady[c]
    BY <2>1 DEF Recent
  <2>3. Title(latest[2]) = latest[1] /\ \A d \in Dirs :
           NonEmpty(file[d][Session]) /\ file[d][Session] # latest[2] =>
              mtime[file[d][Session]] < mtime[latest[2]]
    <3>1. latest[2] \in Files
      BY <1>1, <2>1, <2>2, FileIs DEF Tracks, LatestNewest, Sessions
    <3>. QED
      BY <1>1, <2>1, <3>1, LatestTitle DEF Tracks, LatestNewest
  <2>4. ASSUME NEW d \in Dirs, NonEmpty(file[d][Session]), file[d][Session] # latest[2],
               NEW o \in rows, o.file = latest[2]
        PROVE  mtime[file[d][Session]] < o.mtime
    <3>1. CASE o \in call[c].rows
      BY <2>1, <2>4, <3>1 DEF Recent
    <3>2. CASE o = Row(s, f)
      BY <1>10, <2>3, <2>4, <3>2
    <3>. QED
      BY <1>8, <3>1, <3>2
  <2>5. ASSUME NEW x \in rows, x.session = Session
        PROVE  IF x.file = latest[2] THEN x.title = latest[1]
               ELSE /\ x.mtime < mtime[latest[2]]
                    /\ \A o \in rows : o.file = latest[2] => x.mtime < o.mtime
    <3>1. CASE x \in call[c].rows
      <4>1. IF x.file = latest[2] THEN x.title = latest[1]
            ELSE /\ x.mtime < mtime[latest[2]]
                 /\ \A o \in call[c].rows : o.file = latest[2] => x.mtime < o.mtime
        BY <2>1, <2>5, <3>1 DEF Recent
      <4>. QED
        BY <1>8, <1>10, <4>1
    <3>2. CASE x = Row(s, f) /\ Shown(f)
      <4>1. s = Session /\ x.file = f /\ x.title = Title(f) /\ x.mtime = mtime[f]
        BY <1>10, <2>5, <3>2
      <4>2. CASE f = latest[2]
        BY <2>3, <4>1, <4>2
      <4>3. CASE f # latest[2]
        <5>1. NonEmpty(file[Dir(c)][Session]) /\ file[Dir(c)][Session] = f
          BY <3>2, <4>1 DEF Shown, Shows, NonEmpty
        <5>. QED
          BY <1>5, <2>3, <2>4, <4>1, <4>3, <5>1
      <4>. QED
        BY <4>2, <4>3
    <3>. QED
      BY <1>8, <3>1, <3>2
  <2>. QED
    BY <1>11, <1>12, <1>13, <1>14, <2>1, <2>2, <2>4, <2>5 DEF Recent
<1>. QED
  BY <1>1, <1>3, <1>4, <1>11, <1>15, <1>16, <1>17, ListingKeeps DEF ListInv

\* The newest copy of each session that has a row.
LEMMA DedupKeeps ==
    ASSUME NEW rows \in SUBSET RowType, NEW n \in Nat, \A r \in rows : r.mtime <= n,
           NEW r \in rows
    PROVE  \E o \in Deduplicated(rows) : o.session = r.session /\ r.mtime <= o.mtime
<1>. DEFINE same == {o \in rows : o.session = r.session}
            T == {o.mtime : o \in same}
<1>1. T \in SUBSET Nat /\ T # {} /\ \A x \in T : x <= n
  BY DEF RowType
<1>2. Max(T) \in T /\ \A x \in T : x <= Max(T)
  BY <1>1, MaxIs
<1>3. PICK o \in same : o.mtime = Max(T)
  BY <1>2
<1>4. \A x \in same : x.mtime <= o.mtime
  BY <1>2, <1>3
<1>5. o \in Deduplicated(rows)
  BY <1>4 DEF Deduplicated
<1>. QED
  BY <1>4, <1>5

LEMMA ListReturnsKeeps ==
    ASSUME FilesInv, NEW c \in Callers, ListReturns(c)
    PROVE  FilesInv'
<1>. DEFINE rows == Deduplicated(call[c].rows)
            want == IF call[c].want = latest THEN call[c].want ELSE NoRename
            r == [call[c] EXCEPT !.pc = "ok", !.rows = rows, !.want = want]
<1>1. /\ Untouched /\ call[c].op = "list" /\ call[c].pc = "names" /\ Begun(c)
      /\ call[c].at > Len(call[c].order) /\ TypeOK /\ SteadyThere(c) /\ ListInv(c)
  BY DEF ListReturns, At, Begun, FilesInv, CallInv, SearchInv
<1>2. /\ call[c] \in CallType /\ Stage(c) /\ call[c].order \in Orders
      /\ call[c].rows \in SUBSET RowType /\ call[c].want \in LatestType
      /\ call \in [Callers -> NewType \cup CallType]
  BY <1>1, CallIs DEF TypeOK
<1>3. call' = [call EXCEPT ![c] = r]
  BY <1>2 DEF ListReturns, Lists, CallType
<1>4. rows \subseteq call[c].rows
  BY DEF Deduplicated
<1>5. want \in LatestType /\ want[1] \in {call[c].want[1], Nobody}
  <2>1. NoRename \in LatestType /\ NoRename[1] = Nobody
    BY FilesAssumption DEF NoRename, LatestType, MaybeTitle, MaybeFile, NoFile
  <2>. QED
    BY <1>2, <2>1
<1>6. want[1] # Nobody => Tracks(c) /\ want = latest
  BY DEF Tracks, NoRename
<1>. HIDE DEF want, rows
<1>7. /\ r \in CallType /\ r.op = "list" /\ r.order = call[c].order /\ r.pc = "ok"
      /\ r.at = call[c].at /\ r.want = want /\ r.rows = rows
  <2>1. "ok" \in Pcs
    BY DEF Pcs, Finished
  <2>. QED
    BY <1>1, <1>2, <1>4, <1>5, <2>1 DEF CallType
<1>. HIDE DEF r
<1>8. call'[c] = r
  BY <1>2, <1>3
<1>9. /\ file' = file /\ data' = data /\ mtime' = mtime /\ window' = window
      /\ steady' = steady /\ latest' = latest
  BY <1>1 DEF Untouched, fs
<1>10. RowsTrue(c) /\ Covered(c) /\ Recent(c)
  BY <1>1 DEF ListInv
<1>11. ASSUME NEW x \in call[c].rows
       PROVE  \E o \in rows : o.session = x.session /\ x.mtime <= o.mtime
  <2>1. \A y \in call[c].rows : y.mtime <= clock
    BY <1>1, <1>10, RowIs, MtimeIs DEF RowsTrue
  <2>2. clock \in Nat
    BY <1>1 DEF TypeOK
  <2>. QED
    BY <1>2, <2>1, <2>2, DedupKeeps DEF rows
<1>12. ASSUME NEW p \in steady[c] PROVE HasRow(c, p)
  <2>1. p[1] \in Dirs
    BY <1>1 DEF TypeOK
  <2>2. PICK j \in 1..Len(call[c].order) : call[c].order[j] = p[1]
    BY <1>2, <2>1, OrderIs
  <2>3. call[c].at \in Nat /\ Len(call[c].order) \in Nat
    BY <1>1, <1>2, CallIs, OrderIs
  <2>4. j \in 1..(call[c].at - 1)
    BY <1>1, <2>3
  <2>. QED
    BY <1>1, <1>10, <2>2, <2>4 DEF Covered
<1>13. Covered(c)'
  <2>1. ASSUME NEW p \in steady[c] PROVE \E o \in rows : o.session = p[2]
    BY <1>11, <1>12 DEF HasRow
  <2>. QED
    BY <1>7, <1>8, <1>9, <2>1 DEF Covered
<1>14. RowsTrue(c)'
  <2>1. ASSUME NEW x \in rows, NEW o \in rows, x.session = o.session PROVE x = o
    <3>1. x \in RowType /\ o \in RowType /\ x \in call[c].rows /\ o \in call[c].rows
      BY <1>2, <1>4
    <3>2. x.mtime <= o.mtime /\ o.mtime <= x.mtime
      BY <2>1 DEF rows, Deduplicated
    <3>3. x.mtime = o.mtime
      BY <3>1, <3>2 DEF RowType
    <3>4. x.file = o.file /\ x.title = o.title
      BY <1>10, <3>1, <3>3 DEF RowsTrue
    <3>. QED
      BY <2>1, <3>1, <3>3, <3>4 DEF RowType
  <2>2. \A g : Title(g)' = Title(g)
    BY <1>9 DEF Title, TitleOf, Titles, InSight
  <2>. QED
    BY <1>4, <1>7, <1>8, <1>9, <1>10, <2>1, <2>2 DEF RowsTrue
<1>15. Recent(c)'
  <2>. SUFFICES ASSUME want[1] # Nobody
                PROVE  \E x \in rows : x.session = Session /\ x.title = want[1]
    BY <1>7, <1>8 DEF Recent
  <2>1. Tracks(c) /\ want = latest
    BY <1>6
  <2>2. PICK d \in Dirs : file[d][Session] = latest[2] /\ <<d, Session>> \in steady[c]
    BY <1>1, <1>10, <2>1 DEF Recent
  <2>3. PICK o \in call[c].rows : o.session = Session /\ o.file = latest[2]
    BY <1>12, <2>2 DEF HasRow
  <2>4. PICK x \in rows : x.session = Session /\ o.mtime <= x.mtime
    BY <1>11, <2>3
  <2>5. x \in call[c].rows /\ x.mtime \in Nat /\ o.mtime \in Nat
    BY <1>1, <1>4, RowIs
  <2>6. x.file = latest[2]
    <3>1. x.file # latest[2] => x.mtime < o.mtime
      BY <1>1, <1>10, <2>1, <2>3, <2>4, <2>5 DEF Recent
    <3>. QED
      BY <2>4, <2>5, <3>1
  <2>. QED
    BY <1>1, <1>10, <2>1, <2>4, <2>5, <2>6 DEF Recent
<1>16. r.at \in 1..(Len(call[c].order) + 1)
  BY <1>1, <1>2, <1>7 DEF Stage
<1>. QED
  BY <1>1, <1>3, <1>5, <1>7, <1>13, <1>14, <1>15, <1>16, ListingKeeps DEF ListInv

LEMMA ListsAllKeeps ==
    ASSUME FilesInv, NEW c \in Callers, ListsAll(c)
    PROVE  FilesInv'
  BY ReadsNamesKeeps, ReadsRowKeeps, NextDirKeeps, ListReturnsKeeps DEF ListsAll

-----------------------------------------------------------------------------
(***************************************************************************)
(* A call that changes the files                                           *)
(***************************************************************************)
LEMMA ActKeeps ==
    ASSUME FilesInv, NEW c \in Callers, call[c].pc # "ok",
           \A x \in Callers \ {c} : call'[x] = call[x] /\ \A d \in Dirs : file'[d][x] = file[d][x],
           TypeOK', World, DirInv', CallInv(c)'
    PROVE  FilesInv'
<1>1. OkStays
  BY DEF OkStays
<1>2. ASSUME NEW x \in Callers, x # c PROVE CallInv(x)'
  BY <1>1, <1>2, IdleKept
<1>. QED
  BY <1>2 DEF FilesInv

\* What a call knows when it goes on.
LEMMA GoesOn ==
    ASSUME FilesInv, NEW c \in Callers, Begun(c), NEW pc \in Pcs, Goes(c, pc)
    PROVE  /\ TypeOK /\ DirInv /\ CallInv(c) /\ SearchInv(c)
           /\ Session \in Sessions /\ Session \notin Callers /\ c \in Sessions
           /\ call[c].order \in Orders /\ call[c].op \in Ops /\ Stage(c)
           /\ call' \in [Callers -> NewType \cup CallType]
           /\ call'[c] = [call[c] EXCEPT !.pc = pc]
           /\ call'[c].pc = pc /\ call'[c].op = call[c].op /\ call'[c].order = call[c].order
           /\ call'[c].at = call[c].at /\ call'[c].file = call[c].file
           /\ call'[c].want = call[c].want /\ Begun(c)' /\ Dir(c)' = Dir(c)
           /\ \A x \in Callers \ {c} : call'[x] = call[x]
           /\ call[c].op # "list" => Dir(c) \in Dirs
<1>1. /\ TypeOK /\ DirInv /\ CallInv(c) /\ SearchInv(c)
      /\ Session \in Sessions /\ Session \notin Callers /\ c \in Sessions
  BY FilesAssumption DEF FilesInv, CallInv, Sessions
<1>2. /\ call[c] \in CallType /\ Stage(c) /\ call[c].order \in Orders /\ call[c].op \in Ops
      /\ call \in [Callers -> NewType \cup CallType]
  BY <1>1, CallIs DEF TypeOK
<1>3. call' = [call EXCEPT ![c] = [call[c] EXCEPT !.pc = pc]]
  BY DEF Goes
<1>4. [call[c] EXCEPT !.pc = pc] \in CallType
  BY <1>2 DEF CallType
<1>5. /\ call'[c] = [call[c] EXCEPT !.pc = pc]
      /\ call' \in [Callers -> NewType \cup CallType]
      /\ \A x \in Callers \ {c} : call'[x] = call[x]
  BY <1>2, <1>3, <1>4
<1>6. /\ call'[c].pc = pc /\ call'[c].op = call[c].op /\ call'[c].order = call[c].order
      /\ call'[c].at = call[c].at /\ call'[c].file = call[c].file
      /\ call'[c].want = call[c].want /\ pc # "new"
  BY <1>2, <1>5 DEF CallType, Pcs, Finished
<1>7. Begun(c)' /\ Dir(c)' = Dir(c)
  BY <1>6 DEF Begun, Dir
<1>8. call[c].op # "list" => Dir(c) \in Dirs
  BY <1>1, <1>2, HereIs DEF Stage
<1>. QED
  BY <1>1, <1>2, <1>5, <1>6, <1>7, <1>8

\* Its type, when the new place is one where it may be.
LEMMA GoesType ==
    ASSUME FilesInv, NEW c \in Callers, Begun(c), NEW pc \in Pcs, Goes(c, pc),
           call[c].op # "list", pc \notin {"names", "rows"},
           pc = "opened" => call[c].op = "rename",
           pc = "unlinked" => call[c].op = "delete",
           pc = "found" => call[c].op \in {"delete", "fork"},
           pc \in {"read", "created", "no_messages"} => call[c].op = "fork"
    PROVE  /\ call' \in [Callers -> NewType \cup CallType]
           /\ \A x \in Callers : Begun(x)' => Stage(x)'
<1>1. Stage(c)'
  BY GoesOn DEF Stage
<1>2. ASSUME NEW x \in Callers, x # c, Begun(x)' PROVE Stage(x)'
  <2>1. call'[x] = call[x] /\ TypeOK
    BY <1>2, GoesOn
  <2>2. Stage(x)
    BY <1>2, <2>1 DEF Begun, TypeOK
  <2>. QED
    BY <2>1, <2>2 DEF Stage
<1>. QED
  BY <1>1, <1>2, GoesOn

LEMMA WantStill ==
    ASSUME FilesInv, NEW c \in Callers, Begun(c), NEW pc \in Pcs, Goes(c, pc),
           call[c].pc # "ok"
    PROVE  /\ Renamed(call[c].want[1])'
           /\ latest' = latest => Renamed(latest[1])'
<1>1. Renamed(call[c].want[1]) /\ call[c].want[1] \in MaybeTitle
  BY GoesOn, CallIs DEF CallInv, LatestType
<1>2. Renamed(latest[1]) /\ latest[1] \in MaybeTitle
  BY GoesOn DEF DirInv, TypeOK, LatestType
<1>3. \A x \in Callers : call[x].pc = "ok" => call'[x].pc = "ok"
  BY GoesOn
<1>. QED
  BY <1>1, <1>2, <1>3, GoesOn DEF Renamed, MaybeTitle

LEMMA RemovesAgentsKeeps ==
    ASSUME FilesInv, NEW c \in Callers, RemovesAgents(c)
    PROVE  FilesInv'
<1>1. /\ call[c].pc = "unlinked" /\ call[c].op = "delete" /\ Begun(c) /\ "ok" \in Pcs
      /\ Goes(c, "ok") /\ agents' = agents \ {Dir(c)}
      /\ file' = file /\ data' = data /\ mtime' = mtime /\ window' = window /\ created' = created 
      /\ clock' = clock
      /\ writes' = writes /\ gone' = gone /\ steady' = steady /\ quiet' = quiet
      /\ latest' = latest /\ UNCHANGED <<fs, steady, quiet, latest>>
  BY DEF RemovesAgents, At, Ends, Begun, Pcs, Finished, fs
<1>2. /\ TypeOK /\ DirInv /\ CallInv(c) /\ SearchInv(c)
      /\ call'[c].pc = "ok" /\ call'[c].op = "delete" /\ Begun(c)' /\ Dir(c)' = Dir(c)
      /\ call'[c].want = call[c].want
      /\ \A x \in Callers \ {c} : call'[x] = call[x]
  BY <1>1, GoesOn
<1>3. TypeOK'
  <2>1. /\ call' \in [Callers -> NewType \cup CallType]
        /\ \A x \in Callers : Begun(x)' => Stage(x)'
    BY <1>1, GoesType
  <2>. QED
    BY <1>1, <1>2, <2>1 DEF TypeOK
<1>4. World /\ OneName' /\ Times' /\ LatestNewest'
  BY <1>1, <1>2, Still DEF DirInv
<1>5. DeletedStaysDeleted'
  <2>1. ASSUME NEW d \in gone, d \in agents'
        PROVE  \E x \in Callers : At(x, "unlinked", "delete")' /\ Dir(x)' = d
    <3>1. d \in agents /\ d # Dir(c)
      BY <1>1, <2>1
    <3>2. PICK x \in Callers : At(x, "unlinked", "delete") /\ Dir(x) = d
      BY <1>2, <3>1 DEF DirInv, DeletedStaysDeleted
    <3>3. x # c
      BY <3>1, <3>2
    <3>. QED
      BY <1>2, <3>2, <3>3 DEF At, Dir
  <2>. QED
    BY <1>1, <1>2, <2>1 DEF DirInv, DeletedStaysDeleted
<1>6. Renamed(latest[1])' /\ Renamed(call[c].want[1])'
  BY <1>1, <1>2, WantStill
<1>7. ForkMade(c)'
  BY <1>1, <1>2 DEF CallInv, ForkMade, At, Begun
<1>8. SearchInv(c)'
  BY <1>1, <1>2
     DEF SearchInv, SteadyThere, Passed, Opened, AboutFirst, NoneHeld, Shown, NonEmpty
<1>9. CallInv(c)'
  BY <1>2, <1>6, <1>7, <1>8 DEF CallInv
<1>. QED
  BY <1>1, <1>2, <1>3, <1>4, <1>5, <1>6, <1>9, ActKeeps DEF DirInv

LEMMA UnlinksKeeps ==
    ASSUME FilesInv, NEW c \in Callers, Unlinks(c), Here(c) # NoFile
    PROVE  FilesInv'
<1>. DEFINE d == Dir(c)
            f == Here(c)
<1>1. /\ call[c].pc = "found" /\ call[c].op = "delete" /\ Begun(c) /\ "unlinked" \in Pcs
      /\ Goes(c, "unlinked") /\ file' = [file EXCEPT ![d][Session] = NoFile]
      /\ quiet' = [x \in Callers |-> FALSE] /\ gone' = gone \cup {d}
      /\ steady' = [x \in Callers |-> steady[x] \ {<<d, Session>>}]
      /\ latest' = IF latest[2] = f THEN NoRename ELSE latest
      /\ data' = data /\ mtime' = mtime /\ window' = window /\ created' = created /\ clock' = clock
      /\ agents' = agents /\ writes' = writes
  BY DEF Unlinks, At, Begun, Pcs, Disturbed
<1>2. /\ TypeOK /\ DirInv /\ CallInv(c) /\ SearchInv(c)
      /\ Session \in Sessions /\ Session \notin Callers /\ c \in Sessions
      /\ call'[c].pc = "unlinked" /\ call'[c].op = "delete" /\ Begun(c)' /\ Dir(c)' = d
      /\ call'[c].want = call[c].want /\ d \in Dirs
      /\ \A x \in Callers \ {c} : call'[x] = call[x]
  BY <1>1, GoesOn
<1>3. /\ file' \in [Dirs -> [Sessions -> 0..created]] /\ file'[d][Session] = NoFile
      /\ \A e \in Dirs : \A s \in Sessions : e # d \/ s # Session => file'[e][s] = file[e][s]
  <2>1. /\ file \in [Dirs -> [Sessions -> 0..created]] /\ created \in Nat /\ NoFile \in 0..created
    BY <1>2, FilesAssumption DEF TypeOK, NoFile, MaybeFile
  <2>. QED
    BY <1>1, <1>2, <2>1
<1>4. latest' \in LatestType /\ (latest'[1] # Nobody => latest' = latest /\ latest[2] # f)
  <2>1. NoRename \in LatestType /\ NoRename[1] = Nobody
    BY FilesAssumption DEF NoRename, LatestType, MaybeTitle, MaybeFile, NoFile
  <2>. QED
    BY <1>1, <1>2, <2>1 DEF TypeOK
<1>5. TypeOK'
  <2>1. /\ call' \in [Callers -> NewType \cup CallType]
        /\ \A x \in Callers : Begun(x)' => Stage(x)'
    BY <1>1, GoesType
  <2>2. quiet' \in [Callers -> BOOLEAN] /\ steady' \in [Callers -> SUBSET (Dirs \X Sessions)]
    BY <1>1, <1>2 DEF TypeOK
  <2>. QED
    BY <1>1, <1>2, <1>3, <1>4, <2>1, <2>2 DEF TypeOK
<1>6. DataGrows
  BY <1>1, <1>2, MtimeIs DEF DataGrows, TypeOK, MaybeFile
<1>7. NamesStay /\ Witnesses
  BY <1>1, <1>2, <1>3 DEF NamesStay, Witnesses
<1>8. ASSUME latest'[1] # Nobody PROVE latest[1] # Nobody /\ LatestKept
  <2>1. latest' = latest /\ latest[2] # f
    BY <1>4, <1>8
  <2>2. LatestSeen'
    BY <1>1, <1>2, <1>8, <2>1, Stays DEF DirInv, LatestNewest
  <2>3. ASSUME NEW e \in Dirs, file[e][Session] = latest[2]
        PROVE  /\ file'[e][Session] = latest[2]
               /\ \A x \in Callers : <<e, Session>> \in steady[x] => <<e, Session>> \in steady'[x]
    <3>1. e # d
      BY <2>1, <2>3 DEF Here
    <3>. QED
      BY <1>1, <1>2, <1>3, <2>3, <3>1
  <2>4. ASSUME NEW e \in Dirs, NonEmpty(file[e][Session])'
        PROVE  /\ file'[e][Session] = file[e][Session] /\ NonEmpty(file[e][Session])
               /\ mtime'[file[e][Session]] = mtime[file[e][Session]]
    BY <1>1, <1>2, <1>3, <2>4 DEF NonEmpty
  <2>. QED
    BY <1>8, <2>1, <2>2, <2>3, <2>4 DEF LatestKept
<1>9. World
  BY <1>1, <1>6, <1>7, <1>8 DEF World, ForksLeft, LatestStays
<1>10. OneName' /\ Times'
  BY <1>1, <1>2, <1>3 DEF DirInv, OneName, Times
<1>11. LatestNewest'
  BY <1>8, <1>9, LatestStill DEF LatestNewest
<1>12. Renamed(latest[1])' /\ Renamed(call[c].want[1])'
  BY <1>1, <1>2, <1>4, WantStill DEF Renamed
<1>13. DeletedStaysDeleted'
  <2>. SUFFICES ASSUME NEW e \in gone'
                PROVE  /\ file'[e][Session] = NoFile
                       /\ e \in agents' =>
                             \E x \in Callers : At(x, "unlinked", "delete")' /\ Dir(x)' = e
    BY DEF DeletedStaysDeleted
  <2>1. CASE e = d
    BY <1>2, <1>3, <2>1 DEF At
  <2>2. CASE e # d
    <3>1. e \in gone /\ e \in Dirs
      BY <1>1, <1>2, <2>2 DEF TypeOK
    <3>2. file'[e][Session] = NoFile
      BY <1>2, <1>3, <2>2, <3>1 DEF DirInv, DeletedStaysDeleted
    <3>3. ASSUME NEW x \in Callers, At(x, "unlinked", "delete"), Dir(x) = e
          PROVE  At(x, "unlinked", "delete")' /\ Dir(x)' = e
      BY <1>2, <2>2, <3>3 DEF At, Dir
    <3>. QED
      BY <1>1, <1>2, <3>1, <3>2, <3>3 DEF DirInv, DeletedStaysDeleted
  <2>. QED
    BY <2>1, <2>2
<1>14. ForkMade(c)'
  BY <1>1, <1>2, <1>3 DEF CallInv, ForkMade, At, Begun
<1>15. SearchInv(c)'
  <2>1. SteadyThere(c)'
    <3>. SUFFICES ASSUME NEW p \in steady'[c]
                  PROVE  p[2] = Session /\ NonEmpty(file[p[1]][Session])'
      BY <1>2 DEF SteadyThere
    <3>1. p \in steady[c] /\ p # <<d, Session>> /\ p = <<p[1], p[2]>> /\ p[1] \in Dirs
      BY <1>1, <1>2 DEF TypeOK
    <3>2. p[2] = Session /\ NonEmpty(file[p[1]][Session])
      BY <1>1, <1>2, <3>1 DEF SearchInv, SteadyThere
    <3>3. file'[p[1]][Session] = file[p[1]][Session]
      BY <1>2, <1>3, <3>1, <3>2
    <3>. QED
      BY <1>1, <3>2, <3>3 DEF NonEmpty
  <2>. QED
    BY <1>2, <2>1 DEF SearchInv, Passed, Opened, AboutFirst, NoneHeld
<1>16. CallInv(c)'
  BY <1>2, <1>12, <1>14, <1>15 DEF CallInv
<1>17. \A x \in Callers \ {c} : \A e \in Dirs : file'[e][x] = file[e][x]
  BY <1>2, <1>3 DEF Sessions
<1>. QED
  BY <1>1, <1>2, <1>5, <1>9, <1>10, <1>11, <1>12, <1>13, <1>16, <1>17, ActKeeps DEF DirInv

LEMMA CreatesForkKeeps ==
    ASSUME FilesInv, NEW c \in Callers, CreatesFork(c)
    PROVE  FilesInv'
<1>. DEFINE d == Dir(c)
<1>1. /\ call[c].pc = "read" /\ call[c].op = "fork" /\ Begun(c) /\ "created" \in Pcs
      /\ Goes(c, "created") /\ Create(d, c)
      /\ data' = data /\ mtime' = mtime /\ window' = window /\ clock' = clock
      /\ agents' = agents /\ writes' = writes /\ gone' = gone
      /\ steady' = steady /\ quiet' = quiet /\ latest' = latest
  BY DEF CreatesFork, At, Begun, Pcs
<1>2. /\ TypeOK /\ DirInv /\ CallInv(c) /\ SearchInv(c)
      /\ Session \in Sessions /\ Session \notin Callers /\ c \in Sessions
      /\ call'[c].pc = "created" /\ call'[c].op = "fork" /\ Begun(c)' /\ Dir(c)' = d
      /\ call'[c].order = call[c].order /\ call'[c].at = call[c].at
      /\ call'[c].file = call[c].file /\ call'[c].want = call[c].want /\ d \in Dirs
      /\ call[c].order \in Orders /\ Stage(c)
      /\ \A x \in Callers \ {c} : call'[x] = call[x]
  BY <1>1, GoesOn
<1>3. /\ created' = created + 1 /\ created' \in MaybeFile /\ created + 1 \in Files
      /\ file' \in [Dirs -> [Sessions -> 0..created']] /\ file'[d][c] = created + 1
      /\ \A e \in Dirs : \A s \in Sessions : e # d \/ s # c => file'[e][s] = file[e][s]
      /\ OneName'
  BY <1>1, <1>2, CreateDoes DEF DirInv
<1>4. created \in Nat /\ clock \in Nat /\ created + 1 # NoFile
  BY <1>2 DEF TypeOK, MaybeFile, NoFile
<1>5. \A e \in Dirs : /\ file'[e][Session] = file[e][Session]
                      /\ NonEmpty(file[e][Session])' <=> NonEmpty(file[e][Session])
  BY <1>1, <1>2, <1>3 DEF NonEmpty
<1>6. file[d][c] = NoFile
  BY <1>1, <1>2 DEF CallInv, ForkMade
<1>7. TypeOK'
  <2>1. /\ call' \in [Callers -> NewType \cup CallType]
        /\ \A x \in Callers : Begun(x)' => Stage(x)'
    BY <1>1, GoesType
  <2>. QED
    BY <1>1, <1>2, <1>3, <2>1 DEF TypeOK
<1>8. DataGrows /\ Times'
  <2>1. DataGrows
    BY <1>1, <1>2, <1>3, <1>4, MtimeIs DEF DataGrows
  <2>2. \A g \in Files : g > created' => g > created
    BY <1>3, <1>4 DEF Files
  <2>. QED
    BY <1>1, <1>2, <2>1, <2>2 DEF Times, DirInv
<1>9. NamesStay /\ Witnesses
  BY <1>1, <1>3, <1>5, <1>6 DEF NamesStay, Witnesses
<1>10. ASSUME latest[1] # Nobody PROVE LatestKept
  <2>1. LatestSeen'
    BY <1>1, <1>2, <1>10, Stays DEF DirInv, LatestNewest
  <2>. QED
    BY <1>1, <1>5, <2>1 DEF LatestKept
<1>11. World
  BY <1>1, <1>8, <1>9, <1>10 DEF World, ForksLeft, LatestStays
<1>12. LatestNewest'
  BY <1>1, <1>10, <1>11, LatestStill DEF LatestNewest
<1>13. Renamed(latest[1])' /\ Renamed(call[c].want[1])'
  BY <1>1, <1>2, WantStill
<1>14. DeletedStaysDeleted'
  <2>1. ASSUME NEW x \in Callers, At(x, "unlinked", "delete")
        PROVE  At(x, "unlinked", "delete")' /\ Dir(x)' = Dir(x)
    BY <1>1, <1>2, <2>1 DEF At, Dir
  <2>. QED
    BY <1>1, <1>2, <1>5, <2>1 DEF DirInv, DeletedStaysDeleted, TypeOK
<1>15. ForkMade(c)'
  <2>1. data[created + 1] = <<>>
    BY <1>2, <1>3, <1>4 DEF DirInv, Times
  <2>. QED
    BY <1>1, <1>2, <1>3, <1>4, <2>1 DEF ForkMade, At
<1>16. SearchInv(c)'
  <2>1. SteadyThere(c)'
    BY <1>1, <1>2, <1>5 DEF SearchInv, SteadyThere, TypeOK
  <2>2. EmptyBefore(c, call[c].at - 1) => EmptyBefore(c, call[c].at - 1)'
    <3>1. \A j \in 1..(call[c].at - 1) : call[c].order[j] \in Dirs
      BY <1>1, <1>2, HereIs DEF Stage
    <3>. QED
      BY <1>2, <1>5, <3>1 DEF EmptyBefore
  <2>3. Here(c)' = Here(c) /\ (NonEmpty(Here(c))' <=> NonEmpty(Here(c)))
    BY <1>2, <1>5 DEF Here
  <2>4. AboutFirst(c)'
    BY <1>1, <1>2, <2>2, <2>3 DEF SearchInv, AboutFirst
  <2>. QED
    BY <1>1, <1>2, <2>1, <2>4 DEF SearchInv, Passed, Opened, NoneHeld
<1>17. CallInv(c)'
  BY <1>2, <1>13, <1>15, <1>16 DEF CallInv
<1>18. \A x \in Callers \ {c} : \A e \in Dirs : file'[e][x] = file[e][x]
  BY <1>3 DEF Sessions
<1>. QED
  BY <1>1, <1>2, <1>3, <1>7, <1>8, <1>11, <1>12, <1>13, <1>14, <1>17, <1>18, ActKeeps DEF DirInv

LEMMA WritesForkKeeps ==
    ASSUME FilesInv, NEW c \in Callers, WritesFork(c)
    PROVE  FilesInv'
<1>. DEFINE d == Dir(c)
            f == file[d][c]
            lines == ForkLines(c)
<1>1. /\ call[c].pc = "created" /\ call[c].op = "fork" /\ Begun(c) /\ "ok" \in Pcs
      /\ Goes(c, "ok") /\ Appends(f, lines)
      /\ file' = file /\ created' = created
      /\ agents' = agents /\ writes' = writes /\ gone' = gone /\ window' = window
      /\ steady' = steady /\ quiet' = quiet /\ latest' = latest
  BY DEF WritesFork, At, Ends, Begun, Pcs, Finished
<1>2. /\ TypeOK /\ DirInv /\ CallInv(c) /\ SearchInv(c)
      /\ Session \in Sessions /\ Session \notin Callers /\ c \in Sessions
      /\ call'[c].pc = "ok" /\ call'[c].op = "fork" /\ Begun(c)' /\ Dir(c)' = d
      /\ call'[c].order = call[c].order /\ call'[c].at = call[c].at
      /\ call'[c].file = call[c].file /\ call'[c].want = call[c].want /\ d \in Dirs
      /\ call[c].order \in Orders /\ Stage(c)
      /\ \A x \in Callers \ {c} : call'[x] = call[x]
  BY <1>1, GoesOn
<1>3. f \in Files /\ data[f] = <<>> /\ f \in 0..created /\ created \in Nat
  BY <1>1, <1>2, FileIs DEF CallInv, ForkMade, At
<1>4. /\ lines \in Seq(Lines) /\ lines # <<>>
      /\ lines[Len(lines)] = c /\ lines[1] # "side"
  <2>1. call[c].lines \in Seq({"talk", "meta"}) /\ c \in Lines /\ c # "side"
    BY <1>1, <1>2, CallIs, FilesAssumption DEF Lines
  <2>2. call[c].lines \in Seq(Lines)
    BY <2>1 DEF Lines
  <2>3. Len(lines) = Len(call[c].lines) + 1 /\ lines[Len(lines)] = c
    BY <2>1 DEF ForkLines
  <2>4. lines[1] # "side"
    BY <2>1 DEF ForkLines
  <2>. QED
    BY <2>1, <2>2, <2>3, <2>4 DEF ForkLines
<1>. HIDE DEF lines
<1>0. ASSUME NEW g \in Files, g = f, data'[g] = data[g] \o lines PROVE Shown(g)'
  BY <1>0, <1>1, <1>2, <1>3, <1>4, ShownAppended DEF TypeOK
<1>5. /\ data' \in [Files -> Seq(Lines)] /\ mtime' \in [Files -> 0..clock']
      /\ clock' \in Nat /\ data'[f] = data[f] \o lines
      /\ \A g \in Files : g # f => data'[g] = data[g] /\ mtime'[g] = mtime[g]
      /\ DataGrows /\ Times'
  <2>1. created' \in Nat /\ created <= created' /\ f <= created'
    BY <1>1, <1>3
  <2>2. PICK g \in Files : g = f
    BY <1>3
  <2>3. data'[g] = data[g] \o lines
    BY <1>1, <1>2, <2>2 DEF Appends, TypeOK
  <2>4. Shown(g)'
    BY <1>0, <2>2, <2>3
  <2>. HIDE DEF f
  <2>. QED
    BY <1>1, <1>2, <1>3, <1>4, <2>1, <2>2, <2>4, AppendsDoes DEF DirInv
<1>6. ASSUME NEW e \in Dirs
      PROVE  /\ file[e][Session] # f
             /\ NonEmpty(file[e][Session])' <=> NonEmpty(file[e][Session])
             /\ file[e][Session] # NoFile => /\ mtime'[file[e][Session]] = mtime[file[e][Session]]
                                             /\ data'[file[e][Session]] = data[file[e][Session]]
                                             /\ file[e][Session] \in Files
  <2>1. f # NoFile
    BY <1>1, <1>2 DEF CallInv, ForkMade, At
  <2>2. file[e][Session] # f
    BY <1>2, <2>1 DEF DirInv, OneName
  <2>3. file[e][Session] # NoFile => file[e][Session] \in Files
    BY <1>2, FileIs
  <2>. QED
    BY <1>1, <1>5, <2>2, <2>3 DEF NonEmpty
<1>7. TypeOK'
  <2>1. /\ call' \in [Callers -> NewType \cup CallType]
        /\ \A x \in Callers : Begun(x)' => Stage(x)'
    BY <1>1, GoesType
  <2>. QED
    BY <1>1, <1>2, <1>5, <2>1 DEF TypeOK
<1>8. NamesStay /\ Witnesses
  BY <1>1, <1>6 DEF NamesStay, Witnesses
<1>9. ASSUME latest[1] # Nobody PROVE LatestKept
  <2>1. latest[2] # NoFile /\ \E e \in Dirs : file[e][Session] = latest[2]
    BY <1>2, <1>9 DEF DirInv, LatestNewest
  <2>2. latest[2] \in Files /\ data'[latest[2]] = data[latest[2]]
    BY <1>6, <2>1
  <2>3. LatestSeen'
    BY <1>1, <1>2, <1>9, <2>2, Stays DEF DirInv, LatestNewest
  <2>. QED
    BY <1>1, <1>6, <2>3 DEF LatestKept, NonEmpty
<1>10. World
  <2>1. ForksLeft
    <3>. SUFFICES ASSUME NEW x \in Callers, x # c, NEW e \in Dirs, NEW g \in Files, file[e][x] = g
                  PROVE  data'[g] = data[g]
      BY <1>1, <1>2 DEF ForksLeft
    <3>1. x \in Sessions /\ g # NoFile /\ f # NoFile
      BY <1>3 DEF Sessions, Files, NoFile
    <3>2. g # f
      BY <1>2, <3>1 DEF DirInv, OneName
    <3>. QED
      BY <1>5, <3>2
  <2>. QED
    BY <1>1, <1>5, <1>8, <1>9, <2>1 DEF World, LatestStays
<1>11. LatestNewest'
  BY <1>1, <1>9, <1>10, LatestStill DEF LatestNewest
<1>12. OneName' /\ Renamed(latest[1])' /\ Renamed(call[c].want[1])'
  BY <1>1, <1>2, WantStill DEF DirInv, OneName
<1>13. DeletedStaysDeleted'
  <2>1. ASSUME NEW x \in Callers, At(x, "unlinked", "delete")
        PROVE  At(x, "unlinked", "delete")' /\ Dir(x)' = Dir(x)
    BY <1>1, <1>2, <2>1 DEF At, Dir
  <2>. QED
    BY <1>1, <1>2, <2>1 DEF DirInv, DeletedStaysDeleted
<1>14. ForkMade(c)'
  <2>1. PICK g \in Files : g = f
    BY <1>3
  <2>2. Shown(g)'
    BY <1>0, <1>5, <2>1
  <2>3. \A e \in Dirs : file'[e][c] # NoFile =>
            Begun(c)' /\ call'[c].op = "fork" /\ call'[c].pc \in {"created", "ok"}
    BY <1>2
  <2>4. file'[Dir(c)'][c] = g
    BY <1>1, <1>2, <2>1
  <2>. QED
    BY <1>2, <2>2, <2>3, <2>4 DEF ForkMade, At, Shown
<1>15. SearchInv(c)'
  <2>1. SteadyThere(c)'
    BY <1>1, <1>2, <1>6 DEF SearchInv, SteadyThere, TypeOK
  <2>2. EmptyBefore(c, call[c].at - 1) => EmptyBefore(c, call[c].at - 1)'
    <3>1. \A j \in 1..(call[c].at - 1) : call[c].order[j] \in Dirs
      BY <1>1, <1>2, HereIs DEF Stage
    <3>. QED
      BY <1>2, <1>6, <3>1 DEF EmptyBefore
  <2>3. Here(c)' = Here(c) /\ (NonEmpty(Here(c))' <=> NonEmpty(Here(c)))
    BY <1>1, <1>2, <1>6 DEF Here
  <2>4. AboutFirst(c)'
    BY <1>1, <1>2, <2>2, <2>3 DEF SearchInv, AboutFirst
  <2>. QED
    BY <1>1, <1>2, <2>1, <2>4 DEF SearchInv, Passed, Opened, NoneHeld
<1>16. CallInv(c)'
  BY <1>2, <1>12, <1>14, <1>15 DEF CallInv
<1>17. \A x \in Callers \ {c} : \A e \in Dirs : file'[e][x] = file[e][x]
  BY <1>1
<1>. QED
  BY <1>1, <1>2, <1>5, <1>7, <1>10, <1>11, <1>12, <1>13, <1>16, <1>17, ActKeeps DEF DirInv

LEMMA TitledKeeps ==
    ASSUME FilesInv, NEW c \in Callers, WritesTitle(c), NonEmpty(call[c].file)
    PROVE  FilesInv'
<1>. DEFINE d == Dir(c)
            f == call[c].file
<1>1. /\ call[c].pc = "opened" /\ call[c].op = "rename" /\ Begun(c) /\ "ok" \in Pcs
      /\ Goes(c, "ok") /\ Appends(f, <<c>>)
      /\ file' = file /\ created' = created
      /\ agents' = agents /\ writes' = writes /\ gone' = gone /\ window' = window
      /\ steady' = steady /\ quiet' = quiet
      /\ latest' = IF f # Here(c) THEN latest
                   ELSE IF Sidechain(data[f]) THEN NoRename ELSE <<c, f, Len(data[f]) + 1>>
  BY DEF WritesTitle, Titled, At, Ends, Begun, Pcs, Finished
<1>2. /\ TypeOK /\ DirInv /\ CallInv(c) /\ SearchInv(c)
      /\ Session \in Sessions /\ Session \notin Callers /\ c \in Sessions
      /\ call'[c].pc = "ok" /\ call'[c].op = "rename" /\ Begun(c)' /\ Dir(c)' = d
      /\ call'[c].order = call[c].order /\ call'[c].at = call[c].at
      /\ call'[c].file = f /\ call'[c].want = call[c].want /\ d \in Dirs
      /\ call[c].order \in Orders /\ Stage(c)
      /\ \A x \in Callers \ {c} : call'[x] = call[x]
  BY <1>1, GoesOn
<1>3. /\ f \in Files /\ f <= created /\ created \in Nat /\ clock \in Nat
      /\ \A e \in Dirs : file[e][Session] = f => e = d
  <2>1. /\ f \in 1..created
        /\ \A e \in Dirs : \A s \in Sessions : file[e][s] = f => e = d /\ s = Session
    BY <1>1, <1>2 DEF SearchInv, Opened
  <2>2. created \in MaybeFile /\ clock \in Nat /\ MaxFiles \in Nat
    BY <1>2, FilesAssumption DEF TypeOK
  <2>. QED
    BY <1>2, <2>1, <2>2 DEF MaybeFile, Files
<1>4. c \in Lines /\ <<c>> \in Seq(Lines) /\ <<c>> # <<>> /\ c # Nobody /\ c \in MaybeTitle
  BY FilesAssumption DEF Lines, MaybeTitle
<1>5. /\ data' \in [Files -> Seq(Lines)] /\ mtime' \in [Files -> 0..clock']
      /\ clock' \in Nat /\ data'[f] = data[f] \o <<c>> /\ mtime'[f] = clock + 1
      /\ \A g \in Files : g # f => data'[g] = data[g] /\ mtime'[g] = mtime[g]
      /\ DataGrows /\ Times'
  <2>1. created' \in Nat /\ created <= created' /\ f <= created'
    BY <1>1, <1>3
  <2>2. PICK g \in Files : g = f
    BY <1>3
  <2>3. data'[g] = data[g] \o <<c>>
    BY <1>1, <1>2, <2>2 DEF Appends, TypeOK
  <2>4. Shown(g) => Shown(g)'
    <3>. SUFFICES ASSUME Shown(g) PROVE Shown(g)'
      OBVIOUS
    <3>1. data[g] # <<>> /\ data[g][1] # "side"
      BY DEF Shown, Shows, Sidechain
    <3>2. <<c>>[Len(<<c>>)] \in Callers
      OBVIOUS
    <3>. QED
      BY <1>1, <1>2, <1>4, <2>3, <3>1, <3>2, ShownAppended DEF TypeOK
  <2>. HIDE DEF f
  <2>. QED
    BY <1>1, <1>2, <1>3, <1>4, <2>1, <2>2, <2>4, AppendsDoes DEF DirInv
<1>6. ASSUME NEW e \in Dirs
      PROVE  /\ NonEmpty(file[e][Session])' <=> NonEmpty(file[e][Session])
             /\ file[e][Session] # NoFile => file[e][Session] \in Files
  <2>1. file[e][Session] # NoFile => file[e][Session] \in Files
    BY <1>2, FileIs
  <2>2. data'[f] # <<>> /\ data[f] # <<>>
    BY <1>2, <1>3, <1>5 DEF DataGrows, NonEmpty, TypeOK
  <2>. QED
    BY <1>1, <1>5, <2>1, <2>2 DEF NonEmpty
<1>7. latest' \in LatestType
  <2>1. NoRename \in LatestType
    BY FilesAssumption DEF NoRename, LatestType, MaybeTitle, MaybeFile, NoFile
  <2>2. Len(data[f]) + 1 \in Nat /\ f \in MaybeFile
    BY <1>2, <1>3 DEF TypeOK, MaybeFile, Files
  <2>. QED
    BY <1>1, <1>2, <1>4, <2>1, <2>2 DEF LatestType, TypeOK
<1>8. TypeOK'
  <2>1. /\ call' \in [Callers -> NewType \cup CallType]
        /\ \A x \in Callers : Begun(x)' => Stage(x)'
    BY <1>1, GoesType
  <2>. QED
    BY <1>1, <1>2, <1>5, <1>7, <2>1 DEF TypeOK
<1>9. NamesStay /\ Witnesses
  BY <1>1, <1>6 DEF NamesStay, Witnesses
<1>10. ASSUME f # Here(c), latest[1] # Nobody PROVE LatestKept
  <2>1. PICK e \in Dirs : file[e][Session] = latest[2]
    BY <1>2, <1>10 DEF DirInv, LatestNewest
  <2>2. \A x \in Dirs : file[x][Session] # f
    BY <1>3, <1>10 DEF Here
  <2>3. latest[2] \in Files /\ latest[2] # f
    BY <1>2, <1>6, <1>10, <2>1, <2>2 DEF DirInv, LatestNewest
  <2>4. latest' = latest /\ LatestSeen'
    BY <1>1, <1>2, <1>5, <1>10, <2>3, Stays DEF DirInv, LatestNewest
  <2>5. \A x \in Dirs : NonEmpty(file[x][Session]) =>
            mtime'[file[x][Session]] = mtime[file[x][Session]]
    BY <1>5, <1>6, <2>2 DEF NonEmpty
  <2>. QED
    BY <1>1, <1>6, <2>4, <2>5 DEF LatestKept
<1>11. World
  <2>1. f = Here(c) => latest'[1] \in {c, Nobody}
    BY <1>1 DEF NoRename
  <2>2. f # Here(c) => latest' = latest
    BY <1>1
  <2>3. ForksLeft
    <3>. SUFFICES ASSUME NEW x \in Callers, NEW e \in Dirs, NEW g \in Files, file[e][x] = g
                  PROVE  data'[g] = data[g]
      BY DEF ForksLeft
    <3>1. x \in Sessions /\ x # Session
      BY <1>2 DEF Sessions
    <3>2. g # f
      BY <1>1, <1>2, <3>1 DEF SearchInv, Opened
    <3>. QED
      BY <1>5, <3>2
  <2>. QED
    BY <1>1, <1>5, <1>9, <1>10, <2>1, <2>2, <2>3 DEF World, LatestStays
<1>12. LatestNewest'
  <2>1. CASE f = Here(c) /\ ~Sidechain(data[f])
    <3>1. latest' = <<c, f, Len(data[f]) + 1>> /\ file'[d][Session] = f /\ f # NoFile
      BY <1>1, <2>1 DEF Here, NonEmpty
    <3>2. PICK g \in Files : g = f
      BY <1>3
    <3>3. LatestSeen'
      <4>1. /\ data[g] \in Seq(Lines) /\ data[g] # <<>> /\ data[g][1] # "side"
            /\ window' \in [head : Nat, tail : Nat \ {0}]
        BY <1>1, <1>2, <2>1, <3>2 DEF TypeOK, Sidechain, NonEmpty
      <4>2. PICK n \in Nat \ {0} : n = Len(data[g])
        BY <4>1
      <4>3. data'[g] = Append(data[g], c)
        BY <1>4, <1>5, <3>2, <4>1
      <4>4. /\ DOMAIN data[g] = 1..n /\ DOMAIN data'[g] = 1..(n + 1)
            /\ Len(data'[g]) = n + 1 /\ data'[g][n + 1] = c /\ 1 \in 1..n
            /\ \A k \in 1..n : data'[g][k] = data[g][k]
        BY <1>4, <4>1, <4>2, <4>3
      <4>5. latest' = <<c, g, n + 1>>
        BY <3>1, <3>2, <4>2
      <4>6. n + 1 > (n + 1) - window'.tail
        BY <4>1
      <4>7. data'[g][1] # "side" /\ \A j \in 1..(n + 1) : data'[g][j] \in Callers => j <= n + 1
        BY <4>1, <4>4
      <4>8. /\ latest'[1] = c /\ latest'[2] = g /\ latest'[3] = n + 1 /\ n + 1 \in 1..(n + 1)
        BY <4>5
      <4>. HIDE DEF f
      <4>. QED
        BY <4>4, <4>6, <4>7, <4>8, SeenThen
    <3>4. ASSUME NEW e \in Dirs, NonEmpty(file[e][Session])', file'[e][Session] # f
          PROVE  mtime'[file'[e][Session]] < mtime'[f]
      <4>1. file'[e][Session] = file[e][Session] /\ file[e][Session] \in Files
        BY <1>1, <1>6, <3>4 DEF NonEmpty
      <4>2. mtime'[file[e][Session]] = mtime[file[e][Session]]
        BY <1>5, <3>4, <4>1
      <4>3. mtime[file[e][Session]] \in Nat /\ mtime[file[e][Session]] <= clock
        BY <1>2, <4>1, MtimeIs
      <4>. QED
        BY <1>3, <1>5, <4>1, <4>2, <4>3
    <3>. QED
      BY <1>2, <3>1, <3>2, <3>3, <3>4 DEF LatestNewest
  <2>2. CASE f # Here(c)
    BY <1>1, <1>10, <1>11, <2>2, LatestStill DEF LatestNewest
  <2>3. CASE f = Here(c) /\ Sidechain(data[f])
    BY <1>1, <2>3 DEF LatestNewest, NoRename
  <2>. QED
    BY <2>1, <2>2, <2>3
<1>13. OneName' /\ Renamed(latest[1])' /\ Renamed(call[c].want[1])'
  <2>1. Renamed(call[c].want[1])' /\ (latest' = latest => Renamed(latest[1])')
    BY <1>1, <1>2, WantStill
  <2>2. latest'[1] = c \/ latest'[1] = Nobody \/ latest' = latest
    BY <1>1 DEF NoRename
  <2>. QED
    BY <1>1, <1>2, <2>1, <2>2 DEF DirInv, OneName, Renamed
<1>14. DeletedStaysDeleted'
  <2>1. ASSUME NEW x \in Callers, At(x, "unlinked", "delete")
        PROVE  At(x, "unlinked", "delete")' /\ Dir(x)' = Dir(x)
    BY <1>1, <1>2, <2>1 DEF At, Dir
  <2>. QED
    BY <1>1, <1>2, <2>1 DEF DirInv, DeletedStaysDeleted
<1>15. ForkMade(c)'
  BY <1>1, <1>2 DEF CallInv, ForkMade, At, Begun
<1>16. SearchInv(c)'
  <2>1. SteadyThere(c)'
    BY <1>1, <1>2, <1>6 DEF SearchInv, SteadyThere, TypeOK
  <2>2. EmptyBefore(c, call[c].at - 1) => EmptyBefore(c, call[c].at - 1)'
    <3>1. \A j \in 1..(call[c].at - 1) : call[c].order[j] \in Dirs
      BY <1>1, <1>2, HereIs DEF Stage
    <3>. QED
      BY <1>1, <1>2, <1>6, <3>1 DEF EmptyBefore
  <2>3. Here(c)' = Here(c) /\ (NonEmpty(Here(c))' <=> NonEmpty(Here(c)))
    BY <1>1, <1>2, <1>6 DEF Here
  <2>4. AboutFirst(c)'
    <3>. SUFFICES ASSUME quiet[c] PROVE AboutFirst(c)'
      BY <1>1 DEF AboutFirst
    <3>1. f = Here(c) /\ EmptyBefore(c, call[c].at - 1)
      BY <1>1, <1>2 DEF SearchInv, AboutFirst
    <3>2. NonEmpty(Here(c))
      BY <3>1
    <3>. QED
      BY <1>2, <2>2, <2>3, <3>1, <3>2 DEF AboutFirst
  <2>. QED
    BY <1>1, <1>2, <2>1, <2>4 DEF SearchInv, Passed, Opened, NoneHeld
<1>17. CallInv(c)'
  BY <1>2, <1>13, <1>15, <1>16 DEF CallInv
<1>18. \A x \in Callers \ {c} : \A e \in Dirs : file'[e][x] = file[e][x]
  BY <1>1
<1>. QED
  BY <1>1, <1>2, <1>5, <1>8, <1>11, <1>12, <1>13, <1>14, <1>17, <1>18, ActKeeps DEF DirInv

LEMMA BeginKeeps ==
    ASSUME FilesInv, NEW c \in Callers, NEW order \in Orders, Begin(c, order)
    PROVE  FilesInv'
<1>. DEFINE op == call[c].op
            r == [pc |-> IF op = "list" THEN "names" ELSE "search",
                  op |-> op, order |-> order, at |-> 1, file |-> NoFile,
                  names |-> {}, rows |-> {}, lines |-> <<>>, want |-> latest]
            there == {p \in Dirs \X Sessions :
                        IF op = "list" THEN Shown(file[p[1]][p[2]])
                        ELSE p \in Copies /\ NonEmpty(file[p[1]][p[2]])}
<1>1. /\ call[c].pc = "new" /\ op # Nobody /\ call' = [call EXCEPT ![c] = r]
      /\ steady' = [steady EXCEPT ![c] = there]
      /\ quiet' = [quiet EXCEPT ![c] = TRUE]
      /\ file' = file /\ data' = data /\ mtime' = mtime /\ window' = window /\ created' = created /\ clock' = clock
      /\ agents' = agents /\ writes' = writes /\ gone' = gone /\ latest' = latest
  BY DEF Begin, fs
<1>2. /\ TypeOK /\ DirInv /\ CallInv(c) /\ Session \in Sessions
      /\ call[c] \in NewType \cup CallType
  BY DEF FilesInv, TypeOK, Sessions
<1>3. ~Begun(c) /\ op \in Ops
  BY <1>1, <1>2 DEF Begun, NewType, CallType, Pcs, Finished
<1>4. r \in CallType
  <2>1. NoFile \in MaybeFile /\ latest \in LatestType /\ <<>> \in Seq(Lines)
    BY <1>2, FilesAssumption DEF TypeOK, NoFile, MaybeFile
  <2>2. r.pc \in Pcs
    BY DEF Pcs
  <2>. QED
    BY <1>3, <2>1, <2>2 DEF CallType
<1>5. /\ r.pc = (IF op = "list" THEN "names" ELSE "search") /\ r.op = op /\ r.order = order
      /\ r.at = 1 /\ r.file = NoFile /\ r.names = {} /\ r.rows = {} /\ r.want = latest
  OBVIOUS
<1>. HIDE DEF r
<1>6. /\ there \in SUBSET (Dirs \X Sessions)
      /\ \A p \in there : IF op = "list" THEN Shown(file[p[1]][p[2]])
                          ELSE p[2] = Session /\ NonEmpty(file[p[1]][Session])
      /\ op = "list" => \A e \in Dirs : Shown(file[e][Session]) => <<e, Session>> \in there
  BY <1>2 DEF Copies
<1>. HIDE DEF there
<1>7. /\ steady' \in [Callers -> SUBSET (Dirs \X Sessions)] /\ steady'[c] = there
      /\ quiet' \in [Callers -> BOOLEAN]
      /\ \A x \in Callers \ {c} : steady'[x] = steady[x] /\ quiet'[x] = quiet[x]
  BY <1>1, <1>2, <1>6 DEF TypeOK
<1>8. call'[c] = r
  BY <1>1, <1>2 DEF TypeOK
<1>9. Stage(c)'
  <2>1. 1 \in DOMAIN order /\ Len(order) \in Nat
    BY OrderIs
  <2>. QED
    BY <1>5, <1>8, <2>1 DEF Stage
<1>10. /\ Begun(c)' /\ \A x \in Callers \ {c} : call'[x] = call[x]
       /\ call' \in [Callers -> NewType \cup CallType]
       /\ \A x \in Callers : Begun(x)' => Stage(x)'
  BY <1>1, <1>2, <1>4, <1>9, OwnCall
<1>11. TypeOK'
  BY <1>1, <1>2, <1>7, <1>10 DEF TypeOK
<1>12. DataGrows /\ NamesStay
  BY <1>1, <1>2, MtimeIs DEF DataGrows, NamesStay, TypeOK, MaybeFile
<1>13. Witnesses
  <2>1. ASSUME NEW x \in Callers, Begun(x) PROVE steady'[x] = steady[x] /\ quiet'[x] = quiet[x]
    BY <1>3, <1>7, <2>1
  <2>. QED
    BY <1>1, <2>1 DEF Witnesses, NonEmpty
<1>14. ASSUME latest[1] # Nobody PROVE LatestKept
  <2>1. ASSUME NEW x \in Callers, Begun(x) PROVE steady'[x] = steady[x]
    BY <1>3, <1>7, <2>1
  <2>. QED
    BY <1>1, <1>2, <1>14, <2>1, Stays DEF LatestKept, DirInv, LatestNewest, NonEmpty
<1>15. World
  BY <1>1, <1>12, <1>13, <1>14 DEF World, ForksLeft, LatestStays
<1>16. OneName' /\ Times'
  BY <1>1, <1>2 DEF DirInv, OneName, Times
<1>17. LatestNewest'
  BY <1>1, <1>14, <1>15, LatestStill DEF LatestNewest
<1>18. Renamed(latest[1]) /\ Renamed(latest[1])'
  <2>1. Renamed(latest[1]) /\ latest[1] \in MaybeTitle
    BY <1>2 DEF DirInv, TypeOK, LatestType
  <2>. QED
    BY <1>1, <1>10, <2>1 DEF Renamed, MaybeTitle
<1>19. DeletedStaysDeleted'
  <2>1. ASSUME NEW x \in Callers, At(x, "unlinked", "delete")
        PROVE  At(x, "unlinked", "delete")' /\ Dir(x)' = Dir(x)
    BY <1>1, <1>10, <2>1 DEF At, Dir
  <2>. QED
    BY <1>1, <1>2, <2>1 DEF DirInv, DeletedStaysDeleted
<1>20. ForkMade(c)'
  BY <1>1, <1>2, <1>3, <1>5, <1>8 DEF CallInv, ForkMade, At
<1>21. SearchInv(c)'
  <2>1. SteadyThere(c)'
    <3>1. \A f : (NonEmpty(f)' <=> NonEmpty(f)) /\ (Shown(f)' <=> Shown(f))
      BY <1>1 DEF Shown, Shows, Sidechain, Titles, InSight, NonEmpty
    <3>2. call'[c].op = op /\ steady'[c] = there
      BY <1>5, <1>7, <1>8
    <3>. HIDE DEF op
    <3>. QED
      BY <1>1, <1>6, <3>1, <3>2 DEF SteadyThere
  <2>. QED
    BY <1>5, <1>8, <2>1 DEF SearchInv, Passed, Opened, AboutFirst, EmptyBefore, NoneHeld
<1>22. ASSUME op = "list" PROVE ListInv(c)'
  <2>1. Covered(c)' /\ RowsTrue(c)'
    BY <1>5, <1>8, <1>22 DEF Covered, RowsTrue
  <2>2. Recent(c)'
    <3>. SUFFICES ASSUME latest[1] # Nobody
                  PROVE  \E e \in Dirs : file[e][Session] = latest[2] /\ <<e, Session>> \in there
      BY <1>1, <1>5, <1>7, <1>8, <1>22 DEF Recent, Tracks
    <3>1. latest[2] # NoFile /\ LatestSeen
      BY <1>2 DEF DirInv, LatestNewest
    <3>2. PICK e \in Dirs : file[e][Session] = latest[2]
      BY <1>2 DEF DirInv, LatestNewest
    <3>3. PICK g \in Files : g = latest[2]
      BY <1>2, <3>1, <3>2, FileIs
    <3>6. Shown(g)
      BY <1>2, <3>1, <3>3, LatestTitle
    <3>. QED
      BY <1>6, <1>22, <3>2, <3>3, <3>6
  <2>. QED
    BY <2>1, <2>2 DEF ListInv
<1>23. CallInv(c)'
  BY <1>1, <1>5, <1>8, <1>18, <1>20, <1>21, <1>22 DEF CallInv
<1>. QED
  BY <1>1, <1>2, <1>10, <1>11, <1>15, <1>16, <1>17, <1>18, <1>19, <1>23, ActKeeps DEF DirInv

-----------------------------------------------------------------------------
(***************************************************************************)
(* The theorems                                                            *)
(***************************************************************************)
LEMMA InitInv == Init => FilesInv
<1>. SUFFICES ASSUME Init PROVE FilesInv
  OBVIOUS
<1>1. /\ file = [d \in Dirs |-> [s \in Sessions |-> NoFile]]
      /\ data = [f \in Files |-> <<>>] /\ mtime = [f \in Files |-> 0]
      /\ agents = {} /\ created = 0 /\ clock = 0 /\ writes = 0
      /\ gone = {} /\ steady = [c \in Callers |-> {}]
      /\ quiet = [c \in Callers |-> TRUE] /\ latest = NoRename /\ window \in Windows
  BY DEF Init, Files
<1>2. PICK plan \in Plans : call = [c \in Callers |-> [pc |-> "new", op |-> plan[c]]]
  BY DEF Init
<1>3. call \in [Callers -> NewType] /\ \A c \in Callers : ~Begun(c)
  BY <1>2, FilesAssumption DEF NewType, Ops, Begun
<1>4. TypeOK
  <2>1. MaxFiles \in Nat /\ MaxWrites \in Nat
    BY FilesAssumption
  <2>2. latest \in LatestType
    BY <1>1, <2>1 DEF NoRename, LatestType, MaybeTitle, MaybeFile, NoFile
  <2>. QED
    BY <1>1, <1>3, <2>1, <2>2, FilesAssumption DEF TypeOK, MaybeFile, NoFile
<1>5. DirInv
  BY <1>1, FilesAssumption
     DEF DirInv, OneName, Times, DeletedStaysDeleted, LatestNewest, Renamed, NoRename
<1>6. \A c \in Callers : ForkMade(c)
  BY <1>1, <1>3 DEF ForkMade, Sessions, At, Begun
<1>. QED
  BY <1>3, <1>4, <1>5, <1>6 DEF FilesInv, CallInv

LEMMA NextInv == FilesInv /\ [Next]_vars => FilesInv'
<1>. SUFFICES ASSUME FilesInv, [Next]_vars PROVE FilesInv'
  OBVIOUS
<1>1. CASE Cli
  BY <1>1, WritesKeeps, StubKeeps, SubagentKeeps DEF Cli
<1>2. ASSUME NEW c \in Callers, NEW order \in Orders, Begin(c, order) PROVE FilesInv'
  BY <1>2, BeginKeeps
<1>3. ASSUME NEW c \in Callers, Searches(c) PROVE FilesInv'
  BY <1>3, SearchesKeep, TitledKeeps, UnlinksKeeps, RemovesAgentsKeeps DEF Searches
<1>4. ASSUME NEW c \in Callers, Forks(c) PROVE FilesInv'
  BY <1>4, SearchesKeep, CreatesForkKeeps, WritesForkKeeps DEF Forks
<1>5. ASSUME NEW c \in Callers, ListsAll(c) PROVE FilesInv'
  BY <1>5, ListsAllKeeps
<1>6. CASE UNCHANGED vars
  <2>1. /\ TypeOK /\ DirInv /\ call' = call /\ agents' = agents /\ gone' = gone
        /\ file' = file /\ UNCHANGED <<fs, steady, quiet, latest>>
        /\ \A d \in Dirs : \A c \in Callers : file'[d][c] = file[d][c]
    BY <1>6 DEF vars, fs, FilesInv
  <2>2. TypeOK'
    BY <1>6, <2>1, CallsKept DEF vars, fs, TypeOK
  <2>3. World /\ OneName' /\ Times' /\ LatestNewest'
    BY <2>1, Still DEF DirInv
  <2>4. DeletedStaysDeleted' /\ Renamed(latest[1])'
    BY <2>1 DEF DirInv, DeletedStaysDeleted, At, Dir, Renamed
  <2>5. \A c \in Callers : CallInv(c)'
    BY <2>1, <2>2, <2>3, CliKeepsCalls
  <2>. QED
    BY <2>2, <2>3, <2>4, <2>5 DEF FilesInv, DirInv
<1>. QED
  BY <1>1, <1>2, <1>3, <1>4, <1>5, <1>6 DEF Next

\* The invariant holds in every state the calls and the CLI can reach, however
\* many directories, calls and writes there are: what every theorem below rests on.
THEOREM FilesInvariant == Spec => []FilesInv
<1>1. Init => FilesInv
  BY InitInv
<1>2. FilesInv /\ [Next]_vars => FilesInv'
  BY NextInv
<1>. QED
  BY <1>1, <1>2, PTL DEF Spec

\* Every variable keeps its type, and every call is in a place, and at a project
\* directory, where a call of its kind can be.
THEOREM TypeCorrect == Spec => []TypeOK
<1>1. FilesInv => TypeOK
  BY DEF FilesInv
<1>. QED
  BY <1>1, FilesInvariant, PTL

\* What delete_session() removed stays removed, and its subagent transcripts go
\* with it, until the CLI writes the session again: no rename_session() that was
\* searching, or had the file open, makes it once more.
THEOREM DeletedHolds == Spec => []DeletedStaysDeleted
<1>1. FilesInv => DeletedStaysDeleted
  BY DEF FilesInv, DirInv
<1>. QED
  BY <1>1, FilesInvariant, PTL

\* A search that ended, while nothing came or went, ended at the first copy.
EndsAt(c, n) ==
    /\ n \in DOMAIN call[c].order /\ EmptyBefore(c, n - 1)
    /\ NonEmpty(file[call[c].order[n]][Session])
    /\ call[c].file = file[call[c].order[n]][Session]

LEMMA EndsAtFirst ==
    ASSUME FilesInv, NEW c \in Callers, call[c].pc \in Finished, quiet[c],
           call[c].op \in {"rename", "info", "messages", "fork"}
    PROVE  \/ EmptyBefore(c, Len(call[c].order)) /\ call[c].file = NoFile
           \/ \E n \in DOMAIN call[c].order : EndsAt(c, n)
<1>1. Begun(c) /\ TypeOK
  BY DEF Begun, Finished, FilesInv
<1>2. AboutFirst(c) /\ NoneHeld(c) /\ Stage(c)
  BY <1>1 DEF FilesInv, CallInv, SearchInv, TypeOK
<1>3. CASE call[c].pc = "not_found"
  BY <1>2, <1>3 DEF AboutFirst, NoneHeld
<1>4. CASE call[c].pc # "not_found"
  BY <1>2, <1>4 DEF AboutFirst, Stage, EndsAt, Here, Dir, Finished
<1>. QED
  BY <1>3, <1>4

LEMMA SearchesAgreeHolds == FilesInv => SearchesAgree
<1>. SUFFICES ASSUME FilesInv, NEW c \in Callers, NEW r \in Callers,
                     call[c].pc \in Finished, call[r].pc \in Finished,
                     call[c].op = "rename", call[r].op \in {"info", "messages", "fork"},
                     call[c].order = call[r].order, quiet[c], quiet[r]
              PROVE  call[c].file = call[r].file
  BY DEF SearchesAgree
<1>1. Begun(c) /\ TypeOK
  BY DEF Begun, Finished, FilesInv
<1>2. DOMAIN call[c].order = 1..Len(call[c].order) /\ Len(call[c].order) \in Nat
  BY <1>1, CallIs, OrderIs
<1>3. \/ EmptyBefore(c, Len(call[c].order)) /\ call[c].file = NoFile
      \/ \E n \in DOMAIN call[c].order : EndsAt(c, n)
  BY EndsAtFirst
<1>4. \/ EmptyBefore(r, Len(call[r].order)) /\ call[r].file = NoFile
      \/ \E n \in DOMAIN call[r].order : EndsAt(r, n)
  BY EndsAtFirst
<1>5. ASSUME NEW n \in 1..Len(call[c].order), EndsAt(c, n),
             NEW m \in 1..Len(call[c].order), EndsAt(r, m)
      PROVE  n = m
  <2>1. ~(n < m)
    BY <1>2, <1>5 DEF EndsAt, EmptyBefore
  <2>2. ~(m < n)
    BY <1>2, <1>5 DEF EndsAt, EmptyBefore
  <2>. QED
    BY <1>2, <2>1, <2>2
<1>6. ASSUME NEW n \in 1..Len(call[c].order), EndsAt(c, n)
      PROVE  ~EmptyBefore(r, Len(call[r].order))
  BY <1>6 DEF EndsAt, EmptyBefore
<1>7. ASSUME NEW n \in 1..Len(call[r].order), EndsAt(r, n)
      PROVE  ~EmptyBefore(c, Len(call[c].order))
  BY <1>7 DEF EndsAt, EmptyBefore
<1>8. CASE \E n \in DOMAIN call[c].order : EndsAt(c, n)
  <2>1. PICK n \in 1..Len(call[c].order) : EndsAt(c, n)
    BY <1>2, <1>8
  <2>2. PICK m \in 1..Len(call[c].order) : EndsAt(r, m)
    BY <1>2, <1>4, <1>6, <2>1
  <2>3. n = m
    BY <1>5, <2>1, <2>2
  <2>. QED
    BY <2>1, <2>2, <2>3 DEF EndsAt
<1>. QED
  BY <1>2, <1>3, <1>4, <1>7, <1>8

\* What the readers and the searches say of the sessions is so, whatever is
\* deleted, renamed and written under them: a session that was there throughout
\* is found, and calls with the same arguments are about the same copy; a listing
\* shows every session once that it could show throughout, with the title of the
\* last rename as long as no other copy is written and the title is in the tail
\* of its file, or the last one in the head; a fork that was reported can be
\* listed. A file that begins with a sidechain is not shown.
THEOREM ReadersHold == Spec => []ReadersFaithful
<1>1. FilesInv => FoundIfThere
  BY DEF FilesInv, CallInv, SearchInv, Passed, FoundIfThere, Begun
<1>2. FilesInv => MostRecentWins
  BY DEF FilesInv, CallInv, ListInv, Recent, MostRecentWins, Begun, At
<1>3. FilesInv => ListKeeps
  <2>. SUFFICES ASSUME FilesInv, NEW c \in Callers, At(c, "ok", "list")
                PROVE  /\ \A p \in steady[c] : \E r \in call[c].rows : r.session = p[2]
                       /\ \A r, o \in call[c].rows : r.session = o.session => r = o
    BY DEF ListKeeps
  <2>1. call[c].pc = "ok" /\ Covered(c) /\ RowsTrue(c)
    BY DEF FilesInv, CallInv, ListInv, Begun, At
  <2>. QED
    BY <2>1 DEF Covered, RowsTrue
<1>4. FilesInv => ForkListed
  BY DEF FilesInv, CallInv, ForkMade, ForkListed
<1>5. FilesInv => ReadersFaithful
  BY <1>1, <1>2, <1>3, <1>4, SearchesAgreeHolds
     DEF ReadersFaithful, SearchesSound, ListingFaithful
<1>. QED
  BY <1>5, FilesInvariant, PTL
=============================================================================
