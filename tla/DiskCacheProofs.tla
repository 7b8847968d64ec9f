--------------------------- MODULE DiskCacheProofs ---------------------------
(***************************************************************************)
(* Proofs about DiskCache, for any keys, writes, hash prefixes and sizes,   *)
(* any number of clears, crashes, failed calls and damaged files: a clear   *)
(* is final, a lookup is answered with a whole and current record, and the  *)
(* store stays within its bytes but for what it cannot account for.         *)
(***************************************************************************)
EXTENDS DiskCache, DataLemmas

------------------------------------------------------------------------------
(* The bytes of a set of files.  Two links to one file count once, so the    *)
(* sum is over the files' numbers and values.                                *)

Pairs(fs) == {<<f.n, f.value>> : f \in fs}
Weights(P) == [p \in P |-> Size[p[2]]]
Sized(fs) == IsFiniteSet(fs) /\ \A f \in fs : f.value \in Writes

\* The sum has a finite number of terms, each of them a size.
LEMMA PairsSized ==
    ASSUME NEW fs, Sized(fs)
    PROVE  /\ IsFiniteSet(Pairs(fs))
           /\ \A p \in Pairs(fs) : p[2] \in Writes /\ Size[p[2]] \in Nat
<1>1. IsFiniteSet(Pairs(fs))
  <2> DEFINE g == [f \in fs |-> <<f.n, f.value>>]
  <2>1. g \in Surjection(fs, Pairs(fs))
    BY DEF Surjection, Pairs
  <2> HIDE DEF g
  <2> QED  BY <2>1, FS_Surjection DEF Sized
<1>2. \A p \in Pairs(fs) : p[2] \in Writes
  BY DEF Pairs, Sized
<1> QED  BY <1>1, <1>2, DiskAssumption

LEMMA BytesIs ==
    ASSUME NEW fs, Sized(fs)
    PROVE  Bytes(fs) = Total(Weights(Pairs(fs)), Pairs(fs))
<1> DEFINE S == Pairs(fs)
           w == Weights(S)
           next(g, T) == IF T = {} THEN 0
                         ELSE Size[(CHOOSE x \in T : TRUE)[2]] + g[T \ {CHOOSE x \in T : TRUE}]
<1>0. IsFiniteSet(S)
  BY PairsSized
<1>1. PICK g : IsTotal(g, w, S) /\ Total(w, S) = g[S]
  BY <1>0, TotalIs
<1>2. PICK h : h = [T \in SUBSET S |-> g[T]]
  OBVIOUS
<1>3. \A T \in SUBSET S : T # {} => w[Chosen(T)] = Size[Chosen(T)[2]]
  BY ChosenIn DEF Weights
<1> HIDE DEF w
<1>4. \A T \in SUBSET S : h[T] = next(h, T)
  <2> TAKE T \in SUBSET S
  <2>1. h[T] = g[T] /\ h[T \ {Chosen(T)}] = g[T \ {Chosen(T)}]
    BY <1>2
  <2>2. T = {} => g[T] = 0
    BY <1>1 DEF IsTotal
  <2>3. T # {} => g[T] = Size[Chosen(T)[2]] + g[T \ {Chosen(T)}]
    BY <1>1, <1>3 DEF IsTotal
  <2> QED  BY <2>1, <2>2, <2>3 DEF Chosen
<1>5. h = [T \in SUBSET S |-> next(h, T)]
  BY <1>2, <1>4
<1>6. PICK r : r = [T \in SUBSET S |-> next(r, T)] /\ Bytes(fs) = r[S]
  BY <1>5 DEF Bytes, MapThenSumSet, MapThenFoldSet, Pairs
<1>7. IsTotal(r, w, S)
  <2>1. DOMAIN r = SUBSET S /\ \A T \in SUBSET S : r[T] = next(r, T)
    BY <1>6
  <2> QED  BY <1>3, <2>1 DEF IsTotal, Chosen
<1>8. Total(w, S) = r[S]
  BY <1>0, <1>1, <1>7, TotalAgree
<1> QED  BY <1>6, <1>8 DEF w

\* More files are no fewer bytes.
LEMMA BytesGrow ==
    ASSUME NEW gs, Sized(gs), NEW fs, Sized(fs), Pairs(fs) \subseteq Pairs(gs)
    PROVE  Bytes(fs) \in Nat /\ Bytes(gs) \in Nat /\ Bytes(fs) <= Bytes(gs)
<1>1. PICK P, Q : P = Pairs(fs) /\ Q = Pairs(gs)
  OBVIOUS
<1>2. PICK v, w : v = Weights(P) /\ w = Weights(Q)
  OBVIOUS
<1>3. IsFiniteSet(Q) /\ IsFiniteSet(P) /\ P \in SUBSET Q
  BY <1>1, PairsSized
<1>4. \A p \in Q : w[p] \in Nat
  BY <1>1, <1>2, PairsSized DEF Weights
<1>5. /\ Total(w, Q) = Total(w, P) + Total(w, Q \ P)
      /\ Total(w, Q) \in Nat /\ Total(w, P) \in Nat /\ Total(w, Q \ P) \in Nat
  BY <1>3, <1>4, TotalSplit
<1>6. \A p \in P : v[p] = w[p]
  BY <1>2, <1>3 DEF Weights
<1>7. Total(v, P) = Total(w, P)
  BY <1>3, <1>6, TotalEqual
<1>8. Bytes(fs) = Total(v, P) /\ Bytes(gs) = Total(w, Q)
  BY <1>1, <1>2, BytesIs
<1> QED  BY <1>5, <1>7, <1>8

LEMMA BytesSubset ==
    ASSUME NEW gs, Sized(gs), NEW fs \in SUBSET gs
    PROVE  Sized(fs) /\ Bytes(fs) \in Nat /\ Bytes(gs) \in Nat /\ Bytes(fs) <= Bytes(gs)
<1>1. Sized(fs)
  BY FS_Subset DEF Sized
<1>2. Pairs(fs) \subseteq Pairs(gs)
  BY DEF Pairs
<1> QED  BY <1>1, <1>2, BytesGrow

LEMMA BytesEmpty == Sized({}) /\ Bytes({}) = 0
<1>1. Sized({})
  BY FS_EmptySet DEF Sized
<1>2. Pairs({}) = {}
  BY DEF Pairs
<1>3. PICK P : P = Pairs({})
  OBVIOUS
<1>4. Total(Weights(P), {}) = 0
  BY TotalEmpty
<1> QED  BY <1>1, <1>2, <1>3, <1>4, BytesIs

\* Together no more than each alone.
LEMMA BytesUnion ==
    ASSUME NEW fs, Sized(fs), NEW gs, Sized(gs)
    PROVE  /\ Sized(fs \cup gs) /\ Bytes(fs \cup gs) \in Nat
           /\ Bytes(fs) \in Nat /\ Bytes(gs) \in Nat
           /\ Bytes(fs \cup gs) <= Bytes(fs) + Bytes(gs)
<1>1. PICK all : all = fs \cup gs
  OBVIOUS
<1>2. Sized(all)
  BY <1>1, FS_Union DEF Sized
<1>3. PICK P, Q, G : P = Pairs(fs) /\ Q = Pairs(all) /\ G = Pairs(gs)
  OBVIOUS
<1>4. P \in SUBSET Q /\ Q \ P \in SUBSET G /\ G \in SUBSET Q
  BY <1>1, <1>3 DEF Pairs
<1>5. PICK w : w = Weights(Q)
  OBVIOUS
<1>6. IsFiniteSet(Q) /\ IsFiniteSet(G) /\ IsFiniteSet(P) /\ \A p \in Q : w[p] \in Nat
  BY <1>2, <1>3, <1>5, PairsSized DEF Weights
<1>7. /\ Total(w, Q) = Total(w, P) + Total(w, Q \ P)
      /\ Total(w, Q) \in Nat /\ Total(w, P) \in Nat /\ Total(w, Q \ P) \in Nat
  BY <1>4, <1>6, TotalSplit
<1>8. Total(w, Q \ P) <= Total(w, G) /\ Total(w, G) \in Nat
  <2>1. PICK D : D = Q \ P
    OBVIOUS
  <2>2. D \in SUBSET G /\ IsFiniteSet(G) /\ \A p \in G : w[p] \in Nat
    BY <1>4, <1>6, <2>1
  <2>3. Total(w, D) <= Total(w, G) /\ Total(w, G) \in Nat
    BY <2>2, TotalPart
  <2> QED  BY <2>1, <2>3
<1>9. Bytes(fs) = Total(w, P)
  <2>1. PICK v : v = Weights(P)
    OBVIOUS
  <2>2. \A p \in P : v[p] = w[p]
    BY <1>4, <1>5, <2>1 DEF Weights
  <2>3. Bytes(fs) = Total(v, P)
    BY <1>3, <2>1, BytesIs
  <2> QED  BY <1>6, <2>2, <2>3, TotalEqual
<1>10. Bytes(gs) = Total(w, G)
  <2>1. PICK v : v = Weights(G)
    OBVIOUS
  <2>2. \A p \in G : v[p] = w[p]
    BY <1>4, <1>5, <2>1 DEF Weights
  <2>3. Bytes(gs) = Total(v, G)
    BY <1>3, <2>1, BytesIs
  <2> QED  BY <1>6, <2>2, <2>3, TotalEqual
<1>11. Bytes(all) = Total(w, Q)
  BY <1>2, <1>3, <1>5, BytesIs
<1>12. Bytes(all) <= Bytes(fs) + Bytes(gs) /\ Bytes(all) \in Nat
       /\ Bytes(fs) \in Nat /\ Bytes(gs) \in Nat
  BY <1>7, <1>8, <1>9, <1>10, <1>11
<1> QED  BY <1>1, <1>2, <1>12

LEMMA BytesOfOne ==
    ASSUME NEW f, f.value \in Writes
    PROVE  Sized({f}) /\ Bytes({f}) = Size[f.value]
<1>1. PICK p : p = <<f.n, f.value>>
  OBVIOUS
<1>2. Sized({f})
  BY FS_Singleton DEF Sized
<1>3. Pairs({f}) = {p}
  BY <1>1 DEF Pairs
<1>4. PICK E, w : E = {} /\ w = Weights({p})
  OBVIOUS
<1>5. IsFiniteSet(E) /\ E \cup {p} = {p} /\ p \notin E /\ \A e \in E : w[e] \in Nat
  BY <1>4, FS_EmptySet
<1>6. w[p] = Size[f.value] /\ w[p] \in Nat
  BY <1>1, <1>4, DiskAssumption DEF Weights
<1>7. Total(w, E \cup {p}) = w[p] + Total(w, E)
  BY <1>5, <1>6, TotalAdd
<1>8. Total(w, E) = 0
  BY <1>4, TotalEmpty
<1>9. Bytes({f}) = Total(w, {p})
  BY <1>2, <1>3, <1>4, BytesIs
<1> QED  BY <1>2, <1>5, <1>6, <1>7, <1>8, <1>9

\* A file number, or a directory number, that no file has yet.
LEMMA AfterIs ==
    ASSUME NEW K \in SUBSET Nat, IsFiniteSet(K)
    PROVE  After(K) \in Nat /\ After(K) > 0 /\ \A k \in K : k < After(K)
<1>1. PICK S : S = {0} \cup K
  OBVIOUS
<1>2. S \in SUBSET Nat /\ S # {} /\ 0 \in S /\ K \subseteq S
  BY <1>1
<1>3. IsFiniteSet(S)
  BY <1>1, FS_Singleton, FS_Union
<1>4. \E m \in S : \A k \in S : k <= m
  BY <1>2, <1>3, FiniteMaximum
<1>5. \E m \in S : \A k \in S : m >= k
  BY <1>2, <1>4
<1>6. Max(S) \in S /\ \A k \in S : Max(S) >= k
  BY <1>5 DEF Max
<1>7. PICK m : m = Max(S)
  OBVIOUS
<1>8. m \in Nat /\ \A k \in K : k <= m /\ k \in Nat
  BY <1>2, <1>6, <1>7
<1>9. After(K) = 1 + m
  BY <1>1, <1>7 DEF After
<1> QED  BY <1>8, <1>9

LEMMA NumbersFinite ==
    ASSUME NEW fs, IsFiniteSet(fs)
    PROVE  IsFiniteSet({f.n : f \in fs}) /\ IsFiniteSet({f.dir : f \in fs})
<1>1. IsFiniteSet({f.n : f \in fs})
  <2> DEFINE g == [f \in fs |-> f.n]
             K == {f.n : f \in fs}
  <2>1. g \in Surjection(fs, K)
    BY DEF Surjection
  <2> HIDE DEF g, K
  <2>2. IsFiniteSet(K)
    BY <2>1, FS_Surjection
  <2> QED  BY <2>2 DEF K
<1>2. IsFiniteSet({f.dir : f \in fs})
  <2> DEFINE g == [f \in fs |-> f.dir]
             K == {f.dir : f \in fs}
  <2>1. g \in Surjection(fs, K)
    BY DEF Surjection
  <2> HIDE DEF g, K
  <2>2. IsFiniteSet(K)
    BY <2>1, FS_Surjection
  <2> QED  BY <2>2 DEF K
<1> QED  BY <1>1, <1>2

------------------------------------------------------------------------------
(* The inductive invariant.                                                  *)

FileFields == {"n", "value", "dir", "kind", "seems", "whole"}
PastFields == {"clears", "era", "latest", "damaged", "stranded", "trouble"}
CommandSet == [kind : {"Read", "Write", "Clear"}, id : Nat \cup {None}, key : Keys \cup {None},
               value : Writes \cup {None}, generation : Nat]

\* The directory a lookup reads once the worker rests again: the active one, or
\* the one begin_clear has set aside and may yet put back.
Home == IF worker.pc = "mkdir" THEN worker.op.dir ELSE Active
HomeFiles == {f \in files : f.dir = Home}
Live == {f \in files : f.dir = Home /\ f.kind = "entry"}

\* The retired entries retired_bytes_pending answers for.
Stranded(f) == \E g \in past.stranded : g.dir = f.dir /\ g.n = f.n
Pending == {f \in files : f.dir # Active /\ f.dir # Home /\ f.kind = "entry" /\ ~Stranded(f)}

\* The store is open, and a clear that swapped the directories is not finished.
Opened == worker.pc \notin {"open", "exited"} /\ (worker.pc = "send" => worker.job # "exited")
Deleting == worker.pc \in {"publish", "delete"} \/ (worker.pc = "send" /\ worker.job = "delete")

\* A file that verifies, or is being written, holds the key of its value.
FilesOk ==
    /\ IsFiniteSet(files)
    /\ \A f \in files : /\ DOMAIN f = FileFields /\ f.n \in Nat /\ f.dir \in Nat
                        /\ f.value \in Writes /\ f.kind \in {"entry", "tmp"}
                        /\ (f.whole \/ f.kind = "tmp") => f.seems = Key[f.value]

PastOk ==
    /\ DOMAIN past = PastFields /\ past.clears \in Nat /\ past.era \in [Writes -> Nat]
    /\ past.latest \in [Keys -> Writes \cup {None}]
    /\ \A g \in past.stranded : g.dir # Active

StoreOk ==
    /\ DOMAIN store = {"generation", "pending"}
    /\ store.generation \in Nat /\ store.pending \in Nat
    /\ shared \in Nat /\ shared <= store.generation

\* A generation captured before the last clear is not the current one.
Valid(w, g) == g <= store.generation /\ (g = store.generation => past.era[w] = past.clears)

ClientsOk ==
    /\ DOMAIN client = Writes
    /\ \A w \in Writes : /\ DOMAIN client[w] = {"state", "generation"}
                         /\ client[w].generation \in Nat
                         /\ client[w].state = "captured" => Valid(w, client[w].generation)
    /\ DOMAIN ui = {"disk", "pending", "state", "ids", "awake"} /\ ui.ids \in Nat
    /\ commands \in Seq(CommandSet)
    /\ \A c \in Elements(commands) :
          /\ c.kind = "Write" => c.value \in Writes /\ Valid(c.value, c.generation)
          /\ c.kind = "Read" => c.key \in Keys

PcOk ==
    /\ DOMAIN worker = {"pc", "op", "job", "out"}
    /\ worker.pc = "open" => store.generation = 0
    /\ worker.pc = "send" => worker.job \in {"idle", "exited", "delete"}

\* The temporary file is the newest of all, and whole before it is linked.
WritingOk ==
    worker.pc \in {"fill", "link"} =>
        /\ worker.op \in Writes /\ past.era[worker.op] = past.clears /\ Temporaries # {}
        /\ \A t \in Temporaries : /\ t.value = worker.op
                                  /\ worker.pc = "link" => t.whole
                                  /\ \A f \in Live : f.n < t.n

SwapOk ==
    worker.pc = "mkdir" =>
        /\ worker.op.dir \in Nat /\ worker.op.dir # Active
        /\ worker.op.bytes = Bytes(Live)
        /\ \A f \in files : f.dir # Active

\* The bytes of the directory being deleted are a part of those pending, and the
\* others answer for the other directories.
DeletingOk ==
    Deleting =>
        /\ worker.op.dir # Active /\ worker.op.bytes \in Nat
        /\ Bytes({f \in Pending : f.dir = worker.op.dir}) <= worker.op.bytes
        /\ Bytes({f \in Pending : f.dir # worker.op.dir}) + worker.op.bytes <= store.pending

CapacityOk ==
    /\ WithinCapacity
    /\ Opened => Bytes(Pending) <= store.pending /\ Bytes(HomeFiles) + store.pending <= MaxBytes

\* Unless the last value stored under its key went bad, a whole record is that
\* value or an older one.
Superseded(f) ==
    \E g \in Live : /\ g.whole /\ g.n > f.n /\ Key[g.value] = Key[f.value]
                    /\ g.value = past.latest[Key[f.value]]
Current(f) == \/ f.value = past.latest[Key[f.value]]
              \/ past.latest[Key[f.value]] \in past.damaged
              \/ Superseded(f)
LiveOk == \A f \in Live : past.era[f.value] = past.clears /\ (f.whole => Current(f))

DiskInv == /\ FilesOk /\ PastOk /\ StoreOk /\ ClientsOk /\ PcOk
           /\ WritingOk /\ SwapOk /\ DeletingOk /\ CapacityOk /\ LiveOk /\ ReadsAreCurrent

------------------------------------------------------------------------------
(* What most steps leave alone.                                              *)

\* A step that may only spend a fault.
SamePast == /\ DOMAIN past' = PastFields
            /\ past'.clears = past.clears /\ past'.era = past.era
            /\ past'.latest = past.latest /\ past'.damaged = past.damaged
            /\ past'.stranded = past.stranded

LEMMA PastStays ==
    ASSUME PastOk, past' = past \/ (\E n : Faults(n))
    PROVE  SamePast /\ PastOk'
<1>1. SamePast
  BY DEF SamePast, PastOk, PastFields, Faults
<1> QED  BY <1>1 DEF SamePast, PastOk

\* A command is taken, or none is.
Taken == commands' = commands \/ (commands # <<>> /\ commands' = Tail(commands))

LEMMA TakenFewer ==
    ASSUME ClientsOk, Taken
    PROVE  commands' \in Seq(CommandSet) /\ Elements(commands') \subseteq Elements(commands)
<1>1. commands \in Seq(CommandSet)
  BY DEF ClientsOk
<1>2. CASE commands' = commands
  BY <1>1, <1>2
<1>3. CASE commands # <<>> /\ commands' = Tail(commands)
  <2>1. Tail(commands) \in Seq(CommandSet)
        /\ Elements(commands) = {Head(commands)} \cup Elements(Tail(commands))
    BY <1>1, <1>3, PopProperties
  <2> QED  BY <1>3, <2>1
<1> QED  BY <1>2, <1>3 DEF Taken

LEMMA ClientsStay ==
    ASSUME ClientsOk, Taken, UNCHANGED <<client, ui>>,
           store'.generation = store.generation,
           past'.clears = past.clears, past'.era = past.era
    PROVE  ClientsOk'
<1>1. commands' \in Seq(CommandSet) /\ Elements(commands') \subseteq Elements(commands)
  BY TakenFewer
<1>2. \A w, g : Valid(w, g) => Valid(w, g)'
  BY DEF Valid
<1>3. \A c \in Elements(commands') :
          /\ c.kind = "Write" => c.value \in Writes /\ Valid(c.value, c.generation)'
          /\ c.kind = "Read" => c.key \in Keys
  BY <1>1, <1>2 DEF ClientsOk
<1>4. \A w \in Writes : /\ DOMAIN client[w] = {"state", "generation"}
                        /\ client[w].generation \in Nat
                        /\ client[w].state = "captured" => Valid(w, client[w].generation)'
  BY <1>2 DEF ClientsOk
<1> QED  BY <1>1, <1>3, <1>4 DEF ClientsOk

\* The worker has an answer to send and nothing else under way.
LEMMA AnswerRests ==
    ASSUME NEW x, NEW j \in {"idle", "exited"}, NEW e,
           worker' = [pc |-> "send", op |-> x, job |-> j, out |-> e]
    PROVE  /\ PcOk' /\ WritingOk' /\ SwapOk' /\ DeletingOk'
           /\ Home' = Active /\ (Opened' <=> j = "idle") /\ ~Deleting'
<1>1. worker'.pc = "send" /\ worker'.job = j /\ DOMAIN worker' = {"pc", "op", "job", "out"}
  OBVIOUS
<1>2. ~Deleting'
  BY <1>1 DEF Deleting
<1> QED  BY <1>1, <1>2 DEF PcOk, WritingOk, SwapOk, DeletingOk, Home, Opened

LEMMA FilesSized ==
    ASSUME FilesOk
    PROVE  \A fs \in SUBSET files : Sized(fs) /\ Bytes(fs) \in Nat
<1>1. Sized(files)
  BY DEF FilesOk, Sized
<1> QED  BY <1>1, BytesSubset

\* Entries that go after the older ones of their key outdate nothing.
LEMMA LiveFewer ==
    ASSUME FilesOk, LiveOk, SamePast, Live' \subseteq Live,
           \A f \in Live \ Live' : f.whole => \A g \in Live : g.n < f.n => g \notin Live'
    PROVE  LiveOk'
<1> SUFFICES ASSUME NEW f \in Live'
             PROVE  (past.era[f.value] = past.clears /\ (f.whole => Current(f)))'
  BY DEF LiveOk
<1>1. f \in Live
  OBVIOUS
<1>2. past'.era[f.value] = past'.clears
  BY <1>1 DEF LiveOk, SamePast
<1>3. ASSUME f.whole PROVE Current(f)'
  <2>1. Current(f)
    BY <1>1, <1>3 DEF LiveOk
  <2>2. CASE Superseded(f)
    <3>1. PICK g \in Live : /\ g.whole /\ g.n > f.n /\ Key[g.value] = Key[f.value]
                            /\ g.value = past.latest[Key[f.value]]
      BY <2>2 DEF Superseded
    <3>2. f.n < g.n
      BY <1>1, <3>1 DEF FilesOk, Live
    <3>3. g \in Live'
      BY <1>1, <3>1, <3>2
    <3> QED  BY <3>1, <3>3 DEF Current, Superseded, SamePast
  <2> QED  BY <2>1, <2>2 DEF Current, SamePast
<1> QED  BY <1>2, <1>3

\* Removing files removes bytes, and outdates nothing as long as a whole entry
\* goes after the older ones.
LEMMA FewerFiles ==
    ASSUME FilesOk, WithinCapacity, LiveOk, worker.pc # "mkdir", worker'.pc # "mkdir",
           files' \in SUBSET files, SamePast,
           \A f \in Live \ files' : f.whole => \A g \in Live : g.n < f.n => g \notin files'
    PROVE  /\ FilesOk' /\ WithinCapacity' /\ LiveOk'
           /\ Live' \subseteq Live /\ Pending' \subseteq Pending /\ HomeFiles' \subseteq HomeFiles
           /\ Bytes(Pending') <= Bytes(Pending) /\ Bytes(HomeFiles') <= Bytes(HomeFiles)
           /\ Bytes(Pending) \in Nat /\ Bytes(HomeFiles) \in Nat
           /\ Bytes(Pending') \in Nat /\ Bytes(HomeFiles') \in Nat
<1>1. Home = Active /\ Home' = Active
  BY DEF Home
<1>2. FilesOk'
  BY FS_Subset DEF FilesOk
<1>3. \A f : Stranded(f)' <=> Stranded(f)
  BY DEF Stranded, SamePast
<1>4. /\ Live' \subseteq Live /\ Pending' \subseteq Pending /\ HomeFiles' \subseteq HomeFiles
      /\ Live' = Live \cap files'
  BY <1>1, <1>3 DEF Live, Pending, HomeFiles
<1>5. /\ Bytes(Pending') <= Bytes(Pending) /\ Bytes(HomeFiles') <= Bytes(HomeFiles)
      /\ Bytes(Pending) \in Nat /\ Bytes(HomeFiles) \in Nat
      /\ Bytes(Pending') \in Nat /\ Bytes(HomeFiles') \in Nat
  <2>1. Pending \in SUBSET files /\ HomeFiles \in SUBSET files
    BY DEF Pending, HomeFiles
  <2>2. PICK p, h : p = Pending' /\ h = HomeFiles'
    OBVIOUS
  <2>3. Sized(Pending) /\ Sized(HomeFiles) /\ p \in SUBSET Pending /\ h \in SUBSET HomeFiles
    BY <1>4, <2>1, <2>2, FilesSized
  <2> QED  BY <2>2, <2>3, BytesSubset
<1>6. WithinCapacity'
  <2>1. PICK fs : fs = files \ Unaccounted
    OBVIOUS
  <2>2. PICK gs : gs = (files \ Unaccounted)'
    OBVIOUS
  <2>3. gs \in SUBSET fs
    BY <2>1, <2>2 DEF Unaccounted, SamePast
  <2>4. Sized(fs)
    BY <2>1, FilesSized
  <2>5. Bytes(gs) <= Bytes(fs) /\ Bytes(gs) \in Nat /\ Bytes(fs) \in Nat
    BY <2>3, <2>4, BytesSubset
  <2>6. Bytes(fs) <= MaxBytes
    BY <2>1 DEF WithinCapacity
  <2>7. Bytes(gs) <= MaxBytes
    BY <2>5, <2>6, DiskAssumption
  <2> QED  BY <2>2, <2>7 DEF WithinCapacity
<1>7. LiveOk'
  <2>1. \A f \in Live \ Live' : f.whole => \A g \in Live : g.n < f.n => g \notin Live'
    BY <1>4
  <2> QED  BY <1>4, <2>1, LiveFewer
<1> QED  BY <1>2, <1>4, <1>5, <1>6, <1>7

\* The end of most operations: some files are gone, and an answer waits.
LEMMA RestKeeps ==
    ASSUME DiskInv, NEW x, NEW j \in {"idle", "exited"}, NEW e,
           worker.pc # "mkdir", j = "idle" => Opened,
           worker' = [pc |-> "send", op |-> x, job |-> j, out |-> e],
           past' = past \/ (\E n : Faults(n)),
           Taken, UNCHANGED <<store, shared, client, ui>>, files' \in SUBSET files,
           \A f \in Live \ files' : f.whole => \A g \in Live : g.n < f.n => g \notin files',
           e.kind = "Read" => ReadsAreCurrent'
    PROVE  DiskInv'
<1>1. SamePast /\ PastOk'
  BY PastStays DEF DiskInv
<1>2. /\ PcOk' /\ WritingOk' /\ SwapOk' /\ DeletingOk' /\ (Opened' => Opened)
      /\ worker'.pc = "send" /\ worker'.out = e
  BY AnswerRests
<1>3. ClientsOk'
  BY <1>1, ClientsStay DEF DiskInv, SamePast
<1>4. StoreOk'
  BY DEF DiskInv, StoreOk
<1>5. FilesOk' /\ LiveOk'
  BY <1>1, <1>2, FewerFiles DEF DiskInv, CapacityOk
<1>6. CapacityOk'
  <2>1. /\ WithinCapacity'
        /\ Bytes(Pending') <= Bytes(Pending) /\ Bytes(HomeFiles') <= Bytes(HomeFiles)
        /\ Bytes(Pending) \in Nat /\ Bytes(HomeFiles) \in Nat
        /\ Bytes(Pending') \in Nat /\ Bytes(HomeFiles') \in Nat
    BY <1>1, <1>2, FewerFiles DEF DiskInv, CapacityOk
  <2>2. Opened => Bytes(Pending) <= store.pending /\ Bytes(HomeFiles) + store.pending <= MaxBytes
    BY DEF DiskInv, CapacityOk
  <2>3. store.pending \in Nat /\ MaxBytes \in Nat
    BY DiskAssumption DEF DiskInv, StoreOk
  <2>4. Opened' => Bytes(Pending') <= store'.pending
                   /\ Bytes(HomeFiles') + store'.pending <= MaxBytes
    <3> SUFFICES ASSUME Opened' PROVE Bytes(Pending') <= store'.pending
                                      /\ Bytes(HomeFiles') + store'.pending <= MaxBytes
      OBVIOUS
    <3>1. Bytes(Pending) <= store.pending /\ Bytes(HomeFiles) + store.pending <= MaxBytes
      BY <1>2, <2>2
    <3> QED  BY <2>1, <2>3, <3>1
  <2> QED  BY <2>1, <2>4 DEF CapacityOk
<1>7. ReadsAreCurrent'
  <2>1. CASE e.kind = "Read"
    BY <2>1
  <2>2. CASE e.kind # "Read"
    BY <1>2, <2>2 DEF ReadsAreCurrent, VerifiedReads, NeverOlder, Reading
  <2> QED  BY <2>1, <2>2
<1> QED  BY <1>1, <1>2, <1>3, <1>4, <1>5, <1>6, <1>7 DEF DiskInv

------------------------------------------------------------------------------
(* Reading.                                                                  *)

\* An entry that verifies for a key is a whole record of that key.
LEMMA AnswersAre ==
    ASSUME FilesOk, NEW k \in Keys
    PROVE  /\ Answers(k) = {f \in Entries : f.whole /\ Key[f.value] = k}
           /\ \A f \in Discarded(k) : f \in Entries /\ ~f.whole
<1>1. \A f \in files : (f.whole => f.seems = Key[f.value]) /\ Key[f.value] \in Keys
  BY DiskAssumption DEF FilesOk
<1>2. None \notin Keys
  BY DiskAssumption
<1>3. ASSUME NEW f \in Entries
      PROVE  /\ f.whole /\ Key[f.value] = k => ReadEntry(f, k) = "Value"
             /\ ReadEntry(f, k) = "Value" => f.whole /\ f.seems = k
             /\ ReadEntry(f, k) = "Corrupt" => ~f.whole
  <2>1. f \in files
    BY DEF Entries
  <2>2. (f.whole => f.seems = Key[f.value]) /\ Key[f.value] \in Keys
    BY <1>1, <2>1
  <2>3. CASE f.seems = None
    BY <1>2, <2>2, <2>3 DEF ReadEntry
  <2>4. CASE f.seems # None /\ f.seems # k
    BY <2>2, <2>4 DEF ReadEntry
  <2>5. CASE f.seems = k /\ ~f.whole /\ f.seems # None
    BY <2>5 DEF ReadEntry
  <2>6. CASE f.seems = k /\ f.whole /\ f.seems # None
    BY <2>6 DEF ReadEntry
  <2> QED  BY <2>3, <2>4, <2>5, <2>6
<1>4. Answers(k) = {f \in Entries : f.whole /\ Key[f.value] = k}
  <2>1. \A f \in Entries : f \in Answers(k) => f.whole /\ Key[f.value] = k
    BY <1>1, <1>3 DEF Answers, EntriesMatchingHash, Entries
  <2>2. \A f \in Entries : f.whole /\ Key[f.value] = k => f \in Answers(k)
    BY <1>3 DEF Answers, EntriesMatchingHash
  <2>3. Answers(k) \subseteq Entries
    BY DEF Answers, EntriesMatchingHash
  <2> QED  BY <2>1, <2>2, <2>3
<1>5. \A f \in Discarded(k) : f \in Entries /\ ~f.whole
  BY <1>3 DEF Discarded, Examined, EntriesMatchingHash
<1> QED  BY <1>4, <1>5

\* Of several answers one is the newest.
LEMMA NewestIs ==
    ASSUME FilesOk, NEW fs \in SUBSET files, fs # {}
    PROVE  Newest(fs) # {} /\ Newest(fs) \subseteq fs
<1>1. PICK K : K = {f.n : f \in fs}
  OBVIOUS
<1>2. IsFiniteSet(fs) /\ \A f \in fs : f.n \in Nat
  BY FS_Subset DEF FilesOk
<1>3. IsFiniteSet(K) /\ K \in SUBSET Nat /\ K # {}
  BY <1>1, <1>2, NumbersFinite
<1>4. PICK m \in K : \A k \in K : k <= m
  BY <1>3, FiniteMaximum
<1>5. PICK f \in fs : f.n = m
  BY <1>1
<1>6. f \in Newest(fs)
  BY <1>1, <1>4, <1>5 DEF Newest
<1> QED  BY <1>6 DEF Newest

\* What a lookup finds is whole, its own and the last value stored.
LEMMA FoundIsCurrent ==
    ASSUME FilesOk, LiveOk, NEW k \in Keys, NEW f \in Newest(Answers(k)), Home = Active
    PROVE  /\ f.whole /\ Key[f.value] = k
           /\ f.value = past.latest[k] \/ past.latest[k] \in past.damaged
<1>1. Answers(k) = {g \in Entries : g.whole /\ Key[g.value] = k} /\ Live = Entries
  BY AnswersAre DEF Live, Entries
<1>2. f \in Live /\ f.whole /\ Key[f.value] = k /\ \A g \in Answers(k) : g.n <= f.n
  BY <1>1 DEF Newest
<1>3. Current(f)
  BY <1>2 DEF LiveOk
<1>4. ~Superseded(f)
  <2> SUFFICES ASSUME Superseded(f) PROVE FALSE
    OBVIOUS
  <2>1. PICK g \in Live : g.whole /\ g.n > f.n /\ Key[g.value] = Key[f.value]
    BY DEF Superseded
  <2>2. g \in Answers(k) /\ f.n \in Nat /\ g.n \in Nat
    BY <1>1, <1>2, <2>1 DEF FilesOk, Live
  <2> QED  BY <1>2, <2>1, <2>2
<1> QED  BY <1>2, <1>3, <1>4 DEF Current

LEMMA ReadKeeps ==
    ASSUME DiskInv, Read
    PROVE  DiskInv'
<1>1. PICK k : k = Head(commands).key
  OBVIOUS
<1>2. /\ worker.pc = "idle" /\ Taken /\ UNCHANGED <<store, shared, client, ui>>
      /\ commands # <<>> /\ Head(commands).kind = "Read"
  BY DEF Read, TakeNext, Taken
<1>3. k \in Keys
  <2>1. Head(commands) \in Elements(commands)
    BY <1>2, PopProperties DEF DiskInv, ClientsOk
  <2> QED  BY <1>1, <1>2, <2>1 DEF DiskInv, ClientsOk
<1>4. Opened /\ Home = Active /\ worker.pc # "mkdir"
  BY <1>2 DEF Opened, Home
<1>5. \A f \in Discarded(k) : ~f.whole
  BY <1>3, AnswersAre DEF DiskInv
<1>6. /\ files' \in SUBSET files /\ files \ files' \subseteq Discarded(k)
      /\ past' = past \/ (\E n : Faults(n))
  BY <1>1 DEF Read
<1>7. \E e : /\ worker' = [pc |-> "send", op |-> None, job |-> "idle", out |-> e]
             /\ e.kind = "Read" /\ e.id = k
             /\ \/ e.value = None
                \/ Answers(k) # {} /\ e.value \in Newest(Answers(k))
  <2>1. ASSUME NEW ok, NEW value, Result(ok, value),
               value = None \/ (Answers(k) # {} /\ value \in Newest(Answers(k)))
        PROVE  <1>7
    <3>1. PICK e : e = [kind |-> "Read", id |-> k, ok |-> ok, value |-> value]
      OBVIOUS
    <3>2. worker' = [pc |-> "send", op |-> None, job |-> "idle", out |-> e]
      BY <1>1, <2>1, <3>1 DEF Result, Answer, Event
    <3>3. e.kind = "Read" /\ e.id = k /\ e.value = value
      BY <3>1
    <3> QED  BY <2>1, <3>2, <3>3
  <2>2. CASE Result(FALSE, None)
    BY <2>1, <2>2
  <2>3. CASE Result(TRUE, IF Answers(k) = {} THEN None
                          ELSE CHOOSE f \in Newest(Answers(k)) : TRUE)
    <3>1. CASE Answers(k) = {}
      BY <2>1, <2>3, <3>1
    <3>2. CASE Answers(k) # {}
      <4>1. Answers(k) \in SUBSET files
        BY DEF Answers, EntriesMatchingHash, Entries
      <4>2. Newest(Answers(k)) # {}
        BY <3>2, <4>1, NewestIs DEF DiskInv
      <4>3. PICK v : v = CHOOSE f \in Newest(Answers(k)) : TRUE
        OBVIOUS
      <4>4. v \in Newest(Answers(k)) /\ Result(TRUE, v)
        BY <2>3, <3>2, <4>2, <4>3
      <4> QED  BY <2>1, <3>2, <4>4
    <3> QED  BY <3>1, <3>2
  <2> QED  BY <1>1, <2>2, <2>3 DEF Read
<1>8. PICK e : /\ worker' = [pc |-> "send", op |-> None, job |-> "idle", out |-> e]
               /\ e.kind = "Read" /\ e.id = k
               /\ \/ e.value = None
                  \/ Answers(k) # {} /\ e.value \in Newest(Answers(k))
  BY <1>7
<1>9. ReadsAreCurrent'
  <2>1. worker'.pc = "send" /\ worker'.out = e
    BY <1>8
  <2>2. SamePast
    BY <1>6, PastStays DEF DiskInv
  <2>3. CASE e.value = None
    BY <2>1, <2>3 DEF ReadsAreCurrent, VerifiedReads, NeverOlder, Reading
  <2>4. CASE e.value \in Newest(Answers(k))
    <3>1. /\ e.value.whole /\ Key[e.value.value] = k
          /\ e.value.value = past.latest[k] \/ past.latest[k] \in past.damaged
      BY <1>3, <1>4, <2>4, FoundIsCurrent DEF DiskInv
    <3> QED  BY <1>8, <2>1, <2>2, <3>1
             DEF ReadsAreCurrent, VerifiedReads, NeverOlder, Reading, ReadFile, SamePast
  <2> QED  BY <1>8, <2>3, <2>4
<1>10. \A f \in Live \ files' : f.whole => \A g \in Live : g.n < f.n => g \notin files'
  BY <1>5, <1>6 DEF Live
<1>11. "idle" \in {"idle", "exited"} /\ ("idle" = "idle" => Opened)
  BY <1>4
<1> QED  BY <1>2, <1>4, <1>6, <1>8, <1>9, <1>10, <1>11, RestKeeps

------------------------------------------------------------------------------
(* Writing.                                                                  *)

\* prune_for_write removes an entry only after the older ones, and what it
\* leaves has room for a record that fits at all.
LEMMA PrunedIs ==
    ASSUME FilesOk, StoreOk, NEW b \in Nat
    PROVE  /\ \A f \in Pruned(b), g \in Entries : g.n < f.n => g \in Pruned(b)
           /\ AvailableActiveBytes \in Nat
           /\ b <= AvailableActiveBytes => Bytes(Entries \ Pruned(b)) + b <= AvailableActiveBytes
<1>1. AvailableActiveBytes \in Nat
  BY DiskAssumption DEF AvailableActiveBytes, StoreOk
<1>2. \A f \in Entries : f \in files /\ f.n \in Nat
  BY DEF Entries, FilesOk
<1>3. \A fs \in SUBSET Entries : Sized(fs) /\ Bytes(fs) \in Nat
  BY FilesSized DEF Entries
<1>4. \A f, g \in Entries : g.n < f.n => Older(g) \subseteq Older(f)
  BY <1>2 DEF Older
<1>5. ASSUME NEW f \in Pruned(b), NEW g \in Entries, g.n < f.n
      PROVE  g \in Pruned(b)
  <2>1. f \in Entries /\ Bytes(Entries \ Older(f)) + b > AvailableActiveBytes
    BY DEF Pruned
  <2>2. PICK p, q : p = Entries \ Older(f) /\ q = Entries \ Older(g)
    OBVIOUS
  <2>3. p \in SUBSET q /\ q \in SUBSET Entries
    BY <1>4, <1>5, <2>1, <2>2
  <2>4. Bytes(p) <= Bytes(q) /\ Bytes(p) \in Nat /\ Bytes(q) \in Nat
    BY <1>3, <2>3, BytesSubset
  <2>5. Bytes(q) + b > AvailableActiveBytes
    BY <1>1, <2>1, <2>2, <2>4
  <2> QED  BY <2>2, <2>5 DEF Pruned
<1>6. ASSUME b <= AvailableActiveBytes
      PROVE  Bytes(Entries \ Pruned(b)) + b <= AvailableActiveBytes
  <2>1. PICK left : left = Entries \ Pruned(b)
    OBVIOUS
  <2>2. CASE left = {}
    <3>1. Bytes(left) = 0
      BY <2>2, BytesEmpty
    <3> QED  BY <1>6, <2>1, <3>1
  <2>3. CASE left # {}
    <3>1. PICK K : K = {f.n : f \in left}
      OBVIOUS
    <3>2. K \in SUBSET Nat /\ K # {}
      BY <1>2, <2>1, <2>3, <3>1
    <3>3. PICK m \in K : \A k \in K : m <= k
      BY <3>2, NatMinimum
    <3>4. PICK f \in left : f.n = m
      BY <3>1
    <3>5. PICK q : q = Entries \ Older(f)
      OBVIOUS
    <3>6. \A g \in left : ~(g.n < f.n)
      BY <1>2, <2>1, <3>1, <3>2, <3>3, <3>4
    <3>7. left \in SUBSET q /\ q \in SUBSET Entries
      BY <2>1, <3>5, <3>6 DEF Older
    <3>8. Bytes(left) <= Bytes(q) /\ Bytes(left) \in Nat /\ Bytes(q) \in Nat
      BY <1>3, <3>7, BytesSubset
    <3>9. ~(Bytes(q) + b > AvailableActiveBytes)
      BY <2>1, <3>5 DEF Pruned
    <3>10. Bytes(left) + b <= AvailableActiveBytes
      BY <1>1, <3>8, <3>9
    <3> QED  BY <2>1, <3>10
  <2> QED  BY <2>2, <2>3
<1> QED  BY <1>1, <1>5, <1>6

LEMMA WrittenRests ==
    ASSUME NEW w, NEW ok, Written(w, ok)
    PROVE  \E e : /\ worker' = [pc |-> "send", op |-> None, job |-> "idle", out |-> e]
                  /\ e.kind # "Read"
<1>1. PICK e : e = [kind |-> "Write", id |-> w, ok |-> ok, value |-> None]
  OBVIOUS
<1>2. worker' = [pc |-> "send", op |-> None, job |-> "idle", out |-> e] /\ e.kind # "Read"
  BY <1>1 DEF Written, Answer, Event
<1> QED  BY <1>2

\* A write that ends here removed only temporary files, or old entries first.
LEMMA WriteEnds ==
    ASSUME DiskInv, NEW w, NEW ok, Written(w, ok),
           worker.pc \in {"idle", "fill", "link", "unlink"},
           past' = past \/ (\E n : Faults(n)), Taken,
           UNCHANGED <<store, shared, client, ui>>, files' \in SUBSET files,
           \A f \in Live \ files' : f.whole => \A g \in Live : g.n < f.n => g \notin files'
    PROVE  DiskInv'
<1>1. PICK e : /\ worker' = [pc |-> "send", op |-> None, job |-> "idle", out |-> e]
               /\ e.kind # "Read"
  BY WrittenRests
<1>2. Opened /\ worker.pc # "mkdir"
  BY DEF Opened
<1>3. "idle" \in {"idle", "exited"} /\ ("idle" = "idle" => Opened)
  BY <1>2
<1>4. e.kind = "Read" => ReadsAreCurrent'
  BY <1>1
<1> QED  BY <1>1, <1>2, <1>3, <1>4, RestKeeps

\* Temporary files are no entries.
LEMMA LiveIsEntries ==
    ASSUME worker.pc # "mkdir"
    PROVE  Live = Entries /\ Home = Active /\ Live \cap Temporaries = {}
  BY DEF Live, Entries, Temporaries, Home

LEMMA WriteSkippedKeeps ==
    ASSUME DiskInv, WriteSkipped
    PROVE  DiskInv'
<1>1. /\ worker.pc = "idle" /\ Taken /\ UNCHANGED <<store, shared, client, ui, past>>
      /\ \E w : Written(w, TRUE)
      /\ files' = files \/ files' = files \ Temporaries
  BY DEF WriteSkipped, TakeNext, Taken
<1>2. files' \in SUBSET files /\ Live \ files' = {}
  BY <1>1, LiveIsEntries DEF Live
<1> QED  BY <1>1, <1>2, WriteEnds

LEMMA WriteCannotBeginKeeps ==
    ASSUME DiskInv, WriteCannotBegin
    PROVE  DiskInv'
<1>1. PICK c, w : c = Head(commands) /\ w = c.value
  OBVIOUS
<1>2. /\ worker.pc = "idle" /\ Taken /\ UNCHANGED <<store, shared, client, ui>>
      /\ commands # <<>> /\ c.kind = "Write" /\ Written(w, FALSE)
      /\ past' = past \/ (\E n : Faults(n))
  BY <1>1 DEF WriteCannotBegin, TakeNext, Taken
<1>3. w \in Writes /\ Size[w] \in Nat
  <2>1. c \in Elements(commands)
    BY <1>1, <1>2, PopProperties DEF DiskInv, ClientsOk
  <2> QED  BY <1>1, <1>2, <2>1, DiskAssumption DEF DiskInv, ClientsOk
<1>4. /\ Live = Entries /\ Live \cap Temporaries = {} /\ Live \subseteq files
      /\ \A f \in Live : f.n \in Nat
  BY <1>2, LiveIsEntries DEF Live, DiskInv, FilesOk
<1>5. \A f \in Pruned(Size[w]), g \in Entries : g.n < f.n => g \in Pruned(Size[w])
  BY <1>3, PrunedIs DEF DiskInv
<1>6. CASE \E gone \in SUBSET Temporaries : files' = files \ gone
  <2>1. files' \in SUBSET files /\ Live \ files' = {}
    BY <1>4, <1>6
  <2> QED  BY <1>2, <2>1, WriteEnds
<1>7. ASSUME NEW gone \in {Pruned(Size[w])} \cup {Older(f) : f \in Pruned(Size[w])},
             files' = (files \ Temporaries) \ gone
      PROVE  DiskInv'
  <2>1. files' \in SUBSET files /\ Live \ files' \subseteq gone
    BY <1>4, <1>7
  <2>2. \A f \in gone, g \in Live : f \in Live /\ g.n < f.n => g \in gone
    <3>1. CASE gone = Pruned(Size[w])
      BY <1>4, <1>5, <3>1
    <3>2. CASE \E h \in Pruned(Size[w]) : gone = Older(h)
      <4>1. PICK h \in Pruned(Size[w]) : gone = Older(h)
        BY <3>2
      <4>2. h \in Live /\ gone = {g \in Live : g.n < h.n}
        BY <1>4, <4>1 DEF Pruned, Older
      <4> QED  BY <1>4, <4>2
    <3> QED  BY <1>7, <3>1, <3>2
  <2>3. \A f \in Live \ files' : f.whole => \A g \in Live : g.n < f.n => g \notin files'
    BY <1>7, <2>1, <2>2
  <2> QED  BY <1>2, <2>1, <2>3, WriteEnds
<1>8. CASE files' = files
  <2>1. files' \in SUBSET files /\ Live \ files' = {}
    BY <1>4, <1>8
  <2> QED  BY <1>2, <2>1, WriteEnds
<1> QED  BY <1>1, <1>6, <1>7, <1>8 DEF WriteCannotBegin

\* A failure to fill, to link or to unlink, and the end of a write.
LEMMA WriteGivesUp ==
    ASSUME DiskInv, NEW ok, Written(worker.op, ok),
           worker.pc \in {"fill", "link", "unlink"},
           past' = past \/ (\E n : Faults(n)),
           UNCHANGED <<store, shared, commands, client, ui>>,
           files' = files \/ files' = files \ Temporaries
    PROVE  DiskInv'
<1>1. files' \in SUBSET files /\ Live \ files' = {}
  BY LiveIsEntries DEF Live
<1>2. Taken
  BY DEF Taken
<1> QED  BY <1>1, <1>2, WriteEnds

LEMMA OpenFailsKeeps ==
    ASSUME DiskInv, OpenFails
    PROVE  DiskInv'
<1>1. PICK e : e = [kind |-> "Ready", id |-> None, ok |-> FALSE, value |-> None]
  OBVIOUS
<1>2. worker' = [pc |-> "send", op |-> None, job |-> "exited", out |-> e] /\ e.kind # "Read"
  BY <1>1 DEF OpenFails, Answer, Event
<1>3. /\ worker.pc = "open" /\ Faults(1) /\ UNCHANGED <<store, shared, commands, client, ui>>
      /\ files' = files \/ (\E gone \in SUBSET (Temporaries \cup Retired) : files' = files \ gone)
  BY DEF OpenFails
<1>4. files' \in SUBSET files /\ Live \ files' = {}
  BY <1>3, LiveIsEntries DEF Live, Entries, Retired
<1>5. Taken /\ "exited" \in {"idle", "exited"} /\ ("exited" = "idle" => Opened)
      /\ (e.kind = "Read" => ReadsAreCurrent')
  BY <1>2, <1>3 DEF Taken
<1> QED  BY <1>2, <1>3, <1>4, <1>5, RestKeeps

LEMMA ClearCannotBeginKeeps ==
    ASSUME DiskInv, ClearCannotBegin
    PROVE  DiskInv'
<1>1. PICK e : e = [kind |-> "ClearFinished", id |-> Head(commands).id, ok |-> FALSE,
                    value |-> None]
  OBVIOUS
<1>2. worker' = [pc |-> "send", op |-> None, job |-> "idle", out |-> e] /\ e.kind # "Read"
  BY <1>1 DEF ClearCannotBegin, ClearFailed, Answer, Event
<1>3. /\ worker.pc = "idle" /\ Faults(1) /\ Taken
      /\ UNCHANGED <<files, store, shared, client, ui>>
  BY DEF ClearCannotBegin, TakeNext, Taken
<1>4. files' \in SUBSET files /\ Live \ files' = {} /\ Opened
  BY <1>3 DEF Live, Opened
<1>5. "idle" \in {"idle", "exited"} /\ ("idle" = "idle" => Opened)
      /\ (e.kind = "Read" => ReadsAreCurrent')
  BY <1>2, <1>4
<1> QED  BY <1>2, <1>3, <1>4, <1>5, RestKeeps

\* What the sums of an open store are for.
LEMMA CapacityFollows ==
    ASSUME FilesOk', SwapOk', StoreOk',
           Bytes(Pending') <= store'.pending, Bytes(HomeFiles') + store'.pending <= MaxBytes
    PROVE  CapacityOk'
<1>1. PICK fs, p, h : fs = (files \ Unaccounted)' /\ p = Pending' /\ h = HomeFiles'
  OBVIOUS
<1>2. Sized(files')
  BY DEF FilesOk, Sized
<1>3. p \in SUBSET files' /\ h \in SUBSET files' /\ fs \in SUBSET files'
  BY <1>1 DEF Pending, HomeFiles
<1>4. Sized(p) /\ Sized(h) /\ Sized(fs)
  BY <1>2, <1>3, BytesSubset
<1>5. fs \in SUBSET (p \cup h)
  <2> SUFFICES ASSUME NEW f \in fs, f \notin h PROVE f \in p
    OBVIOUS
  <2>1. f \in files' /\ f.dir # Home'
    BY <1>1 DEF HomeFiles
  <2>2. f.dir # Active
    BY <2>1 DEF SwapOk, Home
  <2>3. f.kind = "entry" /\ ~Stranded(f)'
    BY <1>1, <2>1, <2>2 DEF FilesOk, Unaccounted, Stranded
  <2> QED  BY <1>1, <2>1, <2>2, <2>3 DEF Pending
<1>6. PICK both : both = p \cup h
  OBVIOUS
<1>7. /\ Sized(both) /\ Bytes(both) \in Nat /\ Bytes(p) \in Nat /\ Bytes(h) \in Nat
      /\ Bytes(both) <= Bytes(p) + Bytes(h)
  BY <1>4, <1>6, BytesUnion
<1>8. Bytes(fs) <= Bytes(both) /\ Bytes(fs) \in Nat
  BY <1>5, <1>6, <1>7, BytesSubset
<1>9. store'.pending \in Nat /\ MaxBytes \in Nat
  BY DiskAssumption DEF StoreOk
<1>10. Bytes(p) <= store'.pending /\ Bytes(h) + store'.pending <= MaxBytes
  BY <1>1
<1>11. Bytes(fs) <= MaxBytes
  BY <1>7, <1>8, <1>9, <1>10
<1> QED  BY <1>1, <1>11 DEF CapacityOk, WithinCapacity

\* A finite set stays finite when a function is applied to its elements.
LEMMA ImageFinite ==
    ASSUME NEW S, IsFiniteSet(S), NEW m
    PROVE  IsFiniteSet({m[x] : x \in S})
<1> DEFINE g == [x \in S |-> m[x]]
           K == {m[x] : x \in S}
<1>1. g \in Surjection(S, K)
  BY DEF Surjection
<1> HIDE DEF g, K
<1>2. IsFiniteSet(K)
  BY <1>1, FS_Surjection
<1> QED  BY <1>2 DEF K

\* Files that keep their numbers and values keep their bytes.
LEMMA BytesSame ==
    ASSUME NEW fs, Sized(fs), NEW gs, Sized(gs), Pairs(fs) = Pairs(gs)
    PROVE  Bytes(fs) = Bytes(gs) /\ Bytes(fs) \in Nat
<1>1. Bytes(fs) <= Bytes(gs) /\ Bytes(gs) <= Bytes(fs) /\ Bytes(fs) \in Nat /\ Bytes(gs) \in Nat
  BY BytesGrow
<1> QED  BY <1>1

LEMMA WriteBeginsKeeps ==
    ASSUME DiskInv, WriteBegins
    PROVE  DiskInv'
<1>1. PICK c, w, left, t :
        /\ c = Head(commands) /\ w = c.value
        /\ left = Entries \ Pruned(Size[w])
        /\ t = [n |-> After({f.n : f \in files}), value |-> w, dir |-> Active, kind |-> "tmp",
                seems |-> Key[w], whole |-> "tmp" = "entry"]
  OBVIOUS
<1>2. /\ worker.pc = "idle" /\ commands # <<>> /\ c.kind = "Write" /\ Taken
      /\ UNCHANGED <<store, shared, client, ui, past>>
      /\ ~Refused(c) /\ ~NoRoom(c)
      /\ files' = Retired \cup left \cup {t}
      /\ worker' = [worker EXCEPT !.pc = "fill", !.op = w]
  BY <1>1 DEF WriteBegins, TakeNext, Taken, File
<1>3. /\ w \in Writes /\ Size[w] \in Nat /\ past.era[w] = past.clears
      /\ Size[w] <= AvailableActiveBytes /\ AvailableActiveBytes \in Nat
  <2>1. c \in Elements(commands)
    BY <1>1, <1>2, PopProperties DEF DiskInv, ClientsOk
  <2>2. w \in Writes /\ Valid(w, c.generation)
    BY <1>1, <1>2, <2>1 DEF DiskInv, ClientsOk
  <2>3. Size[w] \in Nat
    BY <2>2, DiskAssumption
  <2>4. AvailableActiveBytes \in Nat
    BY <2>3, PrunedIs DEF DiskInv
  <2> QED  BY <1>1, <1>2, <2>2, <2>3, <2>4 DEF Refused, NoRoom, Valid
<1>4. /\ worker'.pc = "fill" /\ worker'.op = w /\ DOMAIN worker' = {"pc", "op", "job", "out"}
  BY <1>2 DEF DiskInv, PcOk
<1>5. /\ t.n \in Nat /\ t.value = w /\ t.dir = Active /\ t.kind = "tmp" /\ t.seems = Key[w]
      /\ DOMAIN t = FileFields /\ \A f \in files : f.n < t.n
  <2>1. PICK K : K = {f.n : f \in files}
    OBVIOUS
  <2>2. K \in SUBSET Nat /\ IsFiniteSet(K)
    BY <2>1, NumbersFinite DEF DiskInv, FilesOk
  <2>3. After(K) \in Nat /\ \A k \in K : k < After(K)
    BY <2>2, AfterIs
  <2> QED  BY <1>1, <2>1, <2>3 DEF FileFields
<1>6. Live = Entries /\ Home = Active /\ Home' = Active /\ left \subseteq files
  BY <1>1, <1>2, <1>4, LiveIsEntries DEF Home, Entries
<1>7. /\ Live' = left /\ HomeFiles' = left \cup {t} /\ Pending' = Pending
      /\ Temporaries' = {t}
  <2>1. \A f \in left : f.dir = Active /\ f.kind = "entry"
    BY <1>1 DEF Entries
  <2>2. \A f : Stranded(f)' <=> Stranded(f)
    BY <1>2 DEF Stranded
  <2>3. Pending' = Pending
    BY <1>2, <1>5, <1>6, <2>1, <2>2 DEF Pending, Retired
  <2> QED  BY <1>2, <1>5, <1>6, <2>1, <2>3 DEF Live, HomeFiles, Retired, Temporaries
<1>8. FilesOk'
  <2>1. IsFiniteSet(files')
    <3>1. Retired \cup left \in SUBSET files
      BY <1>6 DEF Retired
    <3>2. IsFiniteSet(Retired \cup left)
      BY <3>1, FS_Subset DEF DiskInv, FilesOk
    <3> QED  BY <1>2, <3>2, FS_AddElement
  <2>2. \A f \in files' : f \in files \/ f = t
    BY <1>2, <1>6 DEF Retired
  <2>3. Active \in Nat
    BY DEF Active
  <2> QED  BY <1>3, <1>5, <2>1, <2>2, <2>3 DEF DiskInv, FilesOk
<1>9. SamePast /\ PastOk' /\ ClientsOk' /\ StoreOk' /\ PcOk'
  <2>1. SamePast /\ PastOk'
    BY <1>2, PastStays DEF DiskInv
  <2>2. ClientsOk'
    BY <1>2, ClientsStay DEF DiskInv
  <2>3. StoreOk'
    BY <1>2 DEF DiskInv, StoreOk
  <2> QED  BY <1>4, <2>1, <2>2, <2>3 DEF PcOk
<1>10. WritingOk' /\ SwapOk' /\ DeletingOk' /\ ReadsAreCurrent'
  <2>1. WritingOk'
    BY <1>2, <1>3, <1>4, <1>5, <1>6, <1>7 DEF WritingOk
  <2>2. ~Deleting'
    BY <1>4 DEF Deleting
  <2>3. ReadsAreCurrent'
    BY <1>4 DEF ReadsAreCurrent, VerifiedReads, NeverOlder, Reading
  <2> QED  BY <1>4, <2>1, <2>2, <2>3 DEF SwapOk, DeletingOk
<1>11. LiveOk'
  <2>1. \A f \in Pruned(Size[w]), g \in Entries : g.n < f.n => g \in Pruned(Size[w])
    BY <1>3, PrunedIs DEF DiskInv
  <2>2. Live' \subseteq Live /\ Live \ Live' \subseteq Pruned(Size[w])
    BY <1>1, <1>6, <1>7
  <2>3. \A f \in Live \ Live' : f.whole => \A g \in Live : g.n < f.n => g \notin Live'
    BY <1>1, <1>6, <1>7, <2>1, <2>2
  <2> QED  BY <1>9, <2>2, <2>3, LiveFewer DEF DiskInv
<1>12. CapacityOk'
  <2>1. /\ Bytes(Pending) <= store.pending /\ Bytes(HomeFiles) + store.pending <= MaxBytes
        /\ store.pending \in Nat /\ MaxBytes \in Nat
    BY <1>2, DiskAssumption DEF DiskInv, CapacityOk, Opened, StoreOk
  <2>2. Bytes(HomeFiles) \in Nat
    BY FilesSized DEF DiskInv, HomeFiles
  <2>3. AvailableActiveBytes = MaxBytes - store.pending
    BY <2>1, <2>2 DEF AvailableActiveBytes
  <2>4. Bytes(left) + Size[w] <= AvailableActiveBytes
    BY <1>1, <1>3, PrunedIs DEF DiskInv
  <2>5. Sized(left) /\ Bytes(left) \in Nat
    BY <1>6, FilesSized DEF DiskInv
  <2>6. Sized({t}) /\ Bytes({t}) = Size[w]
    BY <1>3, <1>5, BytesOfOne
  <2>7. Bytes(left \cup {t}) <= Bytes(left) + Size[w] /\ Bytes(left \cup {t}) \in Nat
    BY <2>5, <2>6, BytesUnion
  <2>8. Bytes(left \cup {t}) + store.pending <= MaxBytes
    BY <1>3, <2>1, <2>3, <2>4, <2>5, <2>7
  <2>9. Bytes(Pending') <= store'.pending /\ Bytes(HomeFiles') + store'.pending <= MaxBytes
    BY <1>2, <1>7, <2>1, <2>8
  <2> QED  BY <1>8, <1>9, <1>10, <2>9, CapacityFollows
<1> QED  BY <1>8, <1>9, <1>10, <1>11, <1>12 DEF DiskInv

\* A file of which one field is set.
Same(f, g) == DOMAIN g = FileFields /\ g.n = f.n /\ g.value = f.value

LEMMA Filled ==
    ASSUME NEW f, DOMAIN f = FileFields, NEW g, g = [f EXCEPT !.whole = TRUE]
    PROVE  Same(f, g) /\ g.dir = f.dir /\ g.kind = f.kind /\ g.seems = f.seems /\ g.whole = TRUE
  BY DEF FileFields, Same

LEMMA Linked ==
    ASSUME NEW f, DOMAIN f = FileFields, NEW g, g = [f EXCEPT !.kind = "entry"]
    PROVE  Same(f, g) /\ g.dir = f.dir /\ g.kind = "entry" /\ g.seems = f.seems /\ g.whole = f.whole
  BY DEF FileFields, Same

LEMMA Renamed ==
    ASSUME NEW f, DOMAIN f = FileFields, NEW d, NEW g, g = [f EXCEPT !.dir = d]
    PROVE  Same(f, g) /\ g.dir = d /\ g.kind = f.kind /\ g.seems = f.seems /\ g.whole = f.whole
  BY DEF FileFields, Same

\* While the store is open its sums hold as long as no bytes join either of them.
LEMMA CapacityKeeps ==
    ASSUME DiskInv, Opened, FilesOk', SwapOk', StoreOk', store' = store,
           Pending' \subseteq Pending, Pairs(HomeFiles') \subseteq Pairs(HomeFiles)
    PROVE  CapacityOk'
<1>1. PICK p, h : p = Pending' /\ h = HomeFiles'
  OBVIOUS
<1>2. Sized(files')
  BY DEF FilesOk, Sized
<1>3. h \in SUBSET files'
  BY <1>1 DEF HomeFiles
<1>4. Sized(Pending) /\ Sized(HomeFiles)
  BY FilesSized DEF DiskInv, Pending, HomeFiles
<1>5. Sized(h)
  BY <1>2, <1>3, BytesSubset
<1>6. Bytes(h) <= Bytes(HomeFiles) /\ Bytes(h) \in Nat /\ Bytes(HomeFiles) \in Nat
  BY <1>1, <1>4, <1>5, BytesGrow
<1>7. p \in SUBSET Pending
  BY <1>1
<1>8. Bytes(p) <= Bytes(Pending) /\ Bytes(p) \in Nat /\ Bytes(Pending) \in Nat
  BY <1>4, <1>7, BytesSubset
<1>9. /\ Bytes(Pending) <= store.pending /\ Bytes(HomeFiles) + store.pending <= MaxBytes
      /\ store.pending \in Nat /\ MaxBytes \in Nat
  BY DiskAssumption DEF DiskInv, CapacityOk, StoreOk
<1>10. Bytes(p) <= store.pending /\ Bytes(h) + store.pending <= MaxBytes
  BY <1>6, <1>8, <1>9
<1>11. Bytes(Pending') <= store'.pending /\ Bytes(HomeFiles') + store'.pending <= MaxBytes
  BY <1>1, <1>10
<1> QED  BY <1>11, CapacityFollows

LEMMA WriteFillsKeeps ==
    ASSUME DiskInv, WriteFills
    PROVE  DiskInv'
<1>1. worker.pc = "fill" /\ UNCHANGED <<store, shared, commands, client, ui>>
  BY DEF WriteFills
<1>2. CASE /\ files' = files \/ files' = files \ Temporaries
           /\ \E n : Faults(n)
           /\ Written(worker.op, FALSE)
  BY <1>1, <1>2, WriteGivesUp
<1>3. CASE /\ files' = (files \ Temporaries) \cup {[f EXCEPT !.whole = TRUE] : f \in Temporaries}
           /\ worker' = [worker EXCEPT !.pc = "link"]
           /\ past' = past
  <2>1. PICK m : m = [f \in files |-> [f EXCEPT !.whole = TRUE]]
    OBVIOUS
  <2>2. /\ Temporaries \subseteq files
        /\ files' = (files \ Temporaries) \cup {m[f] : f \in Temporaries}
    BY <1>3, <2>1 DEF Temporaries
  <2>3. \A f \in files : /\ Same(f, m[f])
                         /\ m[f].dir = f.dir /\ m[f].kind = f.kind /\ m[f].seems = f.seems
                         /\ m[f].whole = TRUE
    <3> TAKE f \in files
    <3>1. DOMAIN f = FileFields /\ m[f] = [f EXCEPT !.whole = TRUE]
      BY <2>1 DEF DiskInv, FilesOk
    <3> QED  BY <3>1, Filled
  <2>4. /\ worker'.pc = "link" /\ worker'.op = worker.op
        /\ DOMAIN worker' = {"pc", "op", "job", "out"}
    BY <1>3 DEF DiskInv, PcOk
  <2>5. Home = Active /\ Home' = Active /\ Opened
    BY <1>1, <2>4 DEF Home, Opened
  <2>6. FilesOk'
    <3>1. IsFiniteSet({m[f] : f \in Temporaries}) /\ IsFiniteSet(files \ Temporaries)
      <4>1. IsFiniteSet(Temporaries) /\ IsFiniteSet(files \ Temporaries)
        BY <2>2, FS_Subset DEF DiskInv, FilesOk
      <4> QED  BY <4>1, ImageFinite
    <3>2. IsFiniteSet(files')
      BY <2>2, <3>1, FS_Union
    <3>3. \A f \in Temporaries : f \in files /\ f.kind = "tmp"
      BY DEF Temporaries
    <3> QED  BY <2>2, <2>3, <3>2, <3>3 DEF DiskInv, FilesOk, Same
  <2>7. /\ Live' = Live /\ Pending' = Pending /\ Temporaries' = {m[f] : f \in Temporaries}
        /\ Pairs(HomeFiles') = Pairs(HomeFiles)
    <3>1. \A f \in Temporaries : m[f].dir = Active /\ m[f].kind = "tmp"
      BY <2>2, <2>3 DEF Temporaries
    <3>2. Live' = Live
      BY <2>2, <2>5, <3>1 DEF Live, Temporaries
    <3>3. \A f : Stranded(f)' <=> Stranded(f)
      BY <1>3 DEF Stranded
    <3>4. Pending' = Pending
      BY <2>2, <2>5, <3>1, <3>3 DEF Pending, Temporaries
    <3>5. Temporaries' = {m[f] : f \in Temporaries}
      BY <2>2, <3>1 DEF Temporaries
    <3>6. HomeFiles' = (HomeFiles \ Temporaries) \cup {m[f] : f \in Temporaries}
      BY <2>2, <2>5, <3>1 DEF HomeFiles
    <3>7. Temporaries \subseteq HomeFiles
      BY <2>5 DEF Temporaries, HomeFiles
    <3>8. \A f \in Temporaries : m[f].n = f.n /\ m[f].value = f.value
      BY <2>2, <2>3 DEF Same
    <3>9. Pairs(HomeFiles') \subseteq Pairs(HomeFiles)
      BY <3>6, <3>7, <3>8 DEF Pairs
    <3>10. Pairs(HomeFiles) \subseteq Pairs(HomeFiles')
      BY <3>6, <3>7, <3>8 DEF Pairs
    <3> QED  BY <3>2, <3>4, <3>5, <3>9, <3>10
  <2>8. SamePast /\ PastOk'
    BY <1>3, PastStays DEF DiskInv
  <2>9. ClientsOk' /\ StoreOk' /\ PcOk' /\ SwapOk' /\ DeletingOk' /\ ReadsAreCurrent'
    <3>1. ClientsOk'
      BY <1>1, <1>3, ClientsStay DEF DiskInv, Taken
    <3>2. ~Deleting'
      BY <2>4 DEF Deleting
    <3>3. StoreOk' /\ PcOk'
      BY <1>1, <2>4 DEF DiskInv, StoreOk, PcOk
    <3>4. SwapOk' /\ DeletingOk'
      BY <2>4, <3>2 DEF SwapOk, DeletingOk
    <3> QED  BY <2>4, <3>1, <3>3, <3>4 DEF ReadsAreCurrent, VerifiedReads, NeverOlder, Reading
  <2>10. WritingOk'
    BY <1>1, <1>3, <2>2, <2>3, <2>4, <2>7 DEF DiskInv, WritingOk, Same
  <2>11. LiveOk'
    BY <2>6, <2>7, <2>8, LiveFewer DEF DiskInv
  <2>12. CapacityOk'
    BY <1>1, <2>5, <2>6, <2>7, <2>9, CapacityKeeps
  <2> QED  BY <2>6, <2>8, <2>9, <2>10, <2>11, <2>12 DEF DiskInv
<1> QED  BY <1>2, <1>3 DEF WriteFills

\* The new entry is the newest, so it supersedes whatever its key had before.
LEMMA WriteLinksKeeps ==
    ASSUME DiskInv, WriteLinks
    PROVE  DiskInv'
<1>1. worker.pc = "link" /\ UNCHANGED <<store, shared, commands, client, ui>>
  BY DEF WriteLinks
<1>2. CASE /\ files' = files \/ files' = files \ Temporaries
           /\ \E n : Faults(n)
           /\ Written(worker.op, FALSE)
  BY <1>1, <1>2, WriteGivesUp
<1>3. CASE /\ files' = files \cup {[f EXCEPT !.kind = "entry"] : f \in Temporaries}
           /\ worker' = [worker EXCEPT !.pc = "unlink"]
           /\ past' = [past EXCEPT !.latest[Key[worker.op]] = worker.op]
  <2>1. PICK m : m = [f \in files |-> [f EXCEPT !.kind = "entry"]]
    OBVIOUS
  <2>2. /\ Temporaries \subseteq files
        /\ files' = files \cup {m[f] : f \in Temporaries}
    BY <1>3, <2>1 DEF Temporaries
  <2>3. \A f \in files : /\ Same(f, m[f])
                         /\ m[f].dir = f.dir /\ m[f].kind = "entry" /\ m[f].seems = f.seems
                         /\ m[f].whole = f.whole
    <3> TAKE f \in files
    <3>1. DOMAIN f = FileFields /\ m[f] = [f EXCEPT !.kind = "entry"]
      BY <2>1 DEF DiskInv, FilesOk
    <3> QED  BY <3>1, Linked
  <2>4. /\ worker'.pc = "unlink" /\ worker'.op = worker.op
        /\ DOMAIN worker' = {"pc", "op", "job", "out"}
    BY <1>3 DEF DiskInv, PcOk
  <2>5. Home = Active /\ Home' = Active /\ Opened
    BY <1>1, <2>4 DEF Home, Opened
  <2>6. PICK w : w = worker.op
    OBVIOUS
  <2>7. /\ w \in Writes /\ Key[w] \in Keys /\ past.era[w] = past.clears /\ Temporaries # {}
        /\ \A t \in Temporaries : /\ t.value = w /\ t.whole /\ t.dir = Active /\ t.kind = "tmp"
                                  /\ \A f \in Live : f.n < t.n
    BY <1>1, <2>6, DiskAssumption DEF DiskInv, WritingOk, Temporaries
  <2>8. /\ DOMAIN past' = PastFields
        /\ past'.clears = past.clears /\ past'.era = past.era /\ past'.damaged = past.damaged
        /\ past'.stranded = past.stranded
    BY <1>3 DEF DiskInv, PastOk, PastFields
  <2>9. /\ past'.latest \in [Keys -> Writes \cup {None}] /\ past'.latest[Key[w]] = w
        /\ \A k \in Keys : k # Key[w] => past'.latest[k] = past.latest[k]
    <3>1. past'.latest = [past.latest EXCEPT ![Key[w]] = w]
      BY <1>3, <2>6 DEF DiskInv, PastOk, PastFields
    <3> QED  BY <2>7, <3>1 DEF DiskInv, PastOk
  <2>10. FilesOk'
    <3>1. IsFiniteSet({m[f] : f \in Temporaries})
      <4>1. IsFiniteSet(Temporaries)
        BY <2>2, FS_Subset DEF DiskInv, FilesOk
      <4> QED  BY <4>1, ImageFinite
    <3>2. IsFiniteSet(files')
      BY <2>2, <3>1, FS_Union DEF DiskInv, FilesOk
    <3> QED  BY <2>2, <2>3, <2>7, <3>2 DEF DiskInv, FilesOk, Same
  <2>11. PICK new : new = {m[f] : f \in Temporaries}
    OBVIOUS
  <2>12. /\ new # {}
         /\ \A g \in new : /\ g.dir = Active /\ g.kind = "entry" /\ g.whole /\ g.value = w
                           /\ \A f \in Live : g.n > f.n
    <3>1. \A f \in Live, t \in Temporaries : f.n \in Nat /\ t.n \in Nat
      BY <2>2 DEF DiskInv, FilesOk, Live
    <3> QED  BY <2>2, <2>3, <2>7, <2>11, <3>1 DEF Same
  <2>13. /\ Live' = Live \cup new /\ Pending' = Pending
         /\ Pairs(HomeFiles') \subseteq Pairs(HomeFiles)
    <3>1. Live' = Live \cup new
      BY <2>2, <2>5, <2>11, <2>12 DEF Live
    <3>2. \A f : Stranded(f)' <=> Stranded(f)
      BY <2>8 DEF Stranded
    <3>3. Pending' = Pending
      BY <2>2, <2>5, <2>11, <2>12, <3>2 DEF Pending
    <3>4. HomeFiles' = HomeFiles \cup {m[f] : f \in Temporaries}
      BY <2>2, <2>5, <2>11, <2>12 DEF HomeFiles
    <3>5. Temporaries \subseteq HomeFiles
      BY <2>5 DEF Temporaries, HomeFiles
    <3>6. \A f \in Temporaries : m[f].n = f.n /\ m[f].value = f.value
      BY <2>2, <2>3 DEF Same
    <3>7. Pairs(HomeFiles') \subseteq Pairs(HomeFiles)
      BY <3>4, <3>5, <3>6 DEF Pairs
    <3> QED  BY <3>1, <3>3, <3>7
  <2>14. PastOk'
    BY <2>8, <2>9 DEF DiskInv, PastOk
  <2>15. /\ ClientsOk' /\ StoreOk' /\ PcOk' /\ WritingOk' /\ SwapOk' /\ DeletingOk'
         /\ ReadsAreCurrent'
    <3>1. ClientsOk'
      BY <1>1, <2>8, ClientsStay DEF DiskInv, Taken
    <3>2. ~Deleting'
      BY <2>4 DEF Deleting
    <3>3. StoreOk' /\ PcOk'
      BY <1>1, <2>4 DEF DiskInv, StoreOk, PcOk
    <3>4. WritingOk' /\ SwapOk' /\ DeletingOk'
      BY <2>4, <3>2 DEF WritingOk, SwapOk, DeletingOk
    <3> QED  BY <2>4, <3>1, <3>3, <3>4 DEF ReadsAreCurrent, VerifiedReads, NeverOlder, Reading
  <2>16. LiveOk'
    <3> SUFFICES ASSUME NEW f \in Live'
                 PROVE  (past.era[f.value] = past.clears /\ (f.whole => Current(f)))'
      BY DEF LiveOk
    <3>1. CASE f \in new
      BY <2>7, <2>8, <2>9, <2>12, <3>1 DEF Current
    <3>2. CASE f \in Live
      <4>1. past'.era[f.value] = past'.clears
        BY <2>8, <3>2 DEF DiskInv, LiveOk
      <4>2. Key[f.value] \in Keys
        BY <3>2, DiskAssumption DEF DiskInv, FilesOk, Live
      <4>3. ASSUME f.whole PROVE Current(f)'
        <5>1. CASE Key[f.value] = Key[w]
          <6>1. PICK g : g \in new
            BY <2>12
          <6>2. g \in Live' /\ g.whole /\ g.value = w /\ g.n > f.n
            BY <2>12, <2>13, <3>2, <6>1
          <6> QED  BY <2>9, <5>1, <6>2 DEF Current, Superseded
        <5>2. CASE Key[f.value] # Key[w]
          <6>1. past'.latest[Key[f.value]] = past.latest[Key[f.value]]
            BY <2>9, <4>2, <5>2
          <6>2. Current(f)
            BY <3>2, <4>3 DEF DiskInv, LiveOk
          <6>3. Superseded(f) => Superseded(f)'
            BY <2>13, <6>1 DEF Superseded
          <6> QED  BY <2>8, <6>1, <6>2, <6>3 DEF Current
        <5> QED  BY <5>1, <5>2
      <4> QED  BY <4>1, <4>3
    <3> QED  BY <2>13, <3>1, <3>2
  <2>17. CapacityOk'
    BY <1>1, <2>5, <2>10, <2>13, <2>15, CapacityKeeps
  <2> QED  BY <2>10, <2>14, <2>15, <2>16, <2>17 DEF DiskInv
<1> QED  BY <1>2, <1>3 DEF WriteLinks

LEMMA WriteUnlinksKeeps ==
    ASSUME DiskInv, WriteUnlinks
    PROVE  DiskInv'
<1>1. /\ worker.pc = "unlink" /\ UNCHANGED <<store, shared, commands, client, ui>>
      /\ files' = files \/ files' = files \ Temporaries
      /\ past' = past \/ (\E n : Faults(n))
      /\ Written(worker.op, TRUE) \/ Written(worker.op, FALSE)
  BY DEF WriteUnlinks
<1> QED  BY <1>1, WriteGivesUp

------------------------------------------------------------------------------
(* Clearing.                                                                 *)

\* A rename of directories changes nothing of the files a lookup would read.
LEMMA Moves ==
    ASSUME DiskInv, NEW m, files' = {m[f] : f \in files}, SamePast,
           \A f \in files : /\ Same(f, m[f]) /\ m[f].kind = f.kind
                            /\ m[f].seems = f.seems /\ m[f].whole = f.whole
                            /\ m[f].dir \in Nat /\ (m[f].dir = Home' <=> f.dir = Home)
    PROVE  /\ FilesOk' /\ LiveOk'
           /\ Pairs(Live') = Pairs(Live) /\ Pairs(HomeFiles') = Pairs(HomeFiles)
<1>1. FilesOk'
  <2>1. IsFiniteSet(files')
    BY ImageFinite DEF DiskInv, FilesOk
  <2> QED  BY <2>1 DEF DiskInv, FilesOk, Same
<1>2. Live' = {m[f] : f \in Live} /\ HomeFiles' = {m[f] : f \in HomeFiles}
  BY DEF Live, HomeFiles
<1>3. \A f \in files : m[f].n = f.n /\ m[f].value = f.value
  BY DEF Same
<1>4. Live \subseteq files /\ HomeFiles \subseteq files
  BY DEF Live, HomeFiles
<1>5. Pairs(Live') = Pairs(Live) /\ Pairs(HomeFiles') = Pairs(HomeFiles)
  BY <1>2, <1>3, <1>4 DEF Pairs
<1>6. LiveOk'
  <2> SUFFICES ASSUME NEW f \in Live
               PROVE  /\ past'.era[m[f].value] = past'.clears
                      /\ m[f].whole => Current(m[f])'
    BY <1>2 DEF LiveOk
  <2>1. f \in files /\ m[f].value = f.value /\ m[f].n = f.n /\ m[f].whole = f.whole
    BY <1>3, <1>4
  <2>2. past'.era[m[f].value] = past'.clears
    BY <2>1 DEF DiskInv, LiveOk, SamePast
  <2>3. ASSUME f.whole PROVE Current(m[f])'
    <3>1. Current(f)
      BY <2>3 DEF DiskInv, LiveOk
    <3>2. ASSUME Superseded(f) PROVE Superseded(m[f])'
      <4>1. PICK g \in Live : /\ g.whole /\ g.n > f.n /\ Key[g.value] = Key[f.value]
                              /\ g.value = past.latest[Key[f.value]]
        BY <3>2 DEF Superseded
      <4>2. /\ m[g] \in Live' /\ m[g].whole /\ m[g].n > m[f].n
            /\ Key[m[g].value] = Key[m[f].value] /\ m[g].value = past'.latest[Key[m[f].value]]
        BY <1>2, <1>3, <1>4, <2>1, <4>1 DEF SamePast
      <4> QED  BY <4>2 DEF Superseded
    <3> QED  BY <2>1, <3>1, <3>2 DEF Current, SamePast
  <2> QED  BY <2>1, <2>2, <2>3
<1> QED  BY <1>1, <1>5, <1>6

LEMMA FailedRests ==
    ASSUME NEW id, ClearFailed(id)
    PROVE  \E e : /\ worker' = [pc |-> "send", op |-> None, job |-> "idle", out |-> e]
                  /\ e.kind # "Read"
<1>1. PICK e : e = [kind |-> "ClearFinished", id |-> id, ok |-> FALSE, value |-> None]
  OBVIOUS
<1>2. worker' = [pc |-> "send", op |-> None, job |-> "idle", out |-> e] /\ e.kind # "Read"
  BY <1>1 DEF ClearFailed, Answer, Event
<1> QED  BY <1>2

LEMMA ClearBeginsKeeps ==
    ASSUME DiskInv, ClearBegins
    PROVE  DiskInv'
<1>1. PICK dir, op : /\ dir = After({f.dir : f \in files})
                     /\ op = [id |-> Head(commands).id, dir |-> dir, bytes |-> Bytes(Entries)]
  OBVIOUS
<1>2. /\ worker.pc = "idle" /\ Taken /\ UNCHANGED <<store, shared, client, ui, past>>
      /\ files' = Retired \cup {[f EXCEPT !.dir = dir] : f \in files \ Retired}
      /\ worker' = [worker EXCEPT !.pc = "mkdir", !.op = op]
  BY <1>1 DEF ClearBegins, TakeNext, Taken
<1>3. /\ worker'.pc = "mkdir" /\ worker'.op = op /\ op.dir = dir /\ op.bytes = Bytes(Entries)
      /\ DOMAIN worker' = {"pc", "op", "job", "out"}
  BY <1>1, <1>2 DEF DiskInv, PcOk
<1>4. dir \in Nat /\ dir # Active /\ \A f \in files : f.dir # dir
  <2>1. PICK K : K = {f.dir : f \in files}
    OBVIOUS
  <2>2. K \in SUBSET Nat /\ IsFiniteSet(K)
    BY <2>1, NumbersFinite DEF DiskInv, FilesOk
  <2>3. After(K) \in Nat /\ After(K) > 0 /\ \A k \in K : k < After(K)
    BY <2>2, AfterIs
  <2>4. \A k \in K : k \in Nat
    BY <2>2
  <2> QED  BY <1>1, <2>1, <2>3, <2>4 DEF Active
<1>5. Home = Active /\ Home' = dir /\ Opened /\ Live = Entries
  BY <1>2, <1>3, LiveIsEntries DEF Home, Opened
<1>6. PICK m : m = [f \in files |-> IF f \in Retired THEN f ELSE [f EXCEPT !.dir = dir]]
  OBVIOUS
<1>7. \A f \in files : /\ Same(f, m[f]) /\ m[f].kind = f.kind
                       /\ m[f].seems = f.seems /\ m[f].whole = f.whole
                       /\ m[f].dir = (IF f \in Retired THEN f.dir ELSE dir)
  <2> TAKE f \in files
  <2>1. DOMAIN f = FileFields
    BY DEF DiskInv, FilesOk
  <2>2. CASE f \in Retired
    BY <1>6, <2>1, <2>2 DEF Same
  <2>3. CASE f \notin Retired
    <3>1. m[f] = [f EXCEPT !.dir = dir]
      BY <1>6, <2>3
    <3> QED  BY <2>1, <2>3, <3>1, Renamed
  <2> QED  BY <2>2, <2>3
<1>8. files' = {m[f] : f \in files}
  BY <1>2, <1>6 DEF Retired
<1>9. \A f \in files : m[f].dir \in Nat /\ (m[f].dir = Home' <=> f.dir = Home) /\ m[f].dir # Active
  BY <1>4, <1>5, <1>7 DEF DiskInv, FilesOk, Retired
<1>10. SamePast /\ PastOk'
  BY <1>2, PastStays DEF DiskInv
<1>11. /\ FilesOk' /\ LiveOk'
       /\ Pairs(Live') = Pairs(Live) /\ Pairs(HomeFiles') = Pairs(HomeFiles)
  BY <1>7, <1>8, <1>9, <1>10, Moves
<1>12. Pending' = Pending
  <2>1. \A f : Stranded(f)' <=> Stranded(f)
    BY <1>2 DEF Stranded
  <2>2. \A f \in files : f \in Retired => m[f] = f /\ f.dir # dir
    BY <1>4, <1>6
  <2>3. \A f \in files : f \notin Retired => m[f].dir = dir /\ f.dir = Active
    BY <1>7 DEF Retired
  <2>4. \A f \in Retired : f \in files /\ f.dir # Active
    BY DEF Retired
  <2> QED  BY <1>5, <1>8, <2>1, <2>2, <2>3, <2>4 DEF Pending
<1>13. Bytes(Live') = Bytes(Live)
  <2>1. PICK l : l = Live'
    OBVIOUS
  <2>2. Sized(files')
    BY <1>11 DEF FilesOk, Sized
  <2>3. l \in SUBSET files'
    BY <2>1 DEF Live
  <2>4. Sized(l) /\ Sized(Live)
    BY <2>2, <2>3, BytesSubset, FilesSized DEF DiskInv, Live
  <2>5. Pairs(l) = Pairs(Live)
    BY <1>11, <2>1
  <2>6. Bytes(l) = Bytes(Live)
    BY <2>4, <2>5, BytesSame
  <2> QED  BY <2>1, <2>6
<1>14. SwapOk'
  <2>1. \A f \in files' : f.dir # Active
    BY <1>8, <1>9
  <2> QED  BY <1>3, <1>4, <1>5, <1>13, <2>1 DEF SwapOk
<1>15. /\ ClientsOk' /\ StoreOk' /\ PcOk' /\ WritingOk' /\ DeletingOk' /\ ReadsAreCurrent'
  <2>1. ClientsOk'
    BY <1>2, <1>10, ClientsStay DEF DiskInv
  <2>2. ~Deleting'
    BY <1>3 DEF Deleting
  <2>3. StoreOk' /\ PcOk'
    BY <1>2, <1>3 DEF DiskInv, StoreOk, PcOk
  <2>4. WritingOk' /\ DeletingOk'
    BY <1>3, <2>2 DEF WritingOk, DeletingOk
  <2> QED  BY <1>3, <2>1, <2>3, <2>4 DEF ReadsAreCurrent, VerifiedReads, NeverOlder, Reading
<1>16. CapacityOk'
  BY <1>2, <1>5, <1>11, <1>12, <1>14, <1>15, CapacityKeeps
<1> QED  BY <1>10, <1>11, <1>14, <1>15, <1>16 DEF DiskInv

LEMMA ClearCannotSwapKeeps ==
    ASSUME DiskInv, ClearCannotSwap
    PROVE  DiskInv'
<1>1. /\ worker.pc = "mkdir" /\ UNCHANGED <<store, shared, commands, client, ui>>
      /\ ClearFailed(worker.op.id)
  BY DEF ClearCannotSwap
<1>2. PICK e : /\ worker' = [pc |-> "send", op |-> None, job |-> "idle", out |-> e]
               /\ e.kind # "Read"
  BY <1>1, FailedRests
<1>3. /\ PcOk' /\ WritingOk' /\ SwapOk' /\ DeletingOk' /\ Home' = Active
      /\ worker'.pc = "send" /\ worker'.out = e
  BY <1>2, AnswerRests
<1>4. PICK dir : dir = worker.op.dir
  OBVIOUS
<1>5. /\ Home = dir /\ Opened /\ dir # Active
      /\ \A f \in files : f.dir # Active
  BY <1>1, <1>4 DEF Home, Opened, DiskInv, SwapOk
<1>6. StoreOk' /\ ReadsAreCurrent' /\ Taken
  <2>1. StoreOk' /\ Taken
    BY <1>1 DEF DiskInv, StoreOk, Taken
  <2> QED  BY <1>2, <1>3, <2>1 DEF ReadsAreCurrent, VerifiedReads, NeverOlder, Reading
<1>7. CASE Faults(1) /\ files' = Moved(worker.op.dir, Active)
  <2>1. PICK m : m = [f \in files |-> IF f.dir = dir THEN [f EXCEPT !.dir = Active] ELSE f]
    OBVIOUS
  <2>2. \A f \in files : /\ Same(f, m[f]) /\ m[f].kind = f.kind
                         /\ m[f].seems = f.seems /\ m[f].whole = f.whole
                         /\ m[f].dir = (IF f.dir = dir THEN Active ELSE f.dir)
    <3> TAKE f \in files
    <3>1. DOMAIN f = FileFields
      BY DEF DiskInv, FilesOk
    <3>2. CASE f.dir # dir
      BY <2>1, <3>1, <3>2 DEF Same
    <3>3. CASE f.dir = dir
      <4>1. m[f] = [f EXCEPT !.dir = Active]
        BY <2>1, <3>3
      <4> QED  BY <3>1, <3>3, <4>1, Renamed
    <3> QED  BY <3>2, <3>3
  <2>3. files' = {m[f] : f \in files}
    BY <1>4, <1>7, <2>1 DEF Moved
  <2>4. \A f \in files : m[f].dir \in Nat /\ (m[f].dir = Home' <=> f.dir = Home)
    BY <1>3, <1>5, <2>2 DEF DiskInv, FilesOk, Active
  <2>5. SamePast /\ PastOk'
    BY <1>7, PastStays DEF DiskInv
  <2>6. FilesOk' /\ LiveOk' /\ Pairs(HomeFiles') = Pairs(HomeFiles)
    BY <2>2, <2>3, <2>4, <2>5, Moves
  <2>7. Pending' = Pending
    <3>1. \A f : Stranded(f)' <=> Stranded(f)
      BY <2>5 DEF Stranded, SamePast
    <3>2. \A f \in files : f.dir # dir => m[f] = f
      BY <2>1
    <3>3. \A f \in files : f.dir = dir => m[f].dir = Active
      BY <2>2
    <3> QED  BY <1>3, <1>5, <2>3, <3>1, <3>2, <3>3 DEF Pending
  <2>8. ClientsOk'
    BY <1>1, <1>6, <2>5, ClientsStay DEF DiskInv, SamePast
  <2>9. CapacityOk'
    BY <1>1, <1>3, <1>5, <1>6, <2>6, <2>7, CapacityKeeps
  <2> QED  BY <1>3, <1>6, <2>5, <2>6, <2>8, <2>9 DEF DiskInv
<1>8. CASE /\ past' = [past EXCEPT !.trouble = @ + 2,
                           !.stranded = @ \cup {f \in files : f.dir = worker.op.dir}]
           /\ files' = files
  <2>1. /\ DOMAIN past' = PastFields /\ past'.clears = past.clears /\ past'.era = past.era
        /\ past'.latest = past.latest /\ past'.damaged = past.damaged
        /\ past'.stranded = past.stranded \cup {f \in files : f.dir = dir}
    BY <1>4, <1>8 DEF DiskInv, PastOk, PastFields
  <2>2. PastOk'
    BY <1>5, <2>1 DEF DiskInv, PastOk
  <2>3. Live' = {} /\ HomeFiles' = {}
    BY <1>3, <1>5, <1>8 DEF Live, HomeFiles
  <2>4. Pending' \subseteq Pending
    <3> SUFFICES ASSUME NEW f \in Pending' PROVE f \in Pending
      OBVIOUS
    <3>1. f \in files /\ f.dir # Active /\ f.kind = "entry" /\ ~Stranded(f)'
      BY <1>8 DEF Pending
    <3>2. f.dir # dir
      BY <2>1, <3>1 DEF Stranded
    <3>3. ~Stranded(f)
      BY <2>1, <3>1 DEF Stranded
    <3> QED  BY <1>5, <3>1, <3>2, <3>3 DEF Pending
  <2>5. FilesOk' /\ LiveOk'
    BY <1>8, <2>3 DEF DiskInv, FilesOk, LiveOk
  <2>6. ClientsOk'
    BY <1>1, <1>6, <2>1, ClientsStay DEF DiskInv
  <2>7. Pairs(HomeFiles') \subseteq Pairs(HomeFiles)
    BY <2>3 DEF Pairs
  <2>8. CapacityOk'
    BY <1>1, <1>3, <1>5, <1>6, <2>4, <2>5, <2>7, CapacityKeeps
  <2> QED  BY <1>3, <1>6, <2>2, <2>5, <2>6, <2>8 DEF DiskInv
<1> QED  BY <1>7, <1>8 DEF ClearCannotSwap

\* From here the retired directory's bytes are pending; its files were the ones a
\* lookup would read, and what was captured before carries an older generation.
LEMMA ClearSwapsKeeps ==
    ASSUME DiskInv, ClearSwaps
    PROVE  DiskInv'
<1>1. /\ worker.pc = "mkdir" /\ UNCHANGED <<files, shared, commands, client, ui>>
      /\ store' = [generation |-> store.generation + 1,
                   pending |-> store.pending + worker.op.bytes]
      /\ worker' = [worker EXCEPT !.pc = "publish"]
      /\ past' = [past EXCEPT !.clears = @ + 1, !.latest = [k \in Keys |-> None]]
  BY DEF ClearSwaps, AddPending
<1>2. PICK dir, bytes : dir = worker.op.dir /\ bytes = worker.op.bytes
  OBVIOUS
<1>3. /\ worker'.pc = "publish" /\ worker'.op.dir = dir /\ worker'.op.bytes = bytes
      /\ DOMAIN worker' = {"pc", "op", "job", "out"}
  BY <1>1, <1>2 DEF DiskInv, PcOk
<1>4. /\ Home = dir /\ Opened /\ dir \in Nat /\ dir # Active /\ Home' = Active
      /\ bytes = Bytes(Live) /\ \A f \in files : f.dir # Active
  BY <1>1, <1>2, <1>3 DEF Home, Opened, DiskInv, SwapOk
<1>5. /\ DOMAIN past' = PastFields /\ past'.clears = past.clears + 1 /\ past'.era = past.era
      /\ past'.latest = [k \in Keys |-> None] /\ past'.stranded = past.stranded
  BY <1>1 DEF DiskInv, PastOk, PastFields
<1>6. PastOk'
  BY <1>5 DEF DiskInv, PastOk
<1>7. /\ DOMAIN store' = {"generation", "pending"} /\ store'.generation = store.generation + 1
      /\ store'.pending = store.pending + bytes
  BY <1>1, <1>2
<1>8. /\ store.generation \in Nat /\ store.pending \in Nat /\ shared \in Nat
      /\ shared <= store.generation /\ MaxBytes \in Nat
  BY DiskAssumption DEF DiskInv, StoreOk
<1>9. /\ Bytes(Live) \in Nat /\ Bytes(HomeFiles) \in Nat /\ Bytes(Pending) \in Nat
      /\ Bytes(Live) <= Bytes(HomeFiles) /\ Sized(Live) /\ Sized(Pending)
  <2>1. Sized(HomeFiles) /\ Live \in SUBSET HomeFiles /\ Sized(Pending)
    BY FilesSized DEF DiskInv, Live, HomeFiles, Pending
  <2> QED  BY <2>1, BytesSubset
<1>10. Bytes(Pending) <= store.pending /\ Bytes(HomeFiles) + store.pending <= MaxBytes
  BY <1>4 DEF DiskInv, CapacityOk
<1>11. StoreOk'
  <2>1. shared' = shared
    BY <1>1
  <2>2. store'.generation \in Nat /\ store'.pending \in Nat /\ shared <= store'.generation
    BY <1>4, <1>7, <1>8, <1>9
  <2> QED  BY <1>7, <1>8, <2>1, <2>2 DEF StoreOk
<1>12. ClientsOk'
  <2>1. \A w : \A g \in Nat : Valid(w, g) => Valid(w, g)'
    BY <1>7, <1>8 DEF Valid
  <2>2. commands \in Seq(CommandSet)
    BY DEF DiskInv, ClientsOk
  <2>3. \A c \in Elements(commands) : c.generation \in Nat
    <3> TAKE c \in Elements(commands)
    <3>1. c \in CommandSet
      BY <2>2 DEF Elements
    <3> QED  BY <3>1 DEF CommandSet
  <2>4. commands' = commands /\ client' = client /\ ui' = ui
    BY <1>1
  <2>5. \A c \in Elements(commands) :
          /\ c.kind = "Write" => c.value \in Writes /\ Valid(c.value, c.generation)'
          /\ c.kind = "Read" => c.key \in Keys
    BY <2>1, <2>3 DEF DiskInv, ClientsOk
  <2>6. \A w \in Writes : /\ DOMAIN client'[w] = {"state", "generation"}
                          /\ client'[w].generation \in Nat
                          /\ client'[w].state = "captured" => Valid(w, client[w].generation)'
    <3> TAKE w \in Writes
    <3>1. PICK at : at = client[w]
      OBVIOUS
    <3>2. /\ DOMAIN at = {"state", "generation"} /\ at.generation \in Nat
          /\ at.state = "captured" => Valid(w, at.generation)
      BY <3>1 DEF DiskInv, ClientsOk
    <3>3. at.state = "captured" => Valid(w, at.generation)'
      BY <2>1, <3>2
    <3>4. client'[w] = at
      BY <2>4, <3>1
    <3> QED  BY <3>2, <3>3, <3>4
  <2> QED  BY <2>2, <2>4, <2>5, <2>6 DEF DiskInv, ClientsOk
<1>13. FilesOk' /\ PcOk' /\ WritingOk' /\ SwapOk' /\ ReadsAreCurrent'
  BY <1>1, <1>3 DEF DiskInv, FilesOk, PcOk, WritingOk, SwapOk,
                    ReadsAreCurrent, VerifiedReads, NeverOlder, Reading
<1>14. Live' = {} /\ HomeFiles' = {}
  BY <1>1, <1>4 DEF Live, HomeFiles
<1>15. PICK all, old, rest : /\ all = Pending'
                             /\ old = {f \in all : f.dir = dir}
                             /\ rest = {f \in all : f.dir # dir}
  OBVIOUS
<1>16. old \in SUBSET Live /\ rest \in SUBSET Pending
  <2>1. \A f : Stranded(f)' <=> Stranded(f)
    BY <1>5 DEF Stranded
  <2> QED  BY <1>1, <1>4, <1>15, <2>1 DEF Live, Pending
<1>17. /\ Sized(old) /\ Sized(rest) /\ Bytes(old) \in Nat /\ Bytes(rest) \in Nat
       /\ Bytes(old) <= bytes /\ Bytes(rest) <= store.pending
  <2>1. Sized(old) /\ Bytes(old) \in Nat /\ Bytes(old) <= Bytes(Live)
    BY <1>9, <1>16, BytesSubset
  <2>2. Sized(rest) /\ Bytes(rest) \in Nat /\ Bytes(rest) <= Bytes(Pending)
    BY <1>9, <1>16, BytesSubset
  <2> QED  BY <1>4, <1>8, <1>9, <1>10, <2>1, <2>2
<1>18. all = old \cup rest
  BY <1>15
<1>19. Bytes(all) <= Bytes(old) + Bytes(rest) /\ Bytes(all) \in Nat
  BY <1>17, <1>18, BytesUnion
<1>20. DeletingOk'
  <2>1. Bytes(rest) + bytes <= store'.pending
    BY <1>4, <1>7, <1>8, <1>9, <1>17
  <2>2. worker'.op.dir # Active /\ worker'.op.bytes \in Nat
    BY <1>3, <1>4, <1>9
  <2>3. Bytes({f \in Pending' : f.dir = worker'.op.dir}) <= worker'.op.bytes
    BY <1>3, <1>15, <1>17
  <2>4. Bytes({f \in Pending' : f.dir # worker'.op.dir}) + worker'.op.bytes <= store'.pending
    BY <1>3, <1>15, <2>1
  <2> QED  BY <2>2, <2>3, <2>4 DEF DeletingOk
<1>21. CapacityOk'
  <2>1. Bytes(HomeFiles') = 0
    BY <1>14, BytesEmpty
  <2>2. Bytes(all) <= store'.pending /\ 0 + store'.pending <= MaxBytes
    BY <1>4, <1>7, <1>8, <1>9, <1>10, <1>17, <1>19
  <2>3. Bytes(Pending') <= store'.pending /\ Bytes(HomeFiles') + store'.pending <= MaxBytes
    BY <1>15, <2>1, <2>2
  <2> QED  BY <1>11, <1>13, <2>3, CapacityFollows
<1>22. LiveOk'
  BY <1>14 DEF LiveOk
<1> QED  BY <1>6, <1>11, <1>12, <1>13, <1>20, <1>21, <1>22 DEF DiskInv

LEMMA ClearPublishesKeeps ==
    ASSUME DiskInv, ClearPublishes
    PROVE  DiskInv'
<1>1. /\ worker.pc = "publish" /\ shared' = store.generation
      /\ UNCHANGED <<files, store, commands, client, ui, past>>
  BY DEF ClearPublishes
<1>2. PICK e : e = [kind |-> "ClearStarted", id |-> worker.op.id, ok |-> TRUE, value |-> None]
  OBVIOUS
<1>3. worker' = [pc |-> "send", op |-> worker.op, job |-> "delete", out |-> e]
  BY <1>2 DEF ClearPublishes, Answer, Event
<1>4. /\ worker'.pc = "send" /\ worker'.op = worker.op /\ worker'.job = "delete"
      /\ worker'.out = e /\ e.kind # "Read" /\ DOMAIN worker' = {"pc", "op", "job", "out"}
  BY <1>2, <1>3
<1>5. Home = Active /\ Home' = Active /\ Opened /\ Deleting
  BY <1>1, <1>4 DEF Home, Opened, Deleting
<1>6. Live' = Live /\ HomeFiles' = HomeFiles /\ Pending' = Pending
  BY <1>1, <1>5 DEF Live, HomeFiles, Pending, Stranded
<1>7. FilesOk' /\ PastOk' /\ PcOk' /\ WritingOk' /\ SwapOk' /\ ReadsAreCurrent'
  BY <1>1, <1>4 DEF DiskInv, FilesOk, PastOk, PcOk, WritingOk, SwapOk,
                    ReadsAreCurrent, VerifiedReads, NeverOlder, Reading
<1>8. StoreOk'
  BY <1>1 DEF DiskInv, StoreOk
<1>9. ClientsOk'
  BY <1>1, ClientsStay DEF DiskInv, Taken
<1>10. DeletingOk'
  BY <1>1, <1>4, <1>5, <1>6 DEF DiskInv, DeletingOk
<1>11. CapacityOk'
  <2>1. Bytes(Pending) <= store.pending /\ Bytes(HomeFiles) + store.pending <= MaxBytes
    BY <1>5 DEF DiskInv, CapacityOk
  <2>2. Bytes(Pending') <= store'.pending /\ Bytes(HomeFiles') + store'.pending <= MaxBytes
    BY <1>1, <1>6, <2>1
  <2> QED  BY <1>7, <1>8, <2>2, CapacityFollows
<1>12. LiveOk'
  BY <1>1, <1>6 DEF DiskInv, LiveOk, Current, Superseded
<1> QED  BY <1>7, <1>8, <1>9, <1>10, <1>11, <1>12 DEF DiskInv

LEMMA ClearFinishesKeeps ==
    ASSUME DiskInv, ClearFinishes
    PROVE  DiskInv'
<1>1. worker.pc = "delete" /\ UNCHANGED <<shared, commands, client, ui>>
  BY DEF ClearFinishes
<1>2. PICK op, old : op = worker.op /\ old = {f \in files : f.dir = op.dir}
  OBVIOUS
<1>3. Home = Active /\ Opened /\ Deleting /\ Taken /\ worker.pc # "mkdir"
  BY <1>1 DEF Home, Opened, Deleting, Taken
<1>4. op.dir # Active /\ op.bytes \in Nat /\ Live \cap old = {} /\ Live \subseteq files
  BY <1>2, <1>3 DEF DiskInv, DeletingOk, Live
<1>5. CASE /\ \E gone \in SUBSET old : files' = files \ gone
           /\ Faults(1) /\ ClearFailed(worker.op.id) /\ store' = store
  <2>1. files' \in SUBSET files /\ Live \ files' = {}
    BY <1>4, <1>5
  <2>2. PICK e : /\ worker' = [pc |-> "send", op |-> None, job |-> "idle", out |-> e]
                 /\ e.kind # "Read"
    BY <1>5, FailedRests
  <2>3. "idle" \in {"idle", "exited"} /\ ("idle" = "idle" => Opened)
        /\ (e.kind = "Read" => ReadsAreCurrent')
    BY <1>3, <2>2
  <2> QED  BY <1>1, <1>3, <1>5, <2>1, <2>2, <2>3, RestKeeps
<1>6. CASE /\ files' = files \ old
           /\ store' = [store EXCEPT !.pending = IF op.bytes > @ THEN 0 ELSE @ - op.bytes]
           /\ Answer(Event("ClearFinished", worker.op.id, TRUE, None), "idle")
           /\ past' = past
  <2>1. PICK e : e = [kind |-> "ClearFinished", id |-> op.id, ok |-> TRUE, value |-> None]
    OBVIOUS
  <2>2. worker' = [pc |-> "send", op |-> None, job |-> "idle", out |-> e] /\ e.kind # "Read"
    BY <1>2, <1>6, <2>1 DEF Answer, Event
  <2>3. "idle" \in {"idle", "exited"}
    OBVIOUS
  <2>4. /\ PcOk' /\ WritingOk' /\ SwapOk' /\ DeletingOk' /\ Home' = Active
        /\ worker'.pc = "send" /\ worker'.out = e
    BY <2>2, <2>3, AnswerRests
  <2>5. SamePast /\ PastOk'
    BY <1>6, PastStays DEF DiskInv
  <2>6. files' \in SUBSET files /\ Live \ files' = {}
    BY <1>4, <1>6
  <2>7. /\ FilesOk' /\ WithinCapacity' /\ LiveOk'
        /\ Pending' \subseteq Pending /\ Bytes(HomeFiles') <= Bytes(HomeFiles)
        /\ Bytes(Pending') \in Nat /\ Bytes(HomeFiles') \in Nat /\ Bytes(HomeFiles) \in Nat
    BY <1>3, <2>4, <2>5, <2>6, FewerFiles DEF DiskInv, CapacityOk
  <2>8. PICK rest, p : rest = {f \in Pending : f.dir # op.dir} /\ p = Pending'
    OBVIOUS
  <2>9. p \in SUBSET rest
    <3>1. \A f \in p : f \in Pending /\ f \in files /\ f \notin old
      BY <1>6, <2>7, <2>8 DEF Pending
    <3> QED  BY <1>2, <2>8, <3>1
  <2>10. Bytes(p) <= Bytes(rest) /\ Bytes(rest) \in Nat
    <3>1. rest \in SUBSET files
      BY <2>8 DEF Pending
    <3>2. Sized(rest)
      BY <3>1, FilesSized DEF DiskInv
    <3> QED  BY <2>9, <3>2, BytesSubset
  <2>11. Bytes(rest) + op.bytes <= store.pending
    BY <1>2, <1>3, <2>8 DEF DiskInv, DeletingOk
  <2>12. /\ store.pending \in Nat /\ MaxBytes \in Nat
         /\ Bytes(HomeFiles) + store.pending <= MaxBytes
    BY <1>3, DiskAssumption DEF DiskInv, StoreOk, CapacityOk
  <2>13. /\ DOMAIN store' = {"generation", "pending"} /\ store'.generation = store.generation
         /\ store'.pending = IF op.bytes > store.pending THEN 0 ELSE store.pending - op.bytes
    BY <1>6 DEF DiskInv, StoreOk
  <2>14. store'.pending = store.pending - op.bytes /\ store'.pending \in Nat
    BY <1>4, <2>10, <2>11, <2>12, <2>13
  <2>15. StoreOk'
    BY <1>1, <2>13, <2>14 DEF DiskInv, StoreOk
  <2>16. ClientsOk'
    BY <1>1, <1>3, <1>6, <2>13, ClientsStay DEF DiskInv
  <2>17. CapacityOk'
    <3>1. Bytes(p) <= store'.pending
      BY <1>4, <2>7, <2>8, <2>10, <2>11, <2>12, <2>14
    <3>2. Bytes(HomeFiles') + store'.pending <= MaxBytes
      BY <1>4, <2>7, <2>12, <2>14
    <3> QED  BY <2>7, <2>8, <3>1, <3>2 DEF CapacityOk
  <2>18. ReadsAreCurrent'
    BY <2>2, <2>4 DEF ReadsAreCurrent, VerifiedReads, NeverOlder, Reading
  <2> QED  BY <2>4, <2>5, <2>7, <2>15, <2>16, <2>17, <2>18 DEF DiskInv
<1>7. \/ /\ \E gone \in SUBSET old : files' = files \ gone
         /\ Faults(1) /\ ClearFailed(worker.op.id) /\ store' = store
      \/ /\ files' = files \ old
         /\ store' = [store EXCEPT !.pending = IF op.bytes > @ THEN 0 ELSE @ - op.bytes]
         /\ Answer(Event("ClearFinished", worker.op.id, TRUE, None), "idle")
         /\ past' = past
  BY <1>2 DEF ClearFinishes
<1> QED  BY <1>5, <1>6, <1>7

------------------------------------------------------------------------------
(* Starting, answering, crashes and damage.                                  *)

LEMMA SendKeeps ==
    ASSUME DiskInv, Send
    PROVE  DiskInv'
<1>1. /\ worker.pc = "send"
      /\ UNCHANGED <<files, store, shared, commands, client, ui, past>>
      /\ worker' = [worker EXCEPT !.pc = worker.job, !.job = None, !.out = None]
  BY DEF Send
<1>2. /\ worker.job \in {"idle", "exited", "delete"} /\ worker'.pc = worker.job
      /\ worker'.op = worker.op /\ DOMAIN worker' = {"pc", "op", "job", "out"}
  BY <1>1 DEF DiskInv, PcOk
<1>3. Home = Active /\ Home' = Active /\ (Opened' => Opened) /\ (Deleting' => Deleting)
  BY <1>1, <1>2 DEF Home, Opened, Deleting
<1>4. Live' = Live /\ HomeFiles' = HomeFiles /\ Pending' = Pending
  BY <1>1, <1>3 DEF Live, HomeFiles, Pending, Stranded
<1>5. FilesOk' /\ PastOk' /\ StoreOk' /\ PcOk' /\ WritingOk' /\ SwapOk' /\ ReadsAreCurrent'
  BY <1>1, <1>2 DEF DiskInv, FilesOk, PastOk, StoreOk, PcOk, WritingOk, SwapOk,
                    ReadsAreCurrent, VerifiedReads, NeverOlder, Reading
<1>6. ClientsOk'
  BY <1>1, ClientsStay DEF DiskInv, Taken
<1>7. DeletingOk'
  BY <1>1, <1>2, <1>3, <1>4 DEF DiskInv, DeletingOk
<1>8. CapacityOk'
  <2>1. WithinCapacity'
    BY <1>1 DEF DiskInv, CapacityOk, WithinCapacity, Unaccounted
  <2> QED  BY <1>1, <1>3, <1>4, <2>1 DEF DiskInv, CapacityOk
<1>9. LiveOk'
  BY <1>1, <1>4 DEF DiskInv, LiveOk, Current, Superseded
<1> QED  BY <1>5, <1>6, <1>7, <1>8, <1>9 DEF DiskInv

\* Opening keeps the entries of the active directory, which are accounted for.
LEMMA OpenKeeps ==
    ASSUME DiskInv, Open
    PROVE  DiskInv'
<1>1. /\ worker.pc = "open" /\ UNCHANGED <<commands, client, ui, past>>
      /\ files' = Entries /\ store' = [generation |-> 0, pending |-> 0] /\ shared' = 0
  BY DEF Open
<1>2. PICK e : e = [kind |-> "Ready", id |-> None, ok |-> TRUE, value |-> None]
  OBVIOUS
<1>3. worker' = [pc |-> "send", op |-> None, job |-> "idle", out |-> e] /\ e.kind # "Read"
  BY <1>2 DEF Open, Answer, Event
<1>4. "idle" \in {"idle", "exited"}
  OBVIOUS
<1>5. /\ PcOk' /\ WritingOk' /\ SwapOk' /\ DeletingOk' /\ Home' = Active
      /\ worker'.pc = "send" /\ worker'.out = e
  BY <1>3, <1>4, AnswerRests
<1>6. SamePast /\ PastOk'
  BY <1>1, PastStays DEF DiskInv
<1>7. files' \in SUBSET files /\ Live \ files' = {}
  BY <1>1, LiveIsEntries DEF Entries
<1>8. FilesOk' /\ WithinCapacity' /\ LiveOk'
  BY <1>1, <1>5, <1>6, <1>7, FewerFiles DEF DiskInv, CapacityOk
<1>9. /\ store'.generation = store.generation /\ store'.generation = 0 /\ store'.pending = 0
      /\ DOMAIN store' = {"generation", "pending"}
  BY <1>1 DEF DiskInv, PcOk
<1>10. StoreOk' /\ ClientsOk' /\ ReadsAreCurrent'
  <2>1. StoreOk'
    BY <1>1, <1>9 DEF StoreOk
  <2>2. ClientsOk'
    BY <1>1, <1>9, ClientsStay DEF DiskInv, Taken
  <2> QED  BY <1>3, <1>5, <2>1, <2>2 DEF ReadsAreCurrent, VerifiedReads, NeverOlder, Reading
<1>11. CapacityOk'
  <2>1. PICK fs : fs = files \ Unaccounted
    OBVIOUS
  <2>2. Pending' = {} /\ HomeFiles' = Entries /\ Entries \in SUBSET fs
    BY <1>1, <1>5, <2>1 DEF Pending, HomeFiles, Entries, Unaccounted, DiskInv, PastOk
  <2>3. Bytes(Pending') = 0
    BY <2>2, BytesEmpty
  <2>4. Sized(fs)
    BY <2>1, FilesSized DEF DiskInv
  <2>5. Bytes(Entries) <= Bytes(fs) /\ Bytes(Entries) \in Nat /\ Bytes(fs) \in Nat
    BY <2>2, <2>4, BytesSubset
  <2>6. Bytes(fs) <= MaxBytes /\ MaxBytes \in Nat
    BY <2>1, DiskAssumption DEF DiskInv, CapacityOk, WithinCapacity
  <2>7. Bytes(Entries) + 0 <= MaxBytes
    BY <2>5, <2>6
  <2>8. Bytes(Pending') <= store'.pending /\ Bytes(HomeFiles') + store'.pending <= MaxBytes
    BY <1>9, <2>2, <2>3, <2>7
  <2> QED  BY <1>8, <2>8 DEF CapacityOk
<1> QED  BY <1>5, <1>6, <1>8, <1>10, <1>11 DEF DiskInv

\* A new process starts from the directory alone: a clear that was to put its
\* files back has retired them for good.
LEMMA CrashKeeps ==
    ASSUME DiskInv, Crash
    PROVE  DiskInv'
<1>1. /\ Faults(1) /\ files' = files
      /\ worker' = [pc |-> "open", op |-> None, job |-> None, out |-> None]
      /\ store' = [generation |-> 0, pending |-> 0] /\ shared' = 0
      /\ commands' = <<>>
      /\ client' = [w \in Writes |-> IF client[w].state = "captured"
                                     THEN [client[w] EXCEPT !.state = "sent"] ELSE client[w]]
      /\ ui' = [disk |-> TRUE, pending |-> 0, state |-> "ready", ids |-> ui.ids, awake |-> TRUE]
  BY DEF Crash
<1>2. worker'.pc = "open" /\ DOMAIN worker' = {"pc", "op", "job", "out"}
  BY <1>1
<1>3. Home' = Active /\ ~Opened' /\ ~Deleting'
  BY <1>2 DEF Home, Opened, Deleting
<1>4. SamePast /\ PastOk'
  BY <1>1, PastStays DEF DiskInv
<1>5. /\ FilesOk' /\ StoreOk' /\ PcOk' /\ WritingOk' /\ SwapOk' /\ DeletingOk'
      /\ ReadsAreCurrent'
  <2>1. StoreOk'
    BY <1>1 DEF StoreOk
  <2>2. FilesOk' /\ PcOk' /\ WritingOk' /\ SwapOk' /\ DeletingOk'
    BY <1>1, <1>2, <1>3 DEF DiskInv, FilesOk, PcOk, WritingOk, SwapOk, DeletingOk
  <2> QED  BY <1>2, <2>1, <2>2 DEF ReadsAreCurrent, VerifiedReads, NeverOlder, Reading
<1>6. ClientsOk'
  <2>1. commands' \in Seq(CommandSet) /\ Elements(commands') = {}
    BY <1>1 DEF Elements
  <2>2. \A w \in Writes : /\ DOMAIN client'[w] = {"state", "generation"}
                          /\ client'[w].generation \in Nat
                          /\ client'[w].state # "captured"
    <3> TAKE w \in Writes
    <3>1. PICK at : at = client[w]
      OBVIOUS
    <3>2. DOMAIN at = {"state", "generation"} /\ at.generation \in Nat
      BY <3>1 DEF DiskInv, ClientsOk
    <3>3. CASE at.state # "captured"
      BY <1>1, <3>1, <3>2, <3>3
    <3>4. CASE at.state = "captured"
      <4>1. client'[w] = [at EXCEPT !.state = "sent"]
        BY <1>1, <3>1, <3>4
      <4> QED  BY <3>2, <4>1
    <3> QED  BY <3>3, <3>4
  <2>3. DOMAIN client' = Writes
    BY <1>1
  <2>4. DOMAIN ui' = {"disk", "pending", "state", "ids", "awake"} /\ ui'.ids \in Nat
    BY <1>1 DEF DiskInv, ClientsOk
  <2> QED  BY <2>1, <2>2, <2>3, <2>4 DEF ClientsOk
<1>7. CapacityOk'
  <2>1. WithinCapacity'
    BY <1>1, <1>4 DEF DiskInv, CapacityOk, WithinCapacity, Unaccounted, SamePast
  <2> QED  BY <1>3, <2>1 DEF CapacityOk
<1>8. LiveOk'
  <2>1. CASE worker.pc = "mkdir"
    <3>1. Live' = {}
      BY <1>1, <1>3, <2>1 DEF DiskInv, SwapOk, Live
    <3> QED  BY <3>1 DEF LiveOk
  <2>2. CASE worker.pc # "mkdir"
    <3>1. Live' = Live
      BY <1>1, <1>3, <2>2 DEF Live, Home
    <3>2. Live' \subseteq Live /\ Live \ Live' = {}
      BY <3>1
    <3> QED  BY <1>4, <3>2, LiveFewer DEF DiskInv
  <2> QED  BY <2>1, <2>2
<1> QED  BY <1>4, <1>5, <1>6, <1>7, <1>8 DEF DiskInv

\* A record that goes bad was, if the last of its key, the last: that is remembered.
LEMMA DamageKeeps ==
    ASSUME DiskInv, NEW f \in Entries, Damage(f)
    PROVE  DiskInv'
<1>1. /\ f.whole /\ UNCHANGED <<store, shared, worker, commands, client, ui>>
      /\ past' = [past EXCEPT !.trouble = @ + 1, !.damaged = @ \cup {f.value}]
  BY DEF Damage
<1>2. PICK k \in Keys \cup {None} :
          files' = (files \ {f}) \cup {[f EXCEPT !.whole = FALSE, !.seems = k]}
  BY DEF Damage
<1>3. PICK g : g = [f EXCEPT !.whole = FALSE, !.seems = k]
  OBVIOUS
<1>4. f \in files /\ f.dir = Active /\ f.kind = "entry" /\ DOMAIN f = FileFields
  BY DEF Entries, DiskInv, FilesOk
<1>5. Same(f, g) /\ g.dir = Active /\ g.kind = "entry" /\ g.whole = FALSE
  <2>1. Same(f, g) /\ g.dir = f.dir /\ g.kind = f.kind /\ g.seems = k /\ g.whole = FALSE
    BY <1>3, <1>4 DEF FileFields, Same
  <2> QED  BY <1>4, <2>1
<1>6. files' = (files \ {f}) \cup {g} /\ g.n = f.n /\ g.value = f.value
  BY <1>2, <1>3, <1>5 DEF Same
<1>7. /\ DOMAIN past' = PastFields /\ past'.clears = past.clears /\ past'.era = past.era
      /\ past'.latest = past.latest /\ past'.stranded = past.stranded
      /\ past'.damaged = past.damaged \cup {f.value}
  BY <1>1 DEF DiskInv, PastOk, PastFields
<1>8. worker.pc # "mkdir" /\ Home = Active /\ Home' = Active
  BY <1>1, <1>4 DEF DiskInv, SwapOk, Home
<1>9. FilesOk'
  <2>1. files \ {f} \in SUBSET files
    OBVIOUS
  <2>2. IsFiniteSet(files \ {f})
    BY <2>1, FS_Subset DEF DiskInv, FilesOk
  <2>3. IsFiniteSet(files')
    BY <1>6, <2>2, FS_AddElement
  <2>4. \A h \in files' : h \in files \/ h = g
    BY <1>6
  <2> QED  BY <1>4, <1>5, <2>3, <2>4 DEF DiskInv, FilesOk, Same
<1>10. /\ Live' = (Live \ {f}) \cup {g} /\ HomeFiles' = (HomeFiles \ {f}) \cup {g}
       /\ Pending' = Pending /\ Temporaries' = Temporaries /\ f \in Live /\ f \in HomeFiles
  <2>1. \A h : Stranded(h)' <=> Stranded(h)
    BY <1>7 DEF Stranded
  <2>2. Pending' = Pending
    BY <1>4, <1>5, <1>6, <1>8, <2>1 DEF Pending
  <2>3. Temporaries' = Temporaries
    BY <1>4, <1>5, <1>6 DEF Temporaries
  <2> QED  BY <1>4, <1>5, <1>6, <1>8, <2>2, <2>3 DEF Live, HomeFiles
<1>11. PastOk' /\ StoreOk' /\ PcOk' /\ SwapOk'
  BY <1>1, <1>7, <1>8 DEF DiskInv, PastOk, StoreOk, PcOk, SwapOk
<1>12. ClientsOk'
  BY <1>1, <1>7, ClientsStay DEF DiskInv, Taken
<1>13. WritingOk'
  <2>1. \A t, n : (\A h \in Live : h.n < n) => (\A h \in Live' : h.n < n)
    BY <1>6, <1>10
  <2> QED  BY <1>1, <1>7, <1>10, <2>1 DEF DiskInv, WritingOk
<1>14. DeletingOk'
  BY <1>1, <1>10 DEF DiskInv, DeletingOk, Deleting
<1>15. ReadsAreCurrent'
  BY <1>1, <1>7 DEF DiskInv, ReadsAreCurrent, VerifiedReads, NeverOlder, Reading, ReadFile
<1>16. LiveOk'
  <2> SUFFICES ASSUME NEW h \in Live'
               PROVE  (past.era[h.value] = past.clears /\ (h.whole => Current(h)))'
    BY DEF LiveOk
  <2>1. CASE h = g
    BY <1>5, <1>6, <1>7, <1>10, <2>1 DEF DiskInv, LiveOk
  <2>2. CASE h \in Live /\ h # f
    <3>1. past'.era[h.value] = past'.clears
      BY <1>7, <2>2 DEF DiskInv, LiveOk
    <3>2. ASSUME h.whole PROVE Current(h)'
      <4>1. Current(h)
        BY <2>2, <3>2 DEF DiskInv, LiveOk
      <4>2. ASSUME Superseded(h) PROVE Current(h)'
        <5>1. PICK x \in Live : /\ x.whole /\ x.n > h.n /\ Key[x.value] = Key[h.value]
                                /\ x.value = past.latest[Key[h.value]]
          BY <4>2 DEF Superseded
        <5>2. CASE x = f
          BY <1>7, <5>1, <5>2 DEF Current
        <5>3. CASE x # f
          BY <1>7, <1>10, <5>1, <5>3 DEF Current, Superseded
        <5> QED  BY <5>2, <5>3
      <4> QED  BY <1>7, <4>1, <4>2 DEF Current
    <3> QED  BY <3>1, <3>2
  <2> QED  BY <1>10, <2>1, <2>2
<1>17. CapacityOk'
  <2>1. PICK fs, gs, h, hs : /\ fs = files \ Unaccounted /\ gs = (files \ Unaccounted)'
                             /\ h = HomeFiles /\ hs = HomeFiles'
    OBVIOUS
  <2>2. Sized(files') /\ Sized(files)
    BY <1>9 DEF DiskInv, FilesOk, Sized
  <2>3. /\ fs \in SUBSET files /\ gs \in SUBSET files'
        /\ h \in SUBSET files /\ hs \in SUBSET files'
    BY <2>1 DEF HomeFiles
  <2>4. Sized(fs) /\ Sized(gs) /\ Sized(h) /\ Sized(hs)
    BY <2>2, <2>3, BytesSubset
  <2>5. gs = (fs \ {f}) \cup {g} /\ f \in fs
    <3>1. f \notin Unaccounted
      BY <1>4 DEF Unaccounted, DiskInv, PastOk
    <3>2. g \notin Unaccounted'
      BY <1>5, <1>7 DEF Unaccounted, DiskInv, PastOk
    <3>3. \A x \in files \ {f} : x \in Unaccounted' <=> x \in Unaccounted
      BY <1>6, <1>7 DEF Unaccounted
    <3> QED  BY <1>4, <1>6, <2>1, <3>1, <3>2, <3>3
  <2>6. Pairs(gs) = Pairs(fs)
    BY <1>6, <2>5 DEF Pairs
  <2>7. hs = (h \ {f}) \cup {g} /\ f \in h
    BY <1>10, <2>1
  <2>8. Pairs(hs) = Pairs(h)
    BY <1>6, <2>7 DEF Pairs
  <2>9. Bytes(gs) = Bytes(fs) /\ Bytes(hs) = Bytes(h)
    BY <2>4, <2>6, <2>8, BytesSame
  <2> QED  BY <1>1, <1>10, <2>1, <2>9 DEF DiskInv, CapacityOk, WithinCapacity, Opened
<1> QED  BY <1>9, <1>11, <1>12, <1>13, <1>14, <1>15, <1>16, <1>17 DEF DiskInv

------------------------------------------------------------------------------
(* The thread that owns the handle.                                          *)

\* Nothing it does touches the store; a capture only renews what a write was
\* captured in.
LEMMA ClientStepKeeps ==
    ASSUME DiskInv, UNCHANGED <<files, store, shared, worker>>, ClientsOk',
           past' = past \/ (\E w \in Writes : past' = [past EXCEPT !.era[w] = past.clears])
    PROVE  DiskInv'
<1>1. /\ DOMAIN past' = PastFields /\ past'.clears = past.clears
      /\ past'.era \in [Writes -> Nat]
      /\ \A w \in Writes : past'.era[w] \in {past.era[w], past.clears}
      /\ past'.latest = past.latest /\ past'.stranded = past.stranded
      /\ past'.damaged = past.damaged
  BY DEF DiskInv, PastOk, PastFields
<1>2. Live' = Live /\ HomeFiles' = HomeFiles /\ Pending' = Pending /\ Temporaries' = Temporaries
  BY <1>1 DEF Live, HomeFiles, Pending, Stranded, Home, Temporaries
<1>3. FilesOk' /\ PastOk' /\ StoreOk' /\ PcOk' /\ SwapOk'
  BY <1>1, <1>2 DEF DiskInv, FilesOk, PastOk, StoreOk, PcOk, SwapOk
<1>4. DeletingOk' /\ ReadsAreCurrent'
  BY <1>1, <1>2 DEF DiskInv, DeletingOk, Deleting, ReadsAreCurrent, VerifiedReads, NeverOlder,
                    Reading, ReadFile
<1>5. WritingOk'
  BY <1>1, <1>2 DEF DiskInv, WritingOk
<1>6. CapacityOk'
  BY <1>1, <1>2 DEF DiskInv, CapacityOk, WithinCapacity, Unaccounted, Opened
<1>7. LiveOk'
  <2> SUFFICES ASSUME NEW f \in Live
               PROVE  (past.era[f.value] = past.clears /\ (f.whole => Current(f)))'
    BY <1>2 DEF LiveOk
  <2>1. f.value \in Writes
    BY DEF DiskInv, FilesOk, Live
  <2> QED  BY <1>1, <1>2, <2>1 DEF DiskInv, LiveOk, Current, Superseded
<1> QED  BY <1>3, <1>4, <1>5, <1>6, <1>7 DEF DiskInv

\* A command that is valid when it is queued.
LEMMA QueuedKeeps ==
    ASSUME DiskInv, UNCHANGED <<store, past>>, NEW c \in CommandSet,
           commands' = Append(commands, c),
           DOMAIN ui' = {"disk", "pending", "state", "ids", "awake"} /\ ui'.ids \in Nat,
           c.kind = "Write" => c.value \in Writes /\ Valid(c.value, c.generation),
           c.kind = "Read" => c.key \in Keys,
           DOMAIN client' = Writes,
           \A w \in Writes : /\ DOMAIN client'[w] = {"state", "generation"}
                             /\ client'[w].generation \in Nat
                             /\ client'[w].state = "captured" => client'[w] = client[w]
    PROVE  ClientsOk'
<1>1. /\ commands' \in Seq(CommandSet)
      /\ Elements(commands') = Elements(commands) \cup {c}
  BY PushProperties DEF DiskInv, ClientsOk
<1>2. \A w, g : Valid(w, g) => Valid(w, g)'
  BY DEF Valid
<1>3. \A d \in Elements(commands') :
          /\ d.kind = "Write" => d.value \in Writes /\ Valid(d.value, d.generation)'
          /\ d.kind = "Read" => d.key \in Keys
  BY <1>1, <1>2 DEF DiskInv, ClientsOk
<1>4. \A w \in Writes : client'[w].state = "captured" => Valid(w, client[w].generation)'
  <2> TAKE w \in Writes
  <2>1. PICK at : at = client'[w]
    OBVIOUS
  <2>2. at.state = "captured" => Valid(w, at.generation)
    BY <2>1 DEF DiskInv, ClientsOk
  <2> QED  BY <1>2, <2>1, <2>2
<1> QED  BY <1>1, <1>3, <1>4 DEF ClientsOk

LEMMA CaptureKeeps ==
    ASSUME DiskInv, NEW w \in Writes, Capture(w)
    PROVE  DiskInv'
<1>1. /\ UNCHANGED <<files, store, shared, worker, commands, ui>>
      /\ client' = [client EXCEPT ![w] = [state |-> "captured", generation |-> shared]]
      /\ past' = [past EXCEPT !.era[w] = past.clears]
  BY DEF Capture
<1>2. /\ past'.clears = past.clears /\ past'.era = [past.era EXCEPT ![w] = past.clears]
  BY <1>1 DEF DiskInv, PastOk, PastFields
<1>3. \A v \in Writes : past'.era[v] \in {past.era[v], past.clears} /\ past'.era[w] = past.clears
  BY <1>2 DEF DiskInv, PastOk
<1>4. \A v \in Writes : \A g : Valid(v, g) => Valid(v, g)'
  BY <1>1, <1>2, <1>3 DEF Valid
<1>5. shared \in Nat /\ Valid(w, shared)'
  BY <1>1, <1>2, <1>3 DEF DiskInv, StoreOk, Valid
<1>6. \A v \in Writes : /\ DOMAIN client'[v] = {"state", "generation"}
                        /\ client'[v].generation \in Nat
                        /\ client'[v].state = "captured" => Valid(v, client[v].generation)'
  <2> TAKE v \in Writes
  <2>1. PICK at : at = client'[v]
    OBVIOUS
  <2>2. CASE v = w
    <3>1. at = [state |-> "captured", generation |-> shared]
      BY <1>1, <2>1, <2>2 DEF DiskInv, ClientsOk
    <3>2. DOMAIN at = {"state", "generation"} /\ at.generation = shared
      BY <3>1
    <3>3. shared' = shared
      BY <1>1
    <3>4. Valid(v, at.generation)'
      BY <1>5, <2>2, <3>2, <3>3
    <3> QED  BY <1>5, <2>1, <3>2, <3>4
  <2>3. CASE v # w
    <3>1. at = client[v]
      BY <1>1, <2>1, <2>3 DEF DiskInv, ClientsOk
    <3>2. /\ DOMAIN at = {"state", "generation"} /\ at.generation \in Nat
          /\ at.state = "captured" => Valid(v, at.generation)
      BY <3>1 DEF DiskInv, ClientsOk
    <3>3. at.state = "captured" => Valid(v, at.generation)'
      BY <1>4, <3>2
    <3> QED  BY <2>1, <3>2, <3>3
  <2> QED  BY <2>2, <2>3
<1>7. \A c \in Elements(commands) :
          /\ c.kind = "Write" => c.value \in Writes /\ Valid(c.value, c.generation)'
          /\ c.kind = "Read" => c.key \in Keys
  BY <1>4 DEF DiskInv, ClientsOk
<1>8. ClientsOk'
  <2>1. DOMAIN client' = Writes /\ commands' = commands /\ ui' = ui
    BY <1>1 DEF DiskInv, ClientsOk
  <2> QED  BY <1>6, <1>7, <2>1 DEF DiskInv, ClientsOk
<1> QED  BY <1>1, <1>8, ClientStepKeeps

LEMMA SubmitWriteKeeps ==
    ASSUME DiskInv, NEW w \in Writes, SubmitWrite(w)
    PROVE  DiskInv'
<1>1. /\ UNCHANGED <<files, store, shared, worker, ui, past>>
      /\ client[w].state = "captured"
      /\ client' = [client EXCEPT ![w].state = "sent"]
  BY DEF SubmitWrite
<1>2. PICK c : c = [kind |-> "Write", id |-> None, key |-> Key[w], value |-> w,
                    generation |-> client[w].generation]
  OBVIOUS
<1>3. commands' = commands \/ commands' = Append(commands, c)
  BY <1>2 DEF SubmitWrite, Command
<1>4. /\ c \in CommandSet /\ c.kind = "Write" /\ c.value = w /\ Valid(w, c.generation)
  <2>1. client[w].generation \in Nat /\ Valid(w, client[w].generation)
    BY <1>1 DEF DiskInv, ClientsOk
  <2>2. Key[w] \in Keys
    BY DiskAssumption
  <2> QED  BY <1>2, <2>1, <2>2 DEF CommandSet
<1>5. /\ DOMAIN client' = Writes
      /\ \A v \in Writes : /\ DOMAIN client'[v] = {"state", "generation"}
                           /\ client'[v].generation \in Nat
                           /\ client'[v].state = "captured" => client'[v] = client[v]
  <2>1. DOMAIN client' = Writes
    BY <1>1 DEF DiskInv, ClientsOk
  <2>2. ASSUME NEW v \in Writes
        PROVE  /\ DOMAIN client'[v] = {"state", "generation"}
               /\ client'[v].generation \in Nat
               /\ client'[v].state = "captured" => client'[v] = client[v]
    <3>1. PICK at : at = client[v]
      OBVIOUS
    <3>2. DOMAIN at = {"state", "generation"} /\ at.generation \in Nat
      BY <3>1 DEF DiskInv, ClientsOk
    <3>3. CASE v # w
      BY <1>1, <3>1, <3>2, <3>3 DEF DiskInv, ClientsOk
    <3>4. CASE v = w
      <4>1. client'[v] = [at EXCEPT !.state = "sent"]
        BY <1>1, <3>1, <3>4 DEF DiskInv, ClientsOk
      <4> QED  BY <3>2, <4>1
    <3> QED  BY <3>3, <3>4
  <2> QED  BY <2>1, <2>2
<1>6. DOMAIN ui' = {"disk", "pending", "state", "ids", "awake"} /\ ui'.ids \in Nat
  BY <1>1 DEF DiskInv, ClientsOk
<1>7. CASE commands' = Append(commands, c)
  <2>1. ClientsOk'
    BY <1>1, <1>4, <1>5, <1>6, <1>7, QueuedKeeps
  <2> QED  BY <1>1, <2>1, ClientStepKeeps
<1>8. CASE commands' = commands
  <2>1. \A v, g : Valid(v, g) => Valid(v, g)'
    BY <1>1 DEF Valid
  <2>2. \A d \in Elements(commands) :
          /\ d.kind = "Write" => d.value \in Writes /\ Valid(d.value, d.generation)'
          /\ d.kind = "Read" => d.key \in Keys
    BY <2>1 DEF DiskInv, ClientsOk
  <2>3. \A v \in Writes : client'[v].state = "captured" => Valid(v, client[v].generation)'
    <3> TAKE v \in Writes
    <3>1. PICK at : at = client'[v]
      OBVIOUS
    <3>2. at.state = "captured" => Valid(v, at.generation)
      BY <1>5, <3>1 DEF DiskInv, ClientsOk
    <3> QED  BY <2>1, <3>1, <3>2
  <2>4. ClientsOk'
    BY <1>5, <1>6, <1>8, <2>2, <2>3 DEF DiskInv, ClientsOk
  <2> QED  BY <1>1, <2>4, ClientStepKeeps
<1> QED  BY <1>3, <1>7, <1>8

LEMMA SubmitReadKeeps ==
    ASSUME DiskInv, NEW k \in Keys, SubmitRead(k)
    PROVE  DiskInv'
<1>1. PICK c : c = [kind |-> "Read", id |-> None, key |-> k, value |-> None, generation |-> 0]
  OBVIOUS
<1>2. /\ UNCHANGED <<files, store, shared, worker, client, ui, past>>
      /\ commands' = Append(commands, c)
  BY <1>1 DEF SubmitRead, Command
<1>3. c \in CommandSet /\ c.kind = "Read" /\ c.key = k
  BY <1>1 DEF CommandSet
<1>4. DOMAIN ui' = {"disk", "pending", "state", "ids", "awake"} /\ ui'.ids \in Nat
  BY <1>2 DEF DiskInv, ClientsOk
<1>5. /\ DOMAIN client' = Writes
      /\ \A v \in Writes : /\ DOMAIN client'[v] = {"state", "generation"}
                           /\ client'[v].generation \in Nat
                           /\ client'[v].state = "captured" => client'[v] = client[v]
  BY <1>2 DEF DiskInv, ClientsOk
<1>6. ClientsOk'
  BY <1>2, <1>3, <1>4, <1>5, QueuedKeeps
<1> QED  BY <1>2, <1>6, ClientStepKeeps

LEMMA ClearHttpCacheKeeps ==
    ASSUME DiskInv, ClearHttpCache
    PROVE  DiskInv'
<1>1. PICK c : c = [kind |-> "Clear", id |-> ui.ids + 1, key |-> None, value |-> None,
                    generation |-> 0]
  OBVIOUS
<1>2. /\ UNCHANGED <<files, store, shared, worker, client, past>>
      /\ commands' = commands \/ commands' = Append(commands, c)
  BY <1>1 DEF ClearHttpCache, Command
<1>3. ui.ids \in Nat /\ DOMAIN ui = {"disk", "pending", "state", "ids", "awake"}
  BY DEF DiskInv, ClientsOk
<1>4. DOMAIN ui' = {"disk", "pending", "state", "ids", "awake"} /\ ui'.ids = ui.ids + 1
  BY <1>3 DEF ClearHttpCache
<1>5. c \in CommandSet /\ c.kind = "Clear" /\ ui'.ids \in Nat
  BY <1>1, <1>3, <1>4 DEF CommandSet
<1>6. /\ DOMAIN client' = Writes
      /\ \A v \in Writes : /\ DOMAIN client'[v] = {"state", "generation"}
                           /\ client'[v].generation \in Nat
                           /\ client'[v].state = "captured" => client'[v] = client[v]
  BY <1>2 DEF DiskInv, ClientsOk
<1>7. ClientsOk'
  <2>1. CASE commands' = Append(commands, c)
    BY <1>2, <1>4, <1>5, <1>6, <2>1, QueuedKeeps
  <2>2. CASE commands' = commands
    BY <1>2, <1>4, <1>5, <2>2 DEF DiskInv, ClientsOk, Valid
  <2> QED  BY <1>2, <2>1, <2>2
<1> QED  BY <1>2, <1>7, ClientStepKeeps

LEMMA PollDiskCacheKeeps ==
    ASSUME DiskInv, PollDiskCache
    PROVE  DiskInv'
<1>1. UNCHANGED <<files, store, shared, worker, commands, client, past>>
  BY DEF PollDiskCache
<1>2. DOMAIN ui' = {"disk", "pending", "state", "ids", "awake"} /\ ui'.ids = ui.ids
  BY DEF PollDiskCache, DiskInv, ClientsOk
<1>3. ClientsOk'
  BY <1>1, <1>2 DEF DiskInv, ClientsOk, Valid
<1> QED  BY <1>1, <1>3, ClientStepKeeps

LEMMA WakesUpKeeps ==
    ASSUME DiskInv, WakesUp
    PROVE  DiskInv'
<1>1. UNCHANGED <<files, store, shared, worker, commands, client, past>>
  BY DEF WakesUp
<1>2. DOMAIN ui' = {"disk", "pending", "state", "ids", "awake"} /\ ui'.ids = ui.ids
  BY DEF WakesUp, DiskInv, ClientsOk
<1>3. ClientsOk'
  BY <1>1, <1>2 DEF DiskInv, ClientsOk, Valid
<1> QED  BY <1>1, <1>3, ClientStepKeeps

------------------------------------------------------------------------------
(* The invariant, and what it is for.                                        *)

LEMMA DiskInit == Init => DiskInv
<1> SUFFICES ASSUME Init PROVE DiskInv
  OBVIOUS
<1>1. /\ files = {} /\ store = [generation |-> 0, pending |-> 0] /\ shared = 0
      /\ worker = [pc |-> "open", op |-> None, job |-> None, out |-> None]
      /\ commands = <<>>
      /\ client = [w \in Writes |-> [state |-> "new", generation |-> 0]]
      /\ ui = [disk |-> TRUE, pending |-> 0, state |-> "ready", ids |-> 0, awake |-> TRUE]
      /\ past = [clears |-> 0, era |-> [w \in Writes |-> 0], latest |-> [k \in Keys |-> None],
                 damaged |-> {}, stranded |-> {}, trouble |-> 0]
  BY DEF Init
<1>2. worker.pc = "open" /\ ~Opened /\ ~Deleting /\ DOMAIN worker = {"pc", "op", "job", "out"}
  BY <1>1 DEF Opened, Deleting
<1>3. FilesOk
  BY <1>1, FS_EmptySet DEF FilesOk
<1>4. PastOk /\ StoreOk
  BY <1>1 DEF PastOk, StoreOk, PastFields
<1>5. ClientsOk
  <2>1. commands \in Seq(CommandSet) /\ Elements(commands) = {}
    BY <1>1 DEF Elements
  <2>2. \A w \in Writes : /\ DOMAIN client[w] = {"state", "generation"}
                          /\ client[w].generation \in Nat /\ client[w].state # "captured"
    BY <1>1
  <2>3. /\ DOMAIN client = Writes
        /\ DOMAIN ui = {"disk", "pending", "state", "ids", "awake"} /\ ui.ids \in Nat
    BY <1>1
  <2> QED  BY <2>1, <2>2, <2>3 DEF ClientsOk
<1>6. PcOk /\ WritingOk /\ SwapOk /\ DeletingOk /\ ReadsAreCurrent
  BY <1>1, <1>2 DEF PcOk, WritingOk, SwapOk, DeletingOk, ReadsAreCurrent, VerifiedReads,
                    NeverOlder, Reading
<1>7. CapacityOk
  <2>1. files \ Unaccounted = {}
    BY <1>1
  <2>2. Bytes(files \ Unaccounted) = 0
    BY <2>1, BytesEmpty
  <2> QED  BY <1>2, <2>2, DiskAssumption DEF CapacityOk, WithinCapacity
<1>8. LiveOk
  BY <1>1 DEF LiveOk, Live
<1> QED  BY <1>3, <1>4, <1>5, <1>6, <1>7, <1>8 DEF DiskInv

LEMMA StutterKeeps == DiskInv /\ UNCHANGED vars => DiskInv'
<1> SUFFICES ASSUME DiskInv, UNCHANGED vars PROVE DiskInv'
  OBVIOUS
<1>1. /\ UNCHANGED <<files, store, shared, worker, commands, client, ui, past>>
  BY DEF vars
<1>2. ClientsOk'
  BY <1>1, ClientsStay DEF DiskInv, Taken
<1> QED  BY <1>1, <1>2, ClientStepKeeps

LEMMA DiskStep == DiskInv /\ [Next]_vars => DiskInv'
<1> SUFFICES ASSUME DiskInv, [Next]_vars PROVE DiskInv'
  OBVIOUS
<1>1. CASE Worker
  BY <1>1, OpenKeeps, OpenFailsKeeps, SendKeeps, ReadKeeps, WriteSkippedKeeps, WriteBeginsKeeps,
     WriteCannotBeginKeeps, WriteFillsKeeps, WriteLinksKeeps, WriteUnlinksKeeps, ClearBeginsKeeps,
     ClearCannotBeginKeeps, ClearSwapsKeeps, ClearCannotSwapKeeps, ClearPublishesKeeps,
     ClearFinishesKeeps
     DEF Worker
<1>2. ASSUME NEW w \in Writes, Capture(w) \/ SubmitWrite(w) PROVE DiskInv'
  BY <1>2, CaptureKeeps, SubmitWriteKeeps
<1>3. ASSUME NEW k \in Keys, SubmitRead(k) PROVE DiskInv'
  BY <1>3, SubmitReadKeeps
<1>4. CASE ClearHttpCache \/ PollDiskCache \/ WakesUp \/ Crash
  BY <1>4, ClearHttpCacheKeeps, PollDiskCacheKeeps, WakesUpKeeps, CrashKeeps
<1>5. ASSUME NEW f \in Entries, Damage(f) PROVE DiskInv'
  BY <1>5, DamageKeeps
<1>6. CASE UNCHANGED vars
  BY <1>6, StutterKeeps
<1> QED  BY <1>1, <1>2, <1>3, <1>4, <1>5, <1>6 DEF Next

\* DiskInv is inductive: it holds at the start and every step keeps it, a crash,
\* a failed call and damage to a stored file included.
THEOREM DiskInvariant == Spec => []DiskInv
<1>1. Init => DiskInv
  BY DiskInit
<1>2. DiskInv /\ [Next]_vars => DiskInv'
  BY DiskStep
<1> QED  BY <1>1, <1>2, PTL DEF Spec

\* A value whose writer captured its generation before a clear swapped the
\* directories is gone from the active directory for good: begin_clear empties it,
\* write_entry refuses the old generation, and neither a clear that is undone nor a
\* restart brings the old directory back.
THEOREM ClearIsFinal == Spec => []ClearedStaysGone
<1>1. DiskInv => ClearedStaysGone
  <2> SUFFICES ASSUME DiskInv, NEW f \in Entries PROVE past.era[f.value] = past.clears
    BY DEF ClearedStaysGone
  <2>1. worker.pc # "mkdir"
    BY DEF DiskInv, SwapOk, Entries
  <2> QED  BY <2>1, LiveIsEntries DEF DiskInv, LiveOk
<1> QED  BY <1>1, DiskInvariant, PTL

\* What read answers is a whole record of the key asked for, and the value stored
\* last under it since the last clear unless that one went bad: newest_first in
\* read, oldest_first in prune_for_write and the order of write_atomic agree across
\* failures, crashes and undone clears.
THEOREM LookupsAreCurrent == Spec => []ReadsAreCurrent
<1>1. DiskInv => ReadsAreCurrent
  BY DEF DiskInv
<1> QED  BY <1>1, DiskInvariant, PTL

\* What the store can account for stays within max_bytes: the records, the temporary
\* file being written and the retired directories, deletions that failed included.
THEOREM StoreIsBounded == Spec => []WithinCapacity
<1>1. DiskInv => WithinCapacity
  BY DEF DiskInv, CapacityOk
<1> QED  BY <1>1, DiskInvariant, PTL
=============================================================================
