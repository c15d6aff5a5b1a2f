--------------------------- MODULE Startup_proofs ---------------------------
(***************************************************************************)
(* Theorems about the start of a session, for any command lines, files and *)
(* servers.  First, what reading the ldaprc files gives: for every setting *)
(* the value of the first line that says something else than the default.  *)
(***************************************************************************)
EXTENDS Startup, FoldLemmas

-----------------------------------------------------------------------------
(* One file.                                                                 *)

\* N lines with values in V.
IsFile(file, N, V) == DOMAIN file = 1 .. N /\ \A i \in 1 .. N : file[i].val \in V

LEMMA LineKeepsType ==
    ASSUME NEW V, NEW rc \in [Settings -> V], NEW l, l.val \in V
    PROVE  ParseLine(rc, l) \in [Settings -> V]
BY DEF ParseLine

LinesFold(g, N, rc, file) ==
    \A s \in SUBSET (1 .. N) :
       g[s] = IF s = {} THEN rc ELSE ParseLine(g[s \ {Max(s)}], file[Max(s)])

IsLinesFold(R, N, rc, file) == \E g : LinesFold(g, N, rc, file) /\ R = g[1 .. N]

LEMMA ParseFileFolds ==
    ASSUME NEW V, NEW rc \in [Settings -> V], NEW N \in Nat, NEW file,
           IsFile(file, N, V)
    PROVE  IsLinesFold(ParseFile(rc, file), N, rc, file)
<1> DEFINE X == [Settings -> V]
           F == [i \in 1 .. N |-> [r \in X |-> ParseLine(r, file[i])]]
           Eqn(g) == g = [s \in SUBSET (DOMAIN file) |->
                            IF s = {} THEN rc ELSE ParseLine(g[s \ {Max(s)}], file[Max(s)])]
           it == CHOOSE g : Eqn(g)
<1>1. rc \in X /\ F \in [1 .. N -> [X -> X]]
  BY LineKeepsType DEF IsFile
<1>2. \A i \in 1 .. N : \A r \in X : F[i][r] = ParseLine(r, file[i])
  OBVIOUS
<1>3. PICK h \in [SUBSET (1 .. N) -> X] : IsFold(h, N, rc, F)
  <2> HIDE DEF X, F
  <2> QED
    BY <1>1, FoldExists
<1>4. ASSUME NEW s \in SUBSET (1 .. N)
      PROVE  h[s] = IF s = {} THEN rc ELSE ParseLine(h[s \ {Max(s)}], file[Max(s)])
  <2>1. CASE s = {}
    BY <1>3, <2>1 DEF IsFold
  <2>2. CASE s # {}
    <3>1. Max(s) \in 1 .. N /\ s \ {Max(s)} \in SUBSET (1 .. N)
      BY <2>2, HighestNumber
    <3>2. h[s \ {Max(s)}] \in X
      BY <1>3, <3>1
    <3> HIDE DEF X, F
    <3> QED
      BY <1>2, <1>3, <2>2, <3>1, <3>2 DEF IsFold
  <2> QED
    BY <2>1, <2>2
<1>5. Eqn(h)
  <2>1. h = [s \in SUBSET (1 .. N) |-> h[s]]
    BY <1>3
  <2> QED
    BY <1>4, <2>1 DEF IsFile
<1>6. Eqn(it)
  <2> HIDE DEF Eqn
  <2> QED
    BY <1>5
<1>7. ParseFile(rc, file) = it[DOMAIN file]
  BY DEF ParseFile, FoldLeft, MapThenFoldSet
<1>8. \A s \in SUBSET (1 .. N) :
         it[s] = IF s = {} THEN rc ELSE ParseLine(it[s \ {Max(s)}], file[Max(s)])
  <2> HIDE DEF it
  <2> QED
    BY <1>6 DEF IsFile
<1> HIDE DEF it
<1> QED
  BY <1>7, <1>8 DEF LinesFold, IsLinesFold, IsFile

\* A line says something of a setting.
Says(l, k) == l.ok /\ Setting(l.key) = k /\ l.val # Default[k]

\* R is rc with the settings that had their default filled from the first n of some lines.
Filled(R, rc, file, n) ==
    \A k \in Settings :
        /\ rc[k] # Default[k] => R[k] = rc[k]
        /\ rc[k] = Default[k] => \A i \in 1 .. n :
              Says(file[i], k) /\ (\A j \in 1 .. n : j < i => ~Says(file[j], k)) => R[k] = file[i].val
        /\ R[k] = Default[k] => \A i \in 1 .. n : ~Says(file[i], k)
        /\ (\A i \in 1 .. n : ~Says(file[i], k)) => R[k] = rc[k]

LEMMA LineFills ==
    ASSUME NEW V, NEW rc \in [Settings -> V], NEW R \in [Settings -> V], NEW file,
           NEW n \in Nat, Filled(R, rc, file, n), NEW T, T = ParseLine(R, file[n + 1])
    PROVE  Filled(T, rc, file, n + 1)
<1> DEFINE l == file[n + 1]
<1>1. 1 .. n + 1 = (1 .. n) \cup {n + 1} /\ \A i \in 1 .. n : i < n + 1 /\ ~(n + 1 < i)
  OBVIOUS
<1>2. T = (IF l.ok /\ R[Setting(l.key)] = Default[Setting(l.key)]
           THEN [R EXCEPT ![Setting(l.key)] = l.val] ELSE R)
  BY DEF ParseLine
<1> HIDE DEF l
<1>3. ASSUME NEW k \in Settings, Says(l, k), R[k] = Default[k] PROVE T[k] = l.val /\ l.val # Default[k]
  BY <1>2, <1>3 DEF Says
<1>4. ASSUME NEW k \in Settings, ~(Says(l, k) /\ R[k] = Default[k]) PROVE T[k] = R[k]
  <2>1. CASE l.ok /\ Setting(l.key) = k /\ R[k] = Default[k]
    <3>1. l.val = Default[k]
      BY <1>4, <2>1 DEF Says
    <3> QED
      BY <1>2, <2>1, <3>1
  <2>2. CASE ~(l.ok /\ Setting(l.key) = k /\ R[k] = Default[k])
    BY <1>2, <2>2
  <2> QED
    BY <2>1, <2>2
<1>5. ASSUME NEW k \in Settings
      PROVE  /\ rc[k] # Default[k] => T[k] = rc[k]
             /\ T[k] = Default[k] => \A i \in 1 .. n + 1 : ~Says(file[i], k)
             /\ (\A i \in 1 .. n + 1 : ~Says(file[i], k)) => T[k] = rc[k]
  BY <1>1, <1>3, <1>4 DEF Filled, l
<1>6. ASSUME NEW k \in Settings, rc[k] = Default[k], NEW i \in 1 .. n + 1, Says(file[i], k),
             \A j \in 1 .. n + 1 : j < i => ~Says(file[j], k)
      PROVE  T[k] = file[i].val
  <2>1. CASE i = n + 1
    <3>1. \A j \in 1 .. n : ~Says(file[j], k)
      BY <1>1, <1>6, <2>1
    <3>2. R[k] = Default[k]
      BY <1>6, <3>1 DEF Filled
    <3> QED
      BY <1>3, <1>6, <2>1, <3>2 DEF l
  <2>2. CASE i \in 1 .. n
    <3>1. R[k] = file[i].val
      BY <1>1, <1>6, <2>2 DEF Filled
    <3>2. R[k] # Default[k]
      BY <1>6, <3>1 DEF Says
    <3> QED
      BY <1>4, <3>1, <3>2
  <2> QED
    BY <1>1, <2>1, <2>2
<1> QED
  BY <1>5, <1>6 DEF Filled

\* ldaprc.cpp's parseFile: the first line of a file that says something of a setting wins, and
\* only over a setting that still has its default.
LEMMA FileFills ==
    ASSUME NEW V, NEW rc \in [Settings -> V], NEW N \in Nat, NEW file,
           IsFile(file, N, V)
    PROVE  ParseFile(rc, file) \in [Settings -> V] /\ Filled(ParseFile(rc, file), rc, file, N)
<1>0. IsLinesFold(ParseFile(rc, file), N, rc, file)
  BY ParseFileFolds
<1>1. PICK g : LinesFold(g, N, rc, file) /\ ParseFile(rc, file) = g[1 .. N]
  BY <1>0 DEF IsLinesFold
<1> DEFINE P == {n \in 0 .. N : g[1 .. n] \in [Settings -> V] /\ Filled(g[1 .. n], rc, file, n)}
<1>2. 0 \in P
  <2>1. 1 .. 0 = {} /\ 0 \in 0 .. N
    OBVIOUS
  <2>2. g[1 .. 0] = rc
    BY <1>1, <2>1 DEF LinesFold
  <2>3. Filled(rc, rc, file, 0)
    BY <2>1 DEF Filled
  <2> QED
    BY <2>1, <2>2, <2>3
<1>3. ASSUME NEW n \in 0 .. N, n # N, n \in P PROVE n + 1 \in P
  <2> DEFINE s == 1 .. n + 1
  <2>1. n \in Nat /\ n + 1 \in 0 .. N /\ n + 1 \in 1 .. N
    BY <1>3
  <2>2. s \in SUBSET (1 .. N) /\ s # {} /\ s \ {n + 1} = 1 .. n
    BY <2>1
  <2>3. Max(s) = n + 1
    BY <2>1, HighestOfRange
  <2> HIDE DEF s
  <2>4. g[s] = ParseLine(g[1 .. n], file[n + 1])
    BY <1>1, <2>2, <2>3 DEF LinesFold
  <2>5. g[1 .. n] \in [Settings -> V] /\ Filled(g[1 .. n], rc, file, n)
    BY <1>3
  <2>6. g[s] \in [Settings -> V]
    BY <2>1, <2>4, <2>5 DEF ParseLine, IsFile
  <2>7. Filled(g[s], rc, file, n + 1)
    BY <2>1, <2>4, <2>5, LineFills
  <2> QED
    BY <2>1, <2>6, <2>7 DEF s
<1> HIDE DEF P
<1>4. N \in P
  <2>1. N \in 0 .. N
    OBVIOUS
  <2> QED
    BY <1>2, <1>3, <2>1, Climb
<1> QED
  BY <1>1, <1>4 DEF P

-----------------------------------------------------------------------------
(* All the files.                                                            *)

AreFiles(fs, M, V) ==
    DOMAIN fs = 1 .. M /\ \A i \in 1 .. M : Len(fs[i]) \in Nat /\ IsFile(fs[i], Len(fs[i]), V)

FilesFold(g, M, rc, fs) ==
    \A s \in SUBSET (1 .. M) :
       g[s] = IF s = {} THEN rc ELSE ParseFile(g[s \ {Max(s)}], fs[Max(s)])
IsFilesFold(R, M, rc, fs) == \E g : FilesFold(g, M, rc, fs) /\ R = g[1 .. M]

LEMMA ReadLdapRcFolds ==
    ASSUME NEW V, Default \in [Settings -> V], NEW M \in Nat, NEW fs, AreFiles(fs, M, V)
    PROVE  IsFilesFold(ReadLdapRc(fs), M, Default, fs)
<1> DEFINE X == [Settings -> V]
           F == [i \in 1 .. M |-> [r \in X |-> ParseFile(r, fs[i])]]
           Eqn(g) == g = [s \in SUBSET (DOMAIN fs) |->
                            IF s = {} THEN Default ELSE ParseFile(g[s \ {Max(s)}], fs[Max(s)])]
           it == CHOOSE g : Eqn(g)
<1>1. ASSUME NEW i \in 1 .. M, NEW r \in X PROVE ParseFile(r, fs[i]) \in X
  <2>1. Len(fs[i]) \in Nat /\ IsFile(fs[i], Len(fs[i]), V)
    BY DEF AreFiles
  <2> QED
    BY <2>1, FileFills
<1>a. Default \in X /\ F \in [1 .. M -> [X -> X]]
  BY <1>1
<1>2. \A i \in 1 .. M : \A r \in X : F[i][r] = ParseFile(r, fs[i])
  OBVIOUS
<1>3. PICK h \in [SUBSET (1 .. M) -> X] : IsFold(h, M, Default, F)
  <2> HIDE DEF X, F
  <2> QED
    BY <1>a, FoldExists
<1>4. ASSUME NEW s \in SUBSET (1 .. M)
      PROVE  h[s] = IF s = {} THEN Default ELSE ParseFile(h[s \ {Max(s)}], fs[Max(s)])
  <2>1. CASE s = {}
    BY <1>3, <2>1 DEF IsFold
  <2>2. CASE s # {}
    <3>1. Max(s) \in 1 .. M /\ s \ {Max(s)} \in SUBSET (1 .. M)
      BY <2>2, HighestNumber
    <3>2. h[s \ {Max(s)}] \in X
      BY <1>3, <3>1
    <3> HIDE DEF X, F
    <3> QED
      BY <1>2, <1>3, <2>2, <3>1, <3>2 DEF IsFold
  <2> QED
    BY <2>1, <2>2
<1>5. Eqn(h)
  <2>1. h = [s \in SUBSET (1 .. M) |-> h[s]]
    BY <1>3
  <2> QED
    BY <1>4, <2>1 DEF AreFiles
<1>6. Eqn(it)
  <2> HIDE DEF Eqn
  <2> QED
    BY <1>5
<1>7. ReadLdapRc(fs) = it[DOMAIN fs]
  BY DEF ReadLdapRc, FoldLeft, MapThenFoldSet
<1>8. \A s \in SUBSET (1 .. M) :
         it[s] = IF s = {} THEN Default ELSE ParseFile(it[s \ {Max(s)}], fs[Max(s)])
  <2> HIDE DEF it
  <2> QED
    BY <1>6 DEF AreFiles
<1> HIDE DEF it
<1> QED
  BY <1>7, <1>8 DEF FilesFold, IsFilesFold, AreFiles

\* R is what the first n files say.
Told(R, fs, n) ==
    \A k \in Settings :
        /\ R[k] = Default[k] => \A i \in 1 .. n : \A j \in 1 .. Len(fs[i]) : ~Says(fs[i][j], k)
        /\ (\A i \in 1 .. n : \A j \in 1 .. Len(fs[i]) : ~Says(fs[i][j], k)) => R[k] = Default[k]
        /\ \A i \in 1 .. n : \A j \in 1 .. Len(fs[i]) :
              Says(fs[i][j], k) /\ (\A a \in 1 .. n : \A b \in 1 .. Len(fs[a]) :
                                       a < i \/ (a = i /\ b < j) => ~Says(fs[a][b], k))
                 => R[k] = fs[i][j].val

LEMMA FileTells ==
    ASSUME NEW R, NEW fs, NEW n \in Nat, Told(R, fs, n), NEW T,
           Filled(T, R, fs[n + 1], Len(fs[n + 1]))
    PROVE  Told(T, fs, n + 1)
<1>1. 1 .. n + 1 = (1 .. n) \cup {n + 1} /\ \A i \in 1 .. n : i < n + 1 /\ i # n + 1
  OBVIOUS
<1> SUFFICES ASSUME NEW k \in Settings
    PROVE  /\ T[k] = Default[k] => \A i \in 1 .. n + 1 : \A j \in 1 .. Len(fs[i]) : ~Says(fs[i][j], k)
           /\ (\A i \in 1 .. n + 1 : \A j \in 1 .. Len(fs[i]) : ~Says(fs[i][j], k)) => T[k] = Default[k]
           /\ \A i \in 1 .. n + 1 : \A j \in 1 .. Len(fs[i]) :
                 Says(fs[i][j], k) /\ (\A a \in 1 .. n + 1 : \A b \in 1 .. Len(fs[a]) :
                                          a < i \/ (a = i /\ b < j) => ~Says(fs[a][b], k))
                    => T[k] = fs[i][j].val
  BY DEF Told
<1>2. T[k] = Default[k] => \A i \in 1 .. n + 1 : \A j \in 1 .. Len(fs[i]) : ~Says(fs[i][j], k)
  <2>1. T[k] = Default[k] => R[k] = Default[k]
    BY DEF Filled
  <2> QED
    BY <1>1, <2>1 DEF Filled, Told
<1>3. (\A i \in 1 .. n + 1 : \A j \in 1 .. Len(fs[i]) : ~Says(fs[i][j], k)) => T[k] = Default[k]
  BY <1>1 DEF Filled, Told
<1>4. ASSUME NEW i \in 1 .. n + 1, NEW j \in 1 .. Len(fs[i]), Says(fs[i][j], k),
             \A a \in 1 .. n + 1 : \A b \in 1 .. Len(fs[a]) :
                a < i \/ (a = i /\ b < j) => ~Says(fs[a][b], k)
      PROVE  T[k] = fs[i][j].val
  <2>1. CASE i \in 1 .. n
    <3>1. R[k] = fs[i][j].val
      BY <1>1, <1>4, <2>1 DEF Told
    <3>2. R[k] # Default[k]
      BY <1>4, <3>1 DEF Says
    <3> QED
      BY <3>1, <3>2 DEF Filled
  <2>2. CASE i = n + 1
    <3>1. \A a \in 1 .. n : \A b \in 1 .. Len(fs[a]) : ~Says(fs[a][b], k)
      BY <1>1, <1>4, <2>2
    <3>2. R[k] = Default[k]
      BY <3>1 DEF Told
    <3>3. \A b \in 1 .. Len(fs[i]) : b < j => ~Says(fs[i][b], k)
      BY <1>4
    <3> QED
      BY <1>4, <2>2, <3>2, <3>3 DEF Filled
  <2> QED
    BY <1>1, <2>1, <2>2
<1> QED
  BY <1>2, <1>3, <1>4

\* readLdapRc: what the files say, file by file.
LEMMA FilesTell ==
    ASSUME NEW V, Default \in [Settings -> V], NEW M \in Nat, NEW fs, AreFiles(fs, M, V)
    PROVE  ReadLdapRc(fs) \in [Settings -> V] /\ Told(ReadLdapRc(fs), fs, M)
<1>0. IsFilesFold(ReadLdapRc(fs), M, Default, fs)
  BY ReadLdapRcFolds
<1>1. PICK g : FilesFold(g, M, Default, fs) /\ ReadLdapRc(fs) = g[1 .. M]
  BY <1>0 DEF IsFilesFold
<1> DEFINE P == {n \in 0 .. M : g[1 .. n] \in [Settings -> V] /\ Told(g[1 .. n], fs, n)}
<1>2. 0 \in P
  <2>1. 1 .. 0 = {} /\ 0 \in 0 .. M
    OBVIOUS
  <2>2. g[1 .. 0] = Default
    BY <1>1, <2>1 DEF FilesFold
  <2>3. Told(Default, fs, 0)
    BY <2>1 DEF Told
  <2> QED
    BY <2>1, <2>2, <2>3
<1>3. ASSUME NEW n \in 0 .. M, n # M, n \in P PROVE n + 1 \in P
  <2> DEFINE s == 1 .. n + 1
  <2>1. n \in Nat /\ n + 1 \in 0 .. M /\ n + 1 \in 1 .. M
    BY <1>3
  <2>2. s \in SUBSET (1 .. M) /\ s # {} /\ s \ {n + 1} = 1 .. n
    BY <2>1
  <2>3. Max(s) = n + 1
    BY <2>1, HighestOfRange
  <2> HIDE DEF s
  <2>4. g[s] = ParseFile(g[1 .. n], fs[n + 1])
    BY <1>1, <2>2, <2>3 DEF FilesFold
  <2>5. g[1 .. n] \in [Settings -> V] /\ Told(g[1 .. n], fs, n)
    BY <1>3
  <2> DEFINE R == g[1 .. n]
             file == fs[n + 1]
             N == Len(file)
  <2>6. R \in [Settings -> V] /\ N \in Nat /\ IsFile(file, N, V)
    BY <2>1, <2>5 DEF AreFiles
  <2> HIDE DEF R, file, N
  <2>7. ParseFile(R, file) \in [Settings -> V] /\ Filled(ParseFile(R, file), R, file, N)
    BY <2>6, FileFills
  <2>8. g[s] \in [Settings -> V] /\ Filled(g[s], R, file, N)
    BY <2>4, <2>7 DEF R, file
  <2>9. Told(g[s], fs, n + 1)
    BY <2>1, <2>5, <2>8, FileTells DEF R, file, N
  <2> QED
    BY <2>1, <2>8, <2>9 DEF s
<1> HIDE DEF P
<1>4. M \in P
  <2>1. M \in 0 .. M
    OBVIOUS
  <2> QED
    BY <1>2, <1>3, <2>1, Climb
<1> QED
  BY <1>1, <1>4 DEF P

\* The files of the session are files.
LEMMA FilesAreFiles ==
    ASSUME files \in RcFiles \cup {<<>>}
    PROVE  \E V : Default \in [Settings -> V] /\ Len(files) \in Nat /\ AreFiles(files, Len(files), V)
<1> DEFINE V == {Default[k] : k \in Settings} \cup {LineAt(p).val : p \in Places}
<1>1. Default \in [Settings -> V]
  <2>1. Default = [k \in Settings |-> Default[k]]
    BY DefaultAssumption DEF Settings
  <2>2. \A k \in Settings : Default[k] \in V
    OBVIOUS
  <2> HIDE DEF V
  <2> QED
    BY <2>1, <2>2
<1>2. \E S : files \in Seq(S)
  <2>1. CASE files = <<>>
    <3>1. files \in Seq({})
      BY <2>1
    <3> QED
      BY <3>1
  <2>2. CASE files \in RcFiles
    BY <2>2, FilesAssumption
  <2> QED
    BY <2>1, <2>2
<1>3. Len(files) \in Nat /\ DOMAIN files = 1 .. Len(files)
  BY <1>2
<1>4. ASSUME NEW i \in 1 .. Len(files) PROVE Len(files[i]) \in Nat /\ IsFile(files[i], Len(files[i]), V)
  <2>1. files[i] \in Seq(ToSet(files[i]))
    <3>1. files # <<>>
      BY <1>3, <1>4
    <3>2. files \in RcFiles
      BY <3>1
    <3>3. files[i] \in ToSet(files)
      BY <1>3 DEF ToSet
    <3> QED
      BY <3>2, <3>3, FilesAssumption
  <2>2. Len(files[i]) \in Nat /\ DOMAIN files[i] = 1 .. Len(files[i])
    BY <2>1
  <2>3. ASSUME NEW j \in 1 .. Len(files[i]) PROVE files[i][j].val \in V
    <3>1. <<i, j>> \in Places
      BY <1>3, <2>2 DEF Places
    <3>2. LineAt(<<i, j>>) = files[i][j]
      BY DEF LineAt
    <3> QED
      BY <3>1, <3>2
  <2> HIDE DEF V
  <2> QED
    BY <2>2, <2>3 DEF IsFile
<1> HIDE DEF V
<1> QED
  BY <1>1, <1>3, <1>4 DEF AreFiles

\* What is read of the files is what they say: for each setting the value of the first line that
\* gives another than the default.
LEMMA FilesAreRead ==
    ASSUME files \in RcFiles \cup {<<>>}
    PROVE  DOMAIN ReadLdapRc(files) = Settings /\ \A k \in Settings : ReadLdapRc(files)[k] = InFiles(k)
<1>1. PICK V : Default \in [Settings -> V] /\ Len(files) \in Nat /\ AreFiles(files, Len(files), V)
  BY FilesAreFiles
<1> DEFINE R == ReadLdapRc(files)
           M == Len(files)
<1>2. R \in [Settings -> V] /\ Told(R, files, M)
  <2>1. M \in Nat /\ AreFiles(files, M, V)
    BY <1>1
  <2> HIDE DEF M
  <2> QED
    BY <1>1, <2>1, FilesTell
<1>3. /\ DOMAIN files = 1 .. M
      /\ \A i \in 1 .. M : DOMAIN files[i] = 1 .. Len(files[i]) /\ Len(files[i]) \in Nat
  BY <1>1 DEF AreFiles, IsFile
<1>4. /\ \A i \in 1 .. M : \A j \in 1 .. Len(files[i]) : <<i, j>> \in Places
      /\ \A p \in Places : \E i \in 1 .. M : \E j \in 1 .. Len(files[i]) : p = <<i, j>>
  BY <1>3 DEF Places
<1>5. \A i, j, k : Gives(<<i, j>>, k) <=> Says(files[i][j], k)
  BY DEF Gives, Says, LineAt
<1> HIDE DEF R, M
<1>6. ASSUME NEW k \in Settings PROVE R[k] = InFiles(k)
  <2> DEFINE given == {p \in Places : Gives(p, k)}
  <2>1. CASE given = {}
    <3>1. \A i \in 1 .. M : \A j \in 1 .. Len(files[i]) : ~Says(files[i][j], k)
      BY <1>4, <1>5, <2>1
    <3> QED
      BY <1>2, <2>1, <3>1 DEF Told, InFiles
  <2>2. CASE given # {}
    <3> DEFINE I == {i \in 1 .. M : \E j \in 1 .. Len(files[i]) : Says(files[i][j], k)}
    <3>1. I \in SUBSET Nat /\ I # {}
      BY <1>4, <1>5, <2>2
    <3>2. PICK i \in I : \A a \in I : i <= a
      <4> HIDE DEF I
      <4> QED
        BY <3>1, LeastNumber
    <3> DEFINE J == {j \in 1 .. Len(files[i]) : Says(files[i][j], k)}
    <3>3. J \in SUBSET Nat /\ J # {}
      OBVIOUS
    <3>4. PICK j \in J : \A b \in J : j <= b
      <4> HIDE DEF J
      <4> QED
        BY <3>3, LeastNumber
    <3>5. i \in 1 .. M /\ j \in 1 .. Len(files[i]) /\ Says(files[i][j], k)
      OBVIOUS
    <3>6. ASSUME NEW a \in 1 .. M, NEW b \in 1 .. Len(files[a]), Says(files[a][b], k)
          PROVE  i < a \/ (i = a /\ j <= b)
      <4>1. i <= a
        BY <3>2, <3>6
      <4>2. i = a => j <= b
        BY <3>4, <3>6
      <4> QED
        BY <4>1, <4>2
    <3> HIDE DEF I, J
    <3> DEFINE p == <<i, j>>
    <3>7. p \in given /\ LineAt(p).val = files[i][j].val
      BY <1>4, <1>5, <3>5 DEF LineAt
    <3>8. \A q \in given : NotAfter(p, q)
      <4> SUFFICES ASSUME NEW q \in given PROVE NotAfter(p, q)
        OBVIOUS
      <4>1. PICK a \in 1 .. M : \E b \in 1 .. Len(files[a]) : q = <<a, b>>
        BY <1>4
      <4>2. PICK b \in 1 .. Len(files[a]) : q = <<a, b>>
        BY <4>1
      <4>3. Says(files[a][b], k)
        BY <1>5, <4>2
      <4> QED
        BY <3>6, <4>2, <4>3 DEF NotAfter
    <3>9. ASSUME NEW q \in given, \A r \in given : NotAfter(q, r) PROVE q = p
      <4>1. PICK a \in 1 .. M : \E b \in 1 .. Len(files[a]) : q = <<a, b>>
        BY <1>4
      <4>2. PICK b \in 1 .. Len(files[a]) : q = <<a, b>>
        BY <4>1
      <4>3. Says(files[a][b], k)
        BY <1>5, <4>2
      <4>4. i < a \/ (i = a /\ j <= b)
        BY <3>6, <4>3
      <4>5. NotAfter(q, p)
        BY <3>7, <3>9
      <4>6. a < i \/ (a = i /\ b <= j)
        BY <4>2, <4>5 DEF NotAfter
      <4>7. b \in Nat /\ j \in Nat /\ a \in Nat /\ i \in Nat
        BY <1>3, <3>5
      <4> QED
        BY <4>2, <4>4, <4>6, <4>7
    <3> HIDE DEF p, given
    <3>10. (CHOOSE q \in given : \A r \in given : NotAfter(q, r)) = p
      BY <3>7, <3>8, <3>9
    <3>11. InFiles(k) = files[i][j].val
      BY <2>2, <3>7, <3>10 DEF InFiles, given
    <3>12. ASSUME NEW a \in 1 .. M, NEW b \in 1 .. Len(files[a]), a < i \/ (a = i /\ b < j)
           PROVE  ~Says(files[a][b], k)
      <4>1. b \in Nat /\ j \in Nat /\ a \in Nat /\ i \in Nat
        BY <1>3, <3>5
      <4> QED
        BY <3>6, <3>12, <4>1
    <3>13. R[k] = files[i][j].val
      BY <1>2, <3>5, <3>12 DEF Told
    <3> QED
      BY <3>11, <3>13
  <2> QED
    BY <2>1, <2>2
<1> QED
  BY <1>2, <1>6 DEF R

-----------------------------------------------------------------------------
(* The log.                                                                  *)

IsLog(s) == \E S : s \in Seq(S)

LEMMA NoLog == IsLog(<<>>) /\ ~ \E k \in DOMAIN <<>> : TRUE
<1>1. <<>> \in Seq({})
  OBVIOUS
<1>2. DOMAIN <<>> = 1 .. Len(<<>>) /\ Len(<<>>) = 0
  OBVIOUS
<1> QED
  BY <1>1, <1>2 DEF IsLog

LEMMA LogGrows ==
    ASSUME NEW s, IsLog(s), NEW x
    PROVE  /\ IsLog(Append(s, x))
           /\ \A k \in DOMAIN Append(s, x) : Append(s, x)[k] = x \/ (k \in DOMAIN s /\ Append(s, x)[k] = s[k])
<1>1. PICK S : s \in Seq(S)
  BY DEF IsLog
<1>2. s \in Seq(S \cup {x})
  BY <1>1
<1>3. Append(s, x) \in Seq(S \cup {x})
  BY <1>2
<1>4. IsLog(Append(s, x))
  BY <1>3 DEF IsLog
<1>5. /\ Len(s) \in Nat /\ DOMAIN s = 1 .. Len(s) /\ DOMAIN Append(s, x) = 1 .. Len(s) + 1
      /\ \A k \in 1 .. Len(s) : Append(s, x)[k] = s[k]
      /\ Append(s, x)[Len(s) + 1] = x
  BY <1>1
<1> QED
  BY <1>4, <1>5

-----------------------------------------------------------------------------
(* The exit code.                                                            *)

\* main() does without the exchange, or was told it ended well, which is false at most of
\* one it is not told the end of.
Well(x) == x.req \notin Optional => x.told /\ (~x.ok => x.req \in Silent)
AllWell == \A k \in DOMAIN log : Well(log[k])

WellInv ==
    /\ IsLog(log)
    /\ hadError \in BOOLEAN
    /\ filters # <<>> \/ hadError => cfg.cli /\ ~cfg.aclCheck /\ pc \in {"query", "exit"}
    /\ pc # "exit" /\ ~hadError => AllWell
    /\ pc = "exit" /\ exit = 0 => AllWell

LEMMA SameLogIsWell ==
    ASSUME WellInv, UNCHANGED <<log, hadError, filters>>, pc # "exit",
           filters # <<>> \/ hadError => pc' \in {"query", "exit"} /\ cfg' = cfg,
           pc' = "exit" => exit' = 1 \/ ~hadError
    PROVE  WellInv'
<1>1. AllWell' <=> AllWell
  BY DEF AllWell
<1> QED
  BY <1>1 DEF WellInv

\* An exchange that fails is optional, or followed by exit 1, at once or under -c when the
\* filters have all been run.
LEMMA ExchangeIsWell ==
    ASSUME WellInv, pc # "exit", NEW x, log' = Append(log, x), hadError' \in BOOLEAN,
           hadError => hadError',
           filters' # <<>> \/ hadError' => cfg'.cli /\ ~cfg'.aclCheck /\ pc' \in {"query", "exit"},
           ~Well(x) => hadError' \/ pc' = "exit",
           ~Well(x) \/ hadError' => (pc' = "exit" => exit' # 0)
    PROVE  WellInv'
<1>1. IsLog(log')
  BY LogGrows DEF WellInv
<1>2. AllWell /\ Well(x) => AllWell'
  BY LogGrows DEF WellInv, AllWell
<1> QED
  BY <1>1, <1>2 DEF WellInv

LEMMA ExchangeIs ==
    ASSUME NEW req, NEW with, NEW ok, Exchange(req, with, ok)
    PROVE  \E x : log' = Append(log, x) /\ x.req = req /\ x.ok = ok /\ x.told = ok
BY DEF Exchange, Answered

\* The phases before the query have no filter and no error to remember.
LEMMA EarlyExchangeIsWell ==
    ASSUME WellInv, pc \notin {"query", "exit"}, UNCHANGED <<filters, hadError>>,
           NEW req, NEW ok, NEW told,
           \E x : log' = Append(log, x) /\ x.req = req /\ x.ok = ok /\ x.told = told,
           ~(req \in Optional \/ (told /\ (ok \/ req \in Silent))) => pc' = "exit" /\ exit' # 0
    PROVE  WellInv'
<1>1. PICK x : log' = Append(log, x) /\ x.req = req /\ x.ok = ok /\ x.told = told
  OBVIOUS
<1>2. filters = <<>> /\ hadError = FALSE
  BY DEF WellInv
<1>3. ~Well(x) => pc' = "exit" /\ exit' # 0
  BY <1>1 DEF Well
<1> QED
  BY <1>1, <1>2, <1>3, ExchangeIsWell

LEMMA StepWell == WellInv /\ [Next]_vars => WellInv'
<1> SUFFICES ASSUME WellInv, [Next]_vars PROVE WellInv'
  OBVIOUS
<1>1. CASE ReadOption \/ EndOptions \/ Settle \/ Password \/ Connect \/ Controls \/ RequestsDone
  <2>1. pc \notin {"query", "exit"} /\ UNCHANGED <<log, hadError, filters>>
    BY <1>1 DEF ReadOption, EndOptions, Settle, Password, Connect, Controls, RequestsDone
  <2>2. filters = <<>> /\ hadError = FALSE
    BY <2>1 DEF WellInv
  <2> QED
    BY <2>1, <2>2, SameLogIsWell
<1>2. CASE StartTLS
  <2>1. pc = "starttls" /\ UNCHANGED <<filters, hadError>>
    BY <1>2 DEF StartTLS
  <2>2. CASE cfg.starttls = 0
    <3>1. filters = <<>> /\ hadError = FALSE /\ log' = log
      BY <1>2, <2>1, <2>2 DEF WellInv, StartTLS
    <3> QED
      BY <2>1, <3>1, SameLogIsWell
  <2>3. CASE cfg.starttls # 0
    <3>1. PICK ok \in BOOLEAN :
              log' = Append(log, [req |-> "starttls", with |-> "", tls |-> ok,
                                  ok |-> ok, told |-> ok])
      BY <1>2, <2>3 DEF StartTLS
    <3>2. \E x : log' = Append(log, x) /\ x.req = "starttls" /\ x.ok = ok /\ x.told = ok
      <4> DEFINE x == [req |-> "starttls", with |-> "", tls |-> ok, ok |-> ok, told |-> ok]
      <4>1. log' = Append(log, x) /\ x.req = "starttls" /\ x.ok = ok /\ x.told = ok
        BY <3>1
      <4> QED
        BY <4>1
    <3>3. "starttls" \in Optional
      BY DEF Optional
    <3> QED
      BY <2>1, <3>2, <3>3, EarlyExchangeIsWell
  <2> QED
    BY <2>2, <2>3
<1>3. CASE Bind
  <2> DEFINE req  == IF cfg.simple THEN "simple" ELSE "sasl"
             with == IF cfg.simple THEN cfg.password ELSE cfg.set["SASL_MECH"]
  <2>1. PICK ok \in BOOLEAN :
            /\ Exchange(req, with, ok)
            /\ IF ok THEN pc' = "requests" /\ exit' = exit ELSE Exits(1)
    BY <1>3 DEF Bind
  <2>2. pc = "bind" /\ UNCHANGED <<filters, hadError>>
    BY <1>3 DEF Bind
  <2> HIDE DEF req, with
  <2>3. ~ok => pc' = "exit" /\ exit' # 0
    BY <2>1 DEF Exits
  <2>4. \E x : log' = Append(log, x) /\ x.req = req /\ x.ok = ok /\ x.told = ok
    BY <2>1, ExchangeIs
  <2> QED
    BY <2>2, <2>3, <2>4, EarlyExchangeIsWell
<1>4. CASE Request
  <2>1. pc = "requests" /\ UNCHANGED <<filters, hadError>>
    BY <1>4 DEF Request
  <2>2. CASE Exits(1) /\ UNCHANGED log
    <3>1. filters = <<>> /\ hadError = FALSE
      BY <2>1 DEF WellInv
    <3> QED
      BY <2>1, <2>2, <3>1, SameLogIsWell DEF Exits
  <2>3. CASE ~ (Exits(1) /\ UNCHANGED log)
    <3> DEFINE req  == FirstOf(asked)
               with == IF req = "increment" THEN cfg.set["BASE"] ELSE ""
    <3>1. PICK ok \in BOOLEAN : \E told \in Returns(req, ok) :
             /\ Answered(req, with, ok, told)
             /\ (~ told /\ Exits(1)) \/ told
      BY <1>4, <2>3 DEF Request
    <3>0. PICK told \in Returns(req, ok) :
             /\ Answered(req, with, ok, told)
             /\ (~ told /\ Exits(1)) \/ told
      BY <3>1
    <3> HIDE DEF req, with
    <3>4. told /\ ~ok => req \in Silent
      BY <3>0 DEF Returns, Silent
    <3>2. ~(req \in Optional \/ (told /\ (ok \/ req \in Silent))) => pc' = "exit" /\ exit' # 0
      BY <3>0, <3>4 DEF Exits
    <3>3. \E x : log' = Append(log, x) /\ x.req = req /\ x.ok = ok /\ x.told = told
      BY <3>0 DEF Answered
    <3> QED
      BY <2>1, <3>2, <3>3, EarlyExchangeIsWell
  <2> QED
    BY <2>2, <2>3
<1>5. CASE Flavor
  <2>1. pc = "flavor" /\ UNCHANGED <<filters, hadError>> /\ "flavor" \in Optional
    BY <1>5 DEF Flavor, Optional
  <2>2. \E with, ok : Exchange("flavor", with, ok)
    BY <1>5 DEF Flavor
  <2> QED
    BY <2>1, <2>2, ExchangeIs, EarlyExchangeIsWell
<1>6. CASE Base \/ AclBase
  <2>1. pc \in {"base", "aclbase"} /\ UNCHANGED <<filters, hadError>> /\ "contexts" \in Optional
    BY <1>6 DEF Base, AclBase, Optional
  <2>2. CASE UNCHANGED log
    <3>1. filters = <<>> /\ hadError = FALSE
      BY <2>1 DEF WellInv
    <3> QED
      BY <2>1, <2>2, <3>1, SameLogIsWell
  <2>3. CASE DetectBase
    <3>1. \E with, ok : Exchange("contexts", with, ok)
      BY <2>3 DEF DetectBase
    <3> QED
      BY <2>1, <3>1, ExchangeIs, EarlyExchangeIsWell
  <2> QED
    BY <1>6, <2>2, <2>3 DEF Base, AclBase
<1>7. CASE AclCheck
  <2>1. pc = "query" /\ cfg.aclCheck /\ UNCHANGED <<filters, hadError>>
    BY <1>7 DEF AclCheck
  <2>2. PICK found \in BOOLEAN :
            Exchange("acl", cfg.set["BASE"], found) /\ Exits(IF found THEN 0 ELSE 1)
    BY <1>7 DEF AclCheck
  <2>3. PICK x : log' = Append(log, x) /\ x.req = "acl" /\ x.ok = found /\ x.told = found
    BY <2>2, ExchangeIs
  <2>6. ~Well(x) => ~found
    BY <2>3 DEF Well
  <2>4. filters = <<>> /\ hadError = FALSE
    BY <2>1 DEF WellInv
  <2>5. ~found => pc' = "exit" /\ exit' # 0
    BY <2>2 DEF Exits
  <2> QED
    BY <2>1, <2>3, <2>4, <2>5, <2>6, ExchangeIsWell
<1>8. CASE TakeFilters
  <2>1. /\ pc = "query" /\ cfg.cli /\ ~cfg.aclCheck
        /\ UNCHANGED <<log, hadError, cfg>>
        /\ pc' = pc \/ (pc' = "exit" /\ exit' = 1)
    BY <1>8 DEF TakeFilters, Exits
  <2>2. AllWell' <=> AllWell
    BY <2>1 DEF AllWell
  <2> QED
    BY <2>1, <2>2 DEF WellInv
<1>9. CASE Search
  <2>1. pc = "query" /\ filters # <<>> /\ UNCHANGED cfg
    BY <1>9 DEF Search
  <2> DEFINE with == Head(filters)
  <2>2. PICK ok \in BOOLEAN :
            /\ Exchange("search", with, ok)
            /\ hadError' = (hadError \/ ~ ok)
            /\ \/ ~ ok /\ ~ cfg.continue /\ Exits(1)
               \/ (ok \/ cfg.continue) /\ Tail(filters) = <<>> /\ Exits(ExitCode(hadError'))
               \/ (ok \/ cfg.continue) /\ Tail(filters) # <<>> /\ UNCHANGED <<pc, exit>>
    BY <1>9 DEF Search
  <2> HIDE DEF with
  <2>3. PICK x : log' = Append(log, x) /\ x.req = "search" /\ x.ok = ok /\ x.told = ok
    BY <2>2, ExchangeIs
  <2>7. ~Well(x) => ~ok
    BY <2>3 DEF Well
  <2>4. cfg'.cli /\ ~cfg'.aclCheck /\ pc' \in {"query", "exit"}
    BY <2>1, <2>2 DEF WellInv, Exits
  <2>5. hadError' => (pc' = "exit" => exit' # 0)
    BY <2>1, <2>2 DEF Exits, ExitCode
  <2>6. hadError \in BOOLEAN /\ hadError' \in BOOLEAN /\ (hadError => hadError') /\ (~ok => hadError')
    BY <2>2 DEF WellInv
  <2> QED
    BY <2>1, <2>3, <2>4, <2>5, <2>6, <2>7, ExchangeIsWell
<1>10. CASE Launch
  <2>1. /\ pc = "query" /\ ~cfg.cli
        /\ UNCHANGED <<log, hadError, cfg, filters>>
        /\ pc' = "exit" => exit' = 1
    BY <1>10 DEF Launch, Exits
  <2>2. filters = <<>> /\ hadError = FALSE
    BY <2>1 DEF WellInv
  <2> QED
    BY <2>1, <2>2, SameLogIsWell
<1>11. CASE UNCHANGED vars
  BY <1>11 DEF vars, WellInv, AllWell
<1> QED
  BY <1>1, <1>2, <1>3, <1>4, <1>5, <1>6, <1>7, <1>8, <1>9, <1>10, <1>11 DEF Next

\* Exit code 0 and the opening of the interface tell that main() was told of no failure
\* it does not do without, under -c too; and all that failed untold are the capabilities
\* and the streams the server ended with an error.
THEOREM ExitIsTrue == Spec => []ExitTells
<1>1. Init => WellInv
  <2> SUFFICES ASSUME Init PROVE WellInv
    OBVIOUS
  <2>1. log = <<>>
    BY DEF Init
  <2>2. IsLog(log) /\ AllWell
    BY <2>1, NoLog DEF AllWell
  <2> QED
    BY <2>2 DEF Init, WellInv
<1>2. WellInv => ExitTells
  BY DEF WellInv, ExitTells, AllWell, Well
<1> QED
  BY <1>1, <1>2, StepWell, PTL DEF Spec

-----------------------------------------------------------------------------
(* -ZZ.                                                                      *)

\* The phases before the server is spoken to, StartTLS apart.
Before == {"options", "settings", "password", "connect", "controls", "starttls"}

\* How many options have been read.
Seen == Len(line) - Len(todo)

\* What is left of the line is its end.
LineInv ==
    /\ line \in Seq(ToSet(line))
    /\ todo \in Seq(ToSet(line))
    /\ Len(todo) <= Len(line)
    /\ \A i \in 1 .. Len(todo) : todo[i] = line[Seen + i]

\* Two -Z among the options read make the level 2.
LevelInv ==
    /\ "starttls" \in DOMAIN cfg
    /\ cfg.starttls \in 0 .. 2
    /\ \A i \in 1 .. Seen : line[i].o = "Z" => cfg.starttls # 0
    /\ \A i, j \in 1 .. Seen : i < j /\ line[i].o = "Z" /\ line[j].o = "Z" => cfg.starttls = 2

LinkInv ==
    /\ IsLog(log)
    /\ pc \in Before => log = <<>>
    /\ pc \notin {"options", "exit"} => todo = <<>>
    /\ log # <<>> => todo = <<>>
    /\ pc \notin Before \cup {"exit"} => (cfg.starttls = 2 => link = "tls")
    /\ cfg.starttls = 2 =>
          \A i \in DOMAIN log : log[i].req # "starttls" => log[i].tls

LEMMA OptionLevel ==
    ASSUME NEW c, "starttls" \in DOMAIN c, NEW opt
    PROVE  /\ "starttls" \in DOMAIN Option(c, opt)
           /\ Option(c, opt).starttls = IF opt.o = "Z" THEN StartTLSLevel(c.starttls)
                                                      ELSE c.starttls
<1>1. "Z" \notin DOMAIN SettingOf
  BY DEF SettingOf
<1> QED
  BY <1>1 DEF Option

\* The options change in the loop only, where one more is read.
LEMMA StepReads == LineInv /\ LevelInv /\ [Next]_vars => LineInv' /\ LevelInv'
<1> SUFFICES ASSUME LineInv, LevelInv, [Next]_vars PROVE LineInv' /\ LevelInv'
  OBVIOUS
<1>1. CASE UNCHANGED <<line, todo>> /\ "starttls" \in DOMAIN cfg' /\ cfg'.starttls = cfg.starttls
  <2>1. Seen' = Seen
    BY <1>1 DEF Seen
  <2> QED
    BY <1>1, <2>1 DEF LineInv, LevelInv
<1>2. CASE ReadOption
  <2>1. todo # <<>> /\ line' = line
    BY <1>2 DEF ReadOption
  <2>2. (UNCHANGED <<todo, cfg>>) \/ (cfg' = Option(cfg, Head(todo)) /\ todo' = Tail(todo))
    BY <1>2 DEF ReadOption
  <2>3. CASE UNCHANGED <<todo, cfg>>
    BY <1>1, <2>1, <2>3 DEF LevelInv
  <2>4. CASE cfg' = Option(cfg, Head(todo)) /\ todo' = Tail(todo)
    <3> DEFINE n == Seen + 1
    <3>1. /\ todo' \in Seq(ToSet(line))
          /\ Len(todo') = Len(todo) - 1
          /\ \A i \in 1 .. Len(todo') : todo'[i] = todo[i + 1]
          /\ Head(todo) = todo[1]
          /\ Len(todo) \in Nat \ {0} /\ Len(line) \in Nat
      BY <2>1, <2>4 DEF LineInv
    <3>2. Seen' = n /\ Seen \in Nat /\ n \in Nat /\ Head(todo) = line[n] /\ 1 .. n = (1 .. Seen) \cup {n}
      BY <2>1, <3>1 DEF Seen, LineInv
    <3>3. LineInv'
      <4>1. ASSUME NEW i \in 1 .. Len(todo') PROVE todo'[i] = line[Seen' + i]
        <5>1. i + 1 \in 1 .. Len(todo) /\ Seen' + i = Seen + (i + 1)
          BY <3>1, <3>2
        <5> QED
          BY <5>1, <3>1 DEF LineInv
      <4> QED
        BY <4>1, <2>1, <3>1 DEF LineInv
    <3>4. /\ "starttls" \in DOMAIN cfg'
          /\ cfg'.starttls = IF line[n].o = "Z" THEN StartTLSLevel(cfg.starttls) ELSE cfg.starttls
      BY <2>4, <3>2, OptionLevel DEF LevelInv
    <3> HIDE DEF n
    <3>5. cfg'.starttls \in 0 .. 2 /\ cfg'.starttls >= cfg.starttls
      BY <3>4 DEF LevelInv, StartTLSLevel
    <3>6. ASSUME NEW i \in 1 .. n, line[i].o = "Z" PROVE cfg'.starttls # 0
      <4>1. CASE i = n
        BY <3>4, <3>6, <4>1 DEF LevelInv, StartTLSLevel
      <4>2. CASE i \in 1 .. Seen
        BY <3>5, <3>6, <4>2 DEF LevelInv
      <4> QED
        BY <3>2, <4>1, <4>2
    <3>7. ASSUME NEW i \in 1 .. n, NEW j \in 1 .. n, i < j, line[i].o = "Z", line[j].o = "Z"
          PROVE  cfg'.starttls = 2
      <4>1. i \in 1 .. Seen
        BY <3>2, <3>7
      <4>2. cfg.starttls \in 1 .. 2
        BY <4>1, <3>7 DEF LevelInv
      <4>3. CASE j = n
        BY <4>2, <4>3, <3>4, <3>7 DEF StartTLSLevel
      <4>4. CASE j \in 1 .. Seen
        <5>1. cfg.starttls = 2
          BY <4>1, <4>4, <3>7 DEF LevelInv
        <5> QED
          BY <5>1, <3>5
      <4> QED
        BY <3>2, <4>3, <4>4
    <3> QED
      BY <2>1, <3>2, <3>3, <3>4, <3>5, <3>6, <3>7 DEF LevelInv
  <2> QED
    BY <2>2, <2>3, <2>4
<1>3. CASE EndOptions \/ Settle \/ Password
  BY <1>1, <1>3 DEF EndOptions, Settle, Password, LevelInv, Implied
<1>4. CASE Base \/ AclBase
  BY <1>1, <1>4 DEF Base, AclBase, DetectBase, LevelInv
<1>5. CASE \/ Connect \/ Controls \/ StartTLS \/ Bind \/ Request \/ RequestsDone \/ Flavor
           \/ AclCheck \/ TakeFilters \/ Search \/ Launch \/ UNCHANGED vars
  <2>1. UNCHANGED <<line, todo, cfg>>
    BY <1>5 DEF Connect, Controls, StartTLS, Bind, Request, RequestsDone, Flavor, AclCheck,
                TakeFilters, Search, Launch, vars
  <2> QED
    BY <1>1, <2>1 DEF LevelInv
<1> QED
  BY <1>2, <1>3, <1>4, <1>5 DEF Next

\* Nothing is sent before StartTLS, and what comes later is sent over the link it left.
LEMMA StepLink == LevelInv /\ LevelInv' /\ LinkInv /\ [Next]_vars => LinkInv'
<1> SUFFICES ASSUME LevelInv, LevelInv', LinkInv, [Next]_vars PROVE LinkInv'
  OBVIOUS
<1>1. CASE ReadOption \/ EndOptions \/ Settle \/ Password \/ Connect \/ Controls
  <2>1. pc \in Before \ {"starttls"} /\ log' = log /\ pc' \in Before \cup {"exit"}
    BY <1>1 DEF ReadOption, EndOptions, Settle, Password, Connect, Controls, Before, Exits
  <2>2. pc' \notin {"options", "exit"} => todo' = <<>>
    BY <1>1 DEF ReadOption, EndOptions, Settle, Password, Connect, Controls, Before, Exits, LinkInv
  <2>3. log' = <<>> /\ (~ \E k \in DOMAIN log' : TRUE) /\ IsLog(log')
    BY <2>1, NoLog DEF LinkInv
  <2> QED
    BY <2>1, <2>2, <2>3 DEF LinkInv
<1>2. CASE StartTLS
  <2>1. pc = "starttls" /\ UNCHANGED <<todo, cfg>> /\ todo = <<>> /\ log = <<>>
    BY <1>2 DEF StartTLS, LinkInv, Before
  <2>4. ~ \E k \in DOMAIN log : TRUE
    BY <2>1, NoLog
  <2>2. CASE cfg.starttls = 0
    <3>1. log' = log /\ pc' = "bind"
      BY <1>2, <2>2 DEF StartTLS
    <3> QED
      BY <2>1, <2>2, <2>4, <3>1 DEF LinkInv, Before
  <2>3. CASE cfg.starttls # 0
    <3>1. PICK ok \in BOOLEAN :
              /\ log' = Append(log, [req |-> "starttls", with |-> "", tls |-> ok, ok |-> ok, told |-> ok])
              /\ link' = IF ok THEN "tls" ELSE link
              /\ IF ~ ok /\ cfg.starttls = 2 THEN Exits(1) ELSE pc' = "bind" /\ exit' = exit
      BY <1>2, <2>3 DEF StartTLS
    <3> DEFINE x == [req |-> "starttls", with |-> "", tls |-> ok, ok |-> ok, told |-> ok]
    <3>2. log' = Append(log, x) /\ x.req = "starttls"
      BY <3>1
    <3> HIDE DEF x
    <3>3. IsLog(log') /\ \A k \in DOMAIN log' : log'[k].req = "starttls"
      BY <2>1, <2>4, <3>2, LogGrows DEF LinkInv
    <3>4. pc' \in {"bind", "exit"} /\ (pc' = "bind" => (cfg.starttls = 2 => link' = "tls"))
      BY <3>1 DEF Exits
    <3> QED
      BY <2>1, <3>3, <3>4 DEF LinkInv, Before
  <2> QED
    BY <2>2, <2>3
<1>3. ASSUME pc \notin Before, pc # "exit", UNCHANGED <<todo, link>>, pc' \notin Before,
             cfg'.starttls = cfg.starttls,
             log' = log \/ \E x : log' = Append(log, x) /\ x.tls = (link = "tls")
      PROVE  LinkInv'
  <2>1. todo = <<>> /\ (cfg.starttls = 2 => link = "tls")
    BY <1>3 DEF LinkInv, Before
  <2>2. CASE log' = log
    BY <1>3, <2>1, <2>2 DEF LinkInv
  <2>3. CASE \E x : log' = Append(log, x) /\ x.tls = (link = "tls")
    <3>1. PICK x : log' = Append(log, x) /\ x.tls = (link = "tls")
      BY <2>3
    <3>2. /\ IsLog(log')
          /\ \A k \in DOMAIN log' : log'[k] = x \/ (k \in DOMAIN log /\ log'[k] = log[k])
      BY <3>1, LogGrows DEF LinkInv
    <3>3. cfg'.starttls = 2 => \A i \in DOMAIN log' : log'[i].req # "starttls" => log'[i].tls
      BY <1>3, <2>1, <3>1, <3>2 DEF LinkInv
    <3> QED
      BY <1>3, <2>1, <3>2, <3>3 DEF LinkInv
  <2> QED
    BY <1>3, <2>2, <2>3
<1>4. ASSUME NEW req, NEW with, NEW ok, NEW told, Answered(req, with, ok, told)
      PROVE  \E x : log' = Append(log, x) /\ x.tls = (link = "tls")
  BY <1>4 DEF Answered
<1>5. CASE Bind \/ Request \/ Flavor \/ AclCheck \/ Search
  <2>1. /\ pc \in {"bind", "requests", "flavor", "query"} /\ UNCHANGED <<todo, link, cfg>>
        /\ pc' = pc \/ pc' \in {"requests", "base", "exit"}
    BY <1>5 DEF Bind, Request, Flavor, AclCheck, Search, Exits
  <2>2. log' = log \/ \E req, with, ok, told : Answered(req, with, ok, told)
    BY <1>5 DEF Bind, Request, Flavor, AclCheck, Search, Exchange
  <2> QED
    BY <1>3, <1>4, <2>1, <2>2 DEF Before
<1>6. CASE Base \/ AclBase
  <2>1. pc \in {"base", "aclbase"} /\ UNCHANGED <<todo, link>> /\ pc' \in {"aclbase", "query"}
    BY <1>6 DEF Base, AclBase
  <2>2. cfg'.starttls = cfg.starttls
    BY <1>6 DEF Base, AclBase, DetectBase, LevelInv
  <2>3. log' = log \/ \E req, with, ok, told : Answered(req, with, ok, told)
    BY <1>6 DEF Base, AclBase, DetectBase, Exchange
  <2> QED
    BY <1>3, <1>4, <2>1, <2>2, <2>3 DEF Before
<1>7. CASE RequestsDone \/ TakeFilters \/ Launch
  <2>1. /\ pc \in {"requests", "query"} /\ UNCHANGED <<todo, link, cfg, log>>
        /\ pc' = pc \/ pc' \in {"flavor", "tui", "exit"}
    BY <1>7 DEF RequestsDone, TakeFilters, Launch, Exits
  <2> QED
    BY <1>3, <2>1 DEF Before
<1>8. CASE UNCHANGED vars
  BY <1>8 DEF vars, LinkInv
<1> QED
  BY <1>1, <1>2, <1>5, <1>6, <1>7, <1>8 DEF Next

\* Two options of a name are two places of the line.
LEMMA TwoUses ==
    ASSUME LineInv, NEW o, Cardinality(Uses(o)) >= 2
    PROVE  \E i, j \in 1 .. Len(line) : i < j /\ line[i].o = o /\ line[j].o = o
<1>1. /\ DOMAIN line = 1 .. Len(line) /\ Len(line) \in Nat
      /\ Uses(o) \subseteq 1 .. Len(line)
      /\ \A i \in Uses(o) : line[i].o = o
  BY DEF LineInv, Uses
<1> DEFINE U == Uses(o)
<1> HIDE DEF U
<1>2. PICK i \in U : TRUE
  <2>1. U # {}
    BY FS_EmptySet DEF U
  <2> QED
    BY <2>1
<1>3. PICK j \in U : j # i
  <2>1. Cardinality({i}) = 1
    BY FS_Singleton
  <2>2. U # {i}
    BY <2>1 DEF U
  <2> QED
    BY <1>2, <2>2
<1>4. i \in 1 .. Len(line) /\ j \in 1 .. Len(line) /\ line[i].o = o /\ line[j].o = o
  BY <1>1, <1>2, <1>3 DEF U
<1>5. i < j \/ j < i
  BY <1>1, <1>3, <1>4
<1> QED
  BY <1>4, <1>5

LEMMA FirstLine == Init => LineInv /\ LevelInv /\ LinkInv /\ WellInv
<1> SUFFICES ASSUME Init PROVE LineInv /\ LevelInv /\ LinkInv /\ WellInv
  OBVIOUS
<1>1. line \in Seq(ToSet(line)) /\ todo = line
  BY CommandsAssumption DEF Init
<1>2. Len(line) \in Nat /\ Seen = 0
  BY <1>1 DEF Seen
<1>3. LineInv
  BY <1>1, <1>2 DEF LineInv
<1>4. "starttls" \in DOMAIN NoConfig /\ NoConfig.starttls = 0
  BY DEF NoConfig
<1>5. /\ cfg = NoConfig /\ pc = "options" /\ log = <<>> /\ filters = <<>> /\ hadError = FALSE
  BY DEF Init
<1>6. LevelInv
  BY <1>2, <1>4, <1>5 DEF LevelInv
<1>7. LinkInv
  BY <1>5, NoLog DEF LinkInv, Before
<1>8. WellInv
  BY <1>5, NoLog DEF WellInv, AllWell
<1> QED
  BY <1>3, <1>6, <1>7, <1>8

\* Under -ZZ nothing but StartTLS is sent over a link that TLS does not protect, whatever the
\* other options and whatever the server answers.
THEOREM ProtectedFirst == Spec => []TlsFirst
<1> DEFINE Inv == LineInv /\ LevelInv /\ LinkInv
<1>1. Init => Inv
  BY FirstLine
<1>2. Inv /\ [Next]_vars => Inv'
  BY StepReads, StepLink
<1>3. Inv => TlsFirst
  <2> SUFFICES ASSUME Inv, Cardinality(Uses("Z")) >= 2,
                      NEW k \in DOMAIN log, log[k].req # "starttls"
               PROVE  log[k].tls
    BY DEF TlsFirst
  <2>1. PICK i, j \in 1 .. Len(line) : i < j /\ line[i].o = "Z" /\ line[j].o = "Z"
    BY TwoUses
  <2>2. todo = <<>>
    <3>1. log # <<>>
      BY NoLog
    <3> QED
      BY <3>1 DEF LinkInv
  <2>3. Seen = Len(line)
    BY <2>2 DEF Seen, LineInv
  <2>4. cfg.starttls = 2
    BY <2>1, <2>3 DEF LevelInv
  <2> QED
    BY <2>4 DEF LinkInv
<1> QED
  BY <1>1, <1>2, <1>3, PTL DEF Spec

-----------------------------------------------------------------------------
(* The options that have been read.                                          *)

SeenOpt(o) == \E i \in 1 .. Seen : line[i].o = o

Fields == {"set", "baseSet", "simple", "password", "prompt", "passfile", "cli", "aclCheck",
           "requests"}
Flags  == [baseSet |-> "b", prompt |-> "W", passfile |-> "y", cli |-> "cli"]
Asking == ToSet(Requests)

\* The options that have a case of their own.
Named == (DOMAIN SettingOf) \cup {"x", "w", "W", "y", "Z", "M", "E", "simplePageSize", "cli", "c",
                                  "f", "acl-check"}

\* The requests, in the order of main().
LEMMA RequestsAre ==
    /\ Asking = {"whoami", "passwd-modify", "cancel", "abandon", "increment",
                 "capabilities", "persistent-search", "sync-refresh-only", "extended-op"}
    /\ \A r \in Asking : Place(r) \in 1 .. 9 /\ Requests[Place(r)] = r
    /\ \A r, s \in Asking : Place(r) = Place(s) => r = s
<1>1. DOMAIN Requests = 1 .. 9
  BY DEF Requests
<1>2. Asking = {Requests[n] : n \in 1 .. 9}
  BY <1>1 DEF Asking, ToSet
<1>3. /\ Requests[1] = "whoami" /\ Requests[2] = "passwd-modify" /\ Requests[3] = "cancel"
      /\ Requests[4] = "abandon" /\ Requests[5] = "increment" /\ Requests[6] = "capabilities"
      /\ Requests[7] = "persistent-search" /\ Requests[8] = "sync-refresh-only"
      /\ Requests[9] = "extended-op"
  BY DEF Requests
<1>4. 1 .. 9 = {1, 2, 3, 4, 5, 6, 7, 8, 9}
  OBVIOUS
<1>5. {Requests[n] : n \in 1 .. 9} = {"whoami", "passwd-modify", "cancel", "abandon", "increment",
          "capabilities", "persistent-search", "sync-refresh-only", "extended-op"}
  BY <1>3, <1>4
<1>6. ASSUME NEW r \in Asking PROVE Place(r) \in 1 .. 9 /\ Requests[Place(r)] = r
  <2>1. \E n \in DOMAIN Requests : Requests[n] = r
    BY <1>1, <1>2
  <2>2. Place(r) \in DOMAIN Requests /\ Requests[Place(r)] = r
    BY <2>1 DEF Place
  <2> QED
    BY <1>1, <2>2
<1>7. \A r, s \in Asking : Place(r) = Place(s) => r = s
  BY <1>6
<1> QED
  BY <1>2, <1>5, <1>6, <1>7

LEMMA FirstOfIsFirst ==
    ASSUME NEW some \in SUBSET Asking, some # {}
    PROVE  FirstOf(some) \in some /\ \A s \in some : Place(FirstOf(some)) <= Place(s)
<1> DEFINE places == {Place(r) : r \in some}
<1>1. places \in SUBSET Nat /\ places # {}
  <2>1. \A r \in some : Place(r) \in Nat
    BY RequestsAre
  <2> QED
    BY <2>1
<1> HIDE DEF places
<1>2. PICK n \in places : \A m \in places : n <= m
  BY <1>1, LeastNumber
<1>3. PICK r \in some : n = Place(r)
  BY DEF places
<1>4. \A s \in some : Place(r) <= Place(s)
  BY <1>2, <1>3 DEF places
<1>5. \E q \in some : \A s \in some : Place(q) <= Place(s)
  BY <1>4
<1> QED
  BY <1>5 DEF FirstOf

\* One turn of the loop, field by field.
LEMMA OptionFields ==
    ASSUME NEW c, NEW opt, Fields \subseteq DOMAIN c, c.baseSet \in BOOLEAN
    PROVE  /\ Fields \subseteq DOMAIN Option(c, opt)
           /\ Option(c, opt).baseSet = (IF opt.o = "b" THEN TRUE ELSE c.baseSet)
           /\ Option(c, opt).simple = (IF opt.o = "x" THEN TRUE ELSE c.simple)
           /\ Option(c, opt).password = (IF opt.o = "w" THEN opt.v ELSE c.password)
           /\ Option(c, opt).prompt = (IF opt.o = "W" THEN TRUE ELSE c.prompt)
           /\ Option(c, opt).passfile = (IF opt.o = "y" THEN TRUE ELSE c.passfile)
           /\ Option(c, opt).cli = (IF opt.o = "cli" THEN TRUE ELSE c.cli)
           /\ Option(c, opt).requests =
                (IF opt.o \in Named THEN c.requests ELSE c.requests \cup {opt.o})
           /\ Option(c, opt).set =
                (IF opt.o \in DOMAIN SettingOf THEN [c.set EXCEPT ![SettingOf[opt.o]] = opt.v]
                 ELSE IF opt.o = "x" THEN [c.set EXCEPT !["SASL_MECH"] = Default["SASL_MECH"]]
                 ELSE c.set)
<1> DEFINE d == Option(c, opt)
<1> USE DEF Fields
<1>1. DOMAIN SettingOf = {"H", "b", "D", "Y", "l", "z"}
  BY DEF SettingOf
<1>r. {"x", "w", "W", "y", "Z", "M", "E", "simplePageSize", "cli", "c", "f", "acl-check"}
          \subseteq Named /\ DOMAIN SettingOf \subseteq Named
  BY DEF Named
<1>2. CASE opt.o \in DOMAIN SettingOf
  <2>1. d = [c EXCEPT !.set[SettingOf[opt.o]] = opt.v, !.baseSet = @ \/ opt.o = "b"]
    BY <1>1, <1>2, ZenonT(30) DEF Option
  <2> HIDE DEF d
  <2>2. d.set = [c.set EXCEPT ![SettingOf[opt.o]] = opt.v] /\ d.baseSet = (c.baseSet \/ opt.o = "b")
    BY <2>1
  <2>3. /\ DOMAIN d = DOMAIN c /\ d.simple = c.simple /\ d.password = c.password
        /\ d.prompt = c.prompt /\ d.passfile = c.passfile /\ d.cli = c.cli /\ d.requests = c.requests
    BY <2>1
  <2>4. opt.o \notin {"x", "w", "W", "y", "cli"} /\ opt.o \in Named
    BY <1>1, <1>2, <1>r
  <2>5. d.baseSet = (IF opt.o = "b" THEN TRUE ELSE c.baseSet)
    BY <2>2
  <2> QED
    BY <1>2, <2>2, <2>3, <2>4, <2>5 DEF d
<1>3. CASE opt.o = "x"
  <2>1. d = [c EXCEPT !.simple = TRUE, !.set["SASL_MECH"] = Default["SASL_MECH"]]
    BY <1>1, <1>3 DEF Option
  <2> HIDE DEF d
  <2>2. d.set = [c.set EXCEPT !["SASL_MECH"] = Default["SASL_MECH"]] /\ d.simple = TRUE
    BY <2>1
  <2>3. /\ DOMAIN d = DOMAIN c /\ d.baseSet = c.baseSet /\ d.password = c.password
        /\ d.prompt = c.prompt /\ d.passfile = c.passfile /\ d.cli = c.cli /\ d.requests = c.requests
    BY <2>1
  <2> QED
    BY <1>1, <1>r, <1>3, <2>2, <2>3 DEF d
<1>5. CASE opt.o \in {"Z", "M", "E", "simplePageSize", "c", "f", "acl-check"}
  <2>1. /\ opt.o \notin DOMAIN SettingOf /\ opt.o \notin {"x", "w", "W", "y", "cli"}
        /\ opt.o \in Named
    BY <1>1, <1>r, <1>5
  <2>2. /\ DOMAIN d = DOMAIN c /\ d.set = c.set /\ d.baseSet = c.baseSet /\ d.simple = c.simple
        /\ d.password = c.password /\ d.prompt = c.prompt /\ d.passfile = c.passfile
        /\ d.cli = c.cli /\ d.requests = c.requests
    BY <1>5, <2>1 DEF Option
  <2> HIDE DEF d
  <2>3. opt.o # "b"
    BY <1>1, <2>1
  <2> QED
    BY <2>1, <2>2, <2>3 DEF d
<1>6. CASE opt.o \in {"w", "W", "y", "cli"}
  <2>1. opt.o \notin DOMAIN SettingOf /\ opt.o # "x" /\ opt.o \in Named /\ opt.o # "b"
    BY <1>1, <1>r, <1>6
  <2>2. DOMAIN d = DOMAIN c /\ d.set = c.set /\ d.baseSet = c.baseSet /\ d.simple = c.simple
        /\ d.requests = c.requests
    BY <1>6, <2>1 DEF Option
  <2>3. /\ d.password = (IF opt.o = "w" THEN opt.v ELSE c.password)
        /\ d.prompt = (IF opt.o = "W" THEN TRUE ELSE c.prompt)
        /\ d.passfile = (IF opt.o = "y" THEN TRUE ELSE c.passfile)
        /\ d.cli = (IF opt.o = "cli" THEN TRUE ELSE c.cli)
    BY <1>6, <2>1 DEF Option
  <2> HIDE DEF d
  <2> QED
    BY <2>1, <2>2, <2>3 DEF d
<1>7. CASE opt.o \notin Named
  <2>1. d = [c EXCEPT !.requests = @ \cup {opt.o}]
    BY <1>7 DEF Option, Named
  <2> HIDE DEF d
  <2>2. opt.o # "b"
    BY <1>1, <1>r, <1>7
  <2>3. d.requests = c.requests \cup {opt.o}
    BY <2>1
  <2>4. /\ DOMAIN d = DOMAIN c /\ d.set = c.set /\ d.baseSet = c.baseSet /\ d.simple = c.simple
        /\ d.password = c.password /\ d.prompt = c.prompt /\ d.passfile = c.passfile
        /\ d.cli = c.cli
    BY <2>1
  <2> QED
    BY <1>r, <1>7, <2>2, <2>3, <2>4 DEF d
<1> HIDE DEF d
<1> QED
  BY <1>2, <1>3, <1>5, <1>6, <1>7 DEF d, Named

\* The requests have none.
LEMMA RequestsUnnamed == \A r \in Asking : r \notin Named
<1>1. DOMAIN SettingOf = {"H", "b", "D", "Y", "l", "z"}
  BY DEF SettingOf
<1> QED
  BY <1>1, RequestsAre DEF Named

\* The loop reads the next option of the line, or ends the program.
LEMMA ReadsNext ==
    ASSUME LineInv, ReadOption
    PROVE  \/ UNCHANGED <<todo, cfg>> /\ Seen' = Seen /\ pc' = "exit"
           \/ /\ cfg' = Option(cfg, line[Seen + 1]) /\ Seen' = Seen + 1 /\ Seen \in Nat
              /\ Seen + 1 \in 1 .. Len(line) /\ pc' = pc
<1>1. todo # <<>> /\ line' = line
  BY DEF ReadOption
<1>2. \/ UNCHANGED <<todo, cfg>> /\ pc' = "exit"
      \/ cfg' = Option(cfg, Head(todo)) /\ todo' = Tail(todo) /\ pc' = pc
  BY DEF ReadOption, Exits
<1>3. CASE UNCHANGED <<todo, cfg>> /\ pc' = "exit"
  BY <1>1, <1>3 DEF Seen
<1>4. CASE cfg' = Option(cfg, Head(todo)) /\ todo' = Tail(todo) /\ pc' = pc
  <2>1. Len(todo') = Len(todo) - 1 /\ Head(todo) = todo[1] /\ 1 \in 1 .. Len(todo)
        /\ Len(todo) \in Nat \ {0} /\ Len(line) \in Nat
    BY <1>1, <1>4 DEF LineInv
  <2>2. Seen' = Seen + 1 /\ Seen \in Nat /\ Seen + 1 \in 1 .. Len(line) /\ Head(todo) = line[Seen + 1]
    BY <1>1, <2>1 DEF Seen, LineInv
  <2> QED
    BY <1>4, <2>2
<1> QED
  BY <1>2, <1>3, <1>4

\* The options read are all of the line once there is none left.
LEMMA AllSeen ==
    ASSUME LineInv, todo = <<>>, NEW o
    PROVE  Seen = Len(line) /\ (SeenOpt(o) <=> Uses(o) # {})
<1>1. Seen = Len(line) /\ DOMAIN line = 1 .. Len(line)
  BY DEF Seen, LineInv
<1> QED
  BY <1>1 DEF SeenOpt, Uses

\* What is only written by the loop.
OptInv ==
    /\ Fields \subseteq DOMAIN cfg
    /\ cfg.baseSet \in BOOLEAN /\ cfg.prompt \in BOOLEAN /\ cfg.passfile \in BOOLEAN
    /\ cfg.cli \in BOOLEAN /\ cfg.simple \in BOOLEAN
    /\ cfg.baseSet <=> SeenOpt("b")
    /\ cfg.prompt <=> SeenOpt("W")
    /\ cfg.passfile <=> SeenOpt("y")
    /\ cfg.cli <=> SeenOpt("cli")
    /\ \A r \in Asking : r \in cfg.requests <=> SeenOpt(r)

LEMMA SeenGrows ==
    ASSUME line' = line, Seen \in Nat, Seen' = Seen + 1, NEW o
    PROVE  SeenOpt(o)' <=> SeenOpt(o) \/ line[Seen + 1].o = o
<1>1. 1 .. Seen + 1 = (1 .. Seen) \cup {Seen + 1}
  OBVIOUS
<1> QED
  BY <1>1 DEF SeenOpt

\* The fields that the steps after the loop leave alone.
Kept == UNCHANGED <<cfg.baseSet, cfg.prompt, cfg.passfile, cfg.cli, cfg.requests, cfg.aclCheck>>

LEMMA StepKeeps ==
    ASSUME OptInv, [Next]_vars
    PROVE  \/ ReadOption
           \/ /\ UNCHANGED <<line, todo>> /\ Kept /\ DOMAIN cfg' = DOMAIN cfg
              /\ (cfg'.simple = cfg.simple \/ (EndOptions /\ cfg'.simple = TRUE))
              /\ pc' = "options" => pc = "options"
<1> USE DEF OptInv, Fields
<1>1. CASE EndOptions
  BY <1>1 DEF EndOptions, Implied, Kept
<1>2. CASE Settle
  BY <1>2 DEF Settle, Kept, Exits
<1>3. CASE Password
  BY <1>3 DEF Password, Kept, Exits
<1>4. CASE Base \/ AclBase
  <2>1. cfg' = cfg \/ \E v : cfg' = [cfg EXCEPT !.set["BASE"] = v]
    BY <1>4 DEF Base, AclBase, DetectBase
  <2> QED
    BY <1>4, <2>1 DEF Base, AclBase, Kept
<1>5. CASE \/ Connect \/ Controls \/ StartTLS \/ Bind \/ Request \/ RequestsDone \/ Flavor
           \/ AclCheck \/ TakeFilters \/ Search \/ Launch \/ UNCHANGED vars
  <2>1. UNCHANGED <<line, todo, cfg>>
    BY <1>5 DEF Connect, Controls, StartTLS, Bind, Request, RequestsDone, Flavor, AclCheck,
                TakeFilters, Search, Launch, vars
  <2>2. pc' = "options" => pc = "options"
    BY <1>5 DEF Connect, Controls, StartTLS, Bind, Request, RequestsDone, Flavor, AclCheck,
                TakeFilters, Search, Launch, vars, Exits
  <2> QED
    BY <2>1, <2>2 DEF Kept
<1> QED
  BY <1>1, <1>2, <1>3, <1>4, <1>5 DEF Next

LEMMA OptInit == Init => OptInv
<1> SUFFICES ASSUME Init PROVE OptInv
  OBVIOUS
<1>1. cfg = NoConfig /\ Seen = 0
  <2>1. todo = line /\ line \in Seq(ToSet(line)) /\ cfg = NoConfig
    BY CommandsAssumption DEF Init
  <2> QED
    BY <2>1 DEF Seen
<1>2. \A o : ~SeenOpt(o)
  BY <1>1 DEF SeenOpt
<1> QED
  BY <1>1, <1>2 DEF OptInv, NoConfig, Fields

LEMMA OptStep == LineInv /\ OptInv /\ [Next]_vars => OptInv'
<1> SUFFICES ASSUME LineInv, OptInv, [Next]_vars PROVE OptInv'
  OBVIOUS
<1>1. CASE UNCHANGED <<line, todo>> /\ Kept /\ DOMAIN cfg' = DOMAIN cfg /\ cfg'.simple \in BOOLEAN
  <2>1. Seen' = Seen /\ \A o : SeenOpt(o)' <=> SeenOpt(o)
    BY <1>1 DEF Seen, SeenOpt
  <2> QED
    BY <1>1, <2>1 DEF OptInv, Kept
<1>2. CASE ReadOption
  <2>1. line' = line
    BY <1>2 DEF ReadOption
  <2>2. CASE UNCHANGED <<todo, cfg>>
    BY <1>1, <2>1, <2>2 DEF Kept, OptInv
  <2>3. CASE cfg' = Option(cfg, line[Seen + 1]) /\ Seen' = Seen + 1 /\ Seen \in Nat
    <3> DEFINE opt == line[Seen + 1]
    <3>1. \A o : SeenOpt(o)' <=> SeenOpt(o) \/ opt.o = o
      BY <2>1, <2>3, SeenGrows
    <3> HIDE DEF opt
    <3>2. cfg' = Option(cfg, opt)
      BY <2>3 DEF opt
    <3>3. /\ Fields \subseteq DOMAIN cfg'
          /\ cfg'.baseSet = (IF opt.o = "b" THEN TRUE ELSE cfg.baseSet)
          /\ cfg'.simple = (IF opt.o = "x" THEN TRUE ELSE cfg.simple)
          /\ cfg'.prompt = (IF opt.o = "W" THEN TRUE ELSE cfg.prompt)
          /\ cfg'.passfile = (IF opt.o = "y" THEN TRUE ELSE cfg.passfile)
          /\ cfg'.cli = (IF opt.o = "cli" THEN TRUE ELSE cfg.cli)
          /\ \A r \in Asking : r \in cfg'.requests <=> r \in cfg.requests \/ opt.o = r
      <4>1. Fields \subseteq DOMAIN cfg /\ cfg.baseSet \in BOOLEAN
        BY DEF OptInv
      <4> DEFINE d == Option(cfg, opt)
      <4>2. /\ Fields \subseteq DOMAIN d
            /\ d.baseSet = (IF opt.o = "b" THEN TRUE ELSE cfg.baseSet)
            /\ d.simple = (IF opt.o = "x" THEN TRUE ELSE cfg.simple)
            /\ d.prompt = (IF opt.o = "W" THEN TRUE ELSE cfg.prompt)
            /\ d.passfile = (IF opt.o = "y" THEN TRUE ELSE cfg.passfile)
            /\ d.cli = (IF opt.o = "cli" THEN TRUE ELSE cfg.cli)
            /\ d.requests = (IF opt.o \in Named THEN cfg.requests ELSE cfg.requests \cup {opt.o})
        BY <4>1, OptionFields
      <4>3. cfg' = d
        BY <3>2
      <4> HIDE DEF d
      <4> QED
        BY <4>2, <4>3, RequestsUnnamed
    <3>4. /\ cfg'.baseSet \in BOOLEAN /\ (cfg'.baseSet <=> SeenOpt("b")')
          /\ cfg'.prompt \in BOOLEAN /\ (cfg'.prompt <=> SeenOpt("W")')
      BY <3>1, <3>3 DEF OptInv
    <3>5. /\ cfg'.passfile \in BOOLEAN /\ (cfg'.passfile <=> SeenOpt("y")')
          /\ cfg'.cli \in BOOLEAN /\ (cfg'.cli <=> SeenOpt("cli")') /\ cfg'.simple \in BOOLEAN
      BY <3>1, <3>3 DEF OptInv
    <3>6. \A r \in Asking : r \in cfg'.requests <=> SeenOpt(r)'
      BY <3>1, <3>3 DEF OptInv
    <3> QED
      BY <3>3, <3>4, <3>5, <3>6 DEF OptInv
  <2> QED
    BY <1>2, <2>2, <2>3, ReadsNext
<1> QED
  BY <1>1, <1>2, StepKeeps DEF OptInv

-----------------------------------------------------------------------------
(* The requests that are made.                                               *)

Work   == Asking \cup {"acl", "search"}
Done   == {i \in DOMAIN log : log[i].req \in Work}
Made   == {log[i].req : i \in Done}
Wanted == cfg.requests \cap Asking
InOrder == \A i, j \in Done : i < j => Place(log[i].req) < Place(log[j].req)

\* Up to the query what was wanted is done or still to be done, in the order of main(); under
\* --cli nothing is done yet, and what is done afterwards is of one kind.
DoneInv ==
    /\ IsLog(log)
    /\ pc \in Before \cup {"bind"} => Done = {}
    /\ pc = "requests" => /\ asked \subseteq Wanted /\ Made = Wanted \ asked /\ InOrder
                          /\ \A i \in Done, r \in asked : Place(log[i].req) < Place(r)
    /\ pc \in {"requests", "flavor", "base", "aclbase"} /\ cfg.cli => Done = {}
    /\ pc = "tui" => ~cfg.cli
    /\ pc \in {"flavor", "base", "aclbase"} \/ (pc \in {"query", "tui"} /\ ~cfg.cli) =>
          Made = Wanted /\ InOrder
    /\ pc = "query" /\ cfg.cli => /\ Wanted = {} /\ \A i \in Done : log[i].req = "search"
                                  /\ cfg.aclCheck => Done = {}
    /\ pc = "exit" /\ exit = 0 /\ cfg.cli =>
          \A i, j \in Done : log[i].req = log[j].req /\ (Wanted # {} => log[i].req = FirstOf(Wanted))

LEMMA DoneGrows ==
    ASSUME IsLog(log), NEW x, log' = Append(log, x)
    PROVE  /\ IsLog(log') /\ Len(log) \in Nat /\ Done \subseteq 1 .. Len(log)
           /\ \A i \in Done : log'[i] = log[i]
           /\ x.req \notin Work => Done' = Done
           /\ x.req \in Work => Done' = Done \cup {Len(log) + 1} /\ log'[Len(log) + 1] = x
<1>1. PICK S : log \in Seq(S)
  BY DEF IsLog
<1>2. log \in Seq(S \cup {x})
  BY <1>1
<1>3. log' \in Seq(S \cup {x})
  BY <1>2
<1>4. IsLog(log')
  BY <1>3 DEF IsLog
<1>5. /\ Len(log) \in Nat /\ DOMAIN log = 1 .. Len(log) /\ DOMAIN log' = 1 .. Len(log) + 1
      /\ \A k \in 1 .. Len(log) : log'[k] = log[k]
      /\ log'[Len(log) + 1] = x
  BY <1>1
<1>6. 1 .. Len(log) + 1 = (1 .. Len(log)) \cup {Len(log) + 1}
  BY <1>5
<1> QED
  BY <1>4, <1>5, <1>6 DEF Done

\* An exchange that is none of the requests.
LEMMA OtherExchange ==
    ASSUME DoneInv, Kept, \E x : log' = Append(log, x) /\ x.req \notin Work
    PROVE  /\ IsLog(log') /\ Done' = Done /\ Made' = Made /\ Wanted' = Wanted
           /\ InOrder' <=> InOrder
           /\ \A i \in Done : log'[i] = log[i]
<1>1. PICK x : log' = Append(log, x) /\ x.req \notin Work
  OBVIOUS
<1>2. IsLog(log') /\ Done' = Done /\ \A i \in Done : log'[i] = log[i]
  BY <1>1, DoneGrows DEF DoneInv
<1>3. Made' = Made /\ (InOrder' <=> InOrder)
  BY <1>2 DEF Made, InOrder
<1> QED
  BY <1>2, <1>3 DEF Kept, Wanted

LEMMA SameLog ==
    ASSUME DoneInv, Kept, log' = log
    PROVE  /\ IsLog(log') /\ Done' = Done /\ Made' = Made /\ Wanted' = Wanted
           /\ InOrder' <=> InOrder
           /\ \A i \in Done : log'[i] = log[i]
BY DEF DoneInv, Done, Made, Wanted, InOrder, Kept

\* What an exchange sends, and nothing more.
LEMMA AnswerSends ==
    ASSUME NEW req, NEW with, NEW ok, NEW told, Answered(req, with, ok, told)
    PROVE  \E x : log' = Append(log, x) /\ x.req = req
BY DEF Answered

LEMMA ExchangeSends ==
    ASSUME NEW req, NEW with, NEW ok, Exchange(req, with, ok)
    PROVE  \E x : log' = Append(log, x) /\ x.req = req
BY AnswerSends DEF Exchange

LEMMA DoneStep == LineInv /\ OptInv /\ OptInv' /\ LinkInv /\ WellInv /\ DoneInv /\ [Next]_vars => DoneInv'
<1> SUFFICES ASSUME LineInv, OptInv, OptInv', LinkInv, WellInv, DoneInv, [Next]_vars PROVE DoneInv'
  OBVIOUS
<1>w. {"starttls", "simple", "sasl", "flavor", "contexts"} \cap Work = {} /\ {"acl", "search"} \subseteq Work
      /\ {"acl", "search"} \cap Asking = {}
  BY RequestsAre DEF Work
<1>b. cfg.cli \in BOOLEAN
  BY DEF OptInv
<1>1. CASE ReadOption
  <2>1. pc = "options" /\ log' = log /\ pc' \in {"options", "exit"}
    BY <1>1 DEF ReadOption, Exits
  <2>2. Done = {} /\ Done' = {} /\ IsLog(log')
    BY <2>1 DEF DoneInv, Before, Done
  <2> QED
    BY <2>1, <2>2 DEF DoneInv, Before
<1>k. CASE ~ReadOption
  <2>k. Kept
    BY <1>k, StepKeeps
  <2>c. cfg'.cli = cfg.cli /\ cfg'.aclCheck = cfg.aclCheck
    BY <2>k DEF Kept
  <2>2. CASE EndOptions \/ Settle \/ Password \/ Connect \/ Controls
    <3>1. pc \in Before /\ log' = log /\ pc' \in Before \cup {"exit"}
      BY <2>2 DEF EndOptions, Settle, Password, Connect, Controls, Before, Exits
    <3> QED
      BY <2>k, <3>1, SameLog DEF DoneInv, Before
  <2>3. CASE StartTLS
    <3>1. pc \in Before /\ pc' \in {"bind", "exit"}
      BY <2>3 DEF StartTLS, Before, Exits
    <3>2. log' = log \/ \E x : log' = Append(log, x) /\ x.req \notin Work
      <4>1. CASE cfg.starttls = 0
        BY <2>3, <4>1 DEF StartTLS
      <4>2. CASE cfg.starttls # 0
        <5>1. PICK ok : log' = Append(log, [req |-> "starttls", with |-> "", tls |-> ok, ok |-> ok, told |-> ok])
          BY <2>3, <4>2 DEF StartTLS
        <5> DEFINE x == [req |-> "starttls", with |-> "", tls |-> ok, ok |-> ok, told |-> ok]
        <5>2. log' = Append(log, x) /\ x.req = "starttls"
          BY <5>1
        <5> HIDE DEF x
        <5> QED
          BY <1>w, <5>2
      <4> QED
        BY <4>1, <4>2
    <3>3. Done' = {} /\ IsLog(log')
      BY <2>k, <3>1, <3>2, SameLog, OtherExchange DEF DoneInv
    <3> QED
      BY <3>1, <3>3 DEF DoneInv, Before
  <2>4. CASE Bind
    <3> DEFINE req  == IF cfg.simple THEN "simple" ELSE "sasl"
               with == IF cfg.simple THEN cfg.password ELSE cfg.set["SASL_MECH"]
    <3>1. pc = "bind" /\ pc' \in {"requests", "exit"} /\ asked' = Wanted
      BY <2>4 DEF Bind, Exits, Wanted, Asking
    <3>2. PICK ok \in BOOLEAN : Exchange(req, with, ok)
      BY <2>4 DEF Bind
    <3>3. req \notin Work
      BY <1>w
    <3> HIDE DEF req, with
    <3>4. \E x : log' = Append(log, x) /\ x.req \notin Work
      BY <3>2, <3>3, ExchangeSends
    <3>5. Done' = {} /\ Wanted' = Wanted /\ IsLog(log')
      BY <2>k, <3>1, <3>4, OtherExchange DEF DoneInv
    <3>6. Made' = {} /\ InOrder'
      BY <3>5 DEF Made, InOrder
    <3> QED
      BY <3>1, <3>5, <3>6 DEF DoneInv, Before
  <2>5. CASE Flavor \/ Base \/ AclBase \/ RequestsDone
    <3>1. pc \in {"requests", "flavor", "base", "aclbase"} /\ pc' \in {"flavor", "base", "aclbase", "query"}
      BY <2>5 DEF Flavor, Base, AclBase, RequestsDone
    <3>2. pc = "requests" => asked = {}
      BY <2>5 DEF Flavor, Base, AclBase, RequestsDone
    <3>3. log' = log \/ \E x : log' = Append(log, x) /\ x.req \notin Work
      <4>1. log' = log \/ \E req \in {"flavor", "contexts"} : \E with, ok : Exchange(req, with, ok)
        BY <2>5 DEF Flavor, Base, AclBase, RequestsDone, DetectBase
      <4> QED
        BY <1>w, <4>1, ExchangeSends
    <3>4. /\ IsLog(log') /\ Done' = Done /\ Made' = Made /\ Wanted' = Wanted /\ (InOrder' <=> InOrder)
      BY <2>k, <3>3, SameLog, OtherExchange
    <3>5. Made = Wanted /\ InOrder
      BY <3>1, <3>2 DEF DoneInv
    <3>6. cfg.cli => Done = {} /\ Wanted = {}
      BY <3>1, <3>5 DEF DoneInv, Made
    <3> QED
      BY <2>c, <3>1, <3>4, <3>5, <3>6 DEF DoneInv, Before
  <2>6. CASE Request
    <3> DEFINE req  == FirstOf(asked)
               with == IF req = "increment" THEN cfg.set["BASE"] ELSE ""
    <3>1. pc = "requests" /\ asked # {} /\ asked \subseteq Wanted /\ Wanted \subseteq Asking
      BY <2>6 DEF Request, DoneInv, Wanted
    <3>2. req \in asked /\ \A r \in asked : Place(req) <= Place(r)
      BY <3>1, FirstOfIsFirst
    <3>3. CASE Exits(1) /\ UNCHANGED <<log, asked>>
      BY <2>k, <3>3, SameLog DEF Exits, DoneInv, Before
    <3>4. CASE ~(Exits(1) /\ UNCHANGED <<log, asked>>)
      <4>1. /\ asked' = asked \ {req} /\ \E ok, told : Answered(req, with, ok, told)
            /\ \/ pc' = "exit" /\ (exit' = 0 \/ exit' = 1)
               \/ pc' = pc /\ ~cfg.cli
        BY <2>6, <3>4 DEF Request, Exits, RequestOver
      <4> HIDE DEF req, with
      <4>2. PICK x : log' = Append(log, x) /\ x.req = req
        BY <4>1, AnswerSends
      <4>3. req \in Work
        BY <3>1, <3>2 DEF Work
      <4> DEFINE n == Len(log) + 1
      <4>4. /\ IsLog(log') /\ Len(log) \in Nat /\ Done \subseteq 1 .. Len(log)
            /\ \A i \in Done : log'[i] = log[i]
            /\ Done' = Done \cup {n} /\ log'[n] = x
        BY <4>2, <4>3, DoneGrows DEF DoneInv
      <4>5. n \in Nat /\ \A i \in Done : i \in Nat /\ i < n
        BY <4>4
      <4>6. Wanted' = Wanted
        BY <2>k DEF Kept, Wanted
      <4> HIDE DEF n
      <4>7. Made' = Made \cup {req}
        BY <4>2, <4>4 DEF Made
      <4>8. CASE pc' = pc /\ ~cfg.cli
        <5>1. Made' = Wanted' \ asked' /\ asked' \subseteq Wanted'
          BY <3>1, <3>2, <4>1, <4>6, <4>7 DEF DoneInv
        <5>2. \A i \in Done : Place(log[i].req) < Place(req)
          BY <3>1, <3>2 DEF DoneInv
        <5>3. ASSUME NEW i \in Done', NEW j \in Done', i < j
              PROVE  Place(log'[i].req) < Place(log'[j].req)
          <6>1. CASE i \in Done /\ j \in Done
            <7>1. log'[i] = log[i] /\ log'[j] = log[j]
              BY <4>4, <6>1
            <7>2. InOrder
              BY <3>1 DEF DoneInv
            <7>3. Place(log[i].req) < Place(log[j].req)
              BY <5>3, <6>1, <7>2 DEF InOrder
            <7> QED
              BY <7>1, <7>3
          <6>2. CASE i \in Done /\ j = n
            <7>1. log'[i] = log[i] /\ log'[j] = x
              BY <4>4, <6>2
            <7> QED
              BY <4>2, <5>2, <6>2, <7>1
          <6>3. CASE i = n
            BY <4>4, <4>5, <5>3, <6>3
          <6> QED
            BY <4>4, <6>1, <6>2, <6>3
        <5>4. ASSUME NEW i \in Done', NEW r \in asked' PROVE Place(log'[i].req) < Place(r)
          <6>1. r \in asked /\ r # req /\ r \in Asking /\ req \in Asking
            BY <3>1, <3>2, <4>1
          <6>2. Place(r) \in 1 .. 9 /\ Place(req) \in 1 .. 9 /\ Place(req) # Place(r)
            BY <6>1, RequestsAre
          <6>3. CASE i \in Done
            BY <3>1, <4>4, <6>1, <6>3 DEF DoneInv
          <6>4. CASE i = n
            <7>1. log'[i].req = req
              BY <4>2, <4>4, <6>4
            <7>2. Place(req) <= Place(r)
              BY <3>2, <6>1
            <7> DEFINE a == Place(req)
                       b == Place(r)
            <7>3. a \in 1 .. 9 /\ b \in 1 .. 9 /\ a # b /\ a <= b
              BY <6>2, <7>2
            <7> HIDE DEF a, b
            <7>4. a < b
              BY <7>3
            <7> QED
              BY <7>1, <7>4 DEF a, b
          <6> QED
            BY <4>4, <6>3, <6>4
        <5> QED
          BY <2>c, <3>1, <4>4, <4>8, <5>1, <5>3, <5>4 DEF DoneInv, Before, InOrder
      <4>9. CASE pc' = "exit" /\ exit' = 0 /\ cfg.cli
        <5>1. Done = {} /\ Made = {}
          BY <3>1, <4>9 DEF DoneInv, Made
        <5>2. asked = Wanted
          BY <3>1, <5>1 DEF DoneInv
        <5>3. \A i \in Done' : log'[i].req = FirstOf(Wanted')
          BY <4>2, <4>4, <4>6, <5>1, <5>2 DEF req
        <5> QED
          BY <4>4, <4>9, <5>3 DEF DoneInv, Before
      <4>10. CASE pc' = "exit" /\ ~(exit' = 0 /\ cfg.cli)
        BY <2>c, <4>4, <4>10 DEF DoneInv, Before
      <4> QED
        BY <4>1, <4>8, <4>9, <4>10
    <3> QED
      BY <3>3, <3>4
  <2>7. CASE AclCheck
    <3>1. pc = "query" /\ pc' = "exit" /\ cfg.aclCheck
      BY <2>7 DEF AclCheck, Exits
    <3>2. PICK x : log' = Append(log, x) /\ x.req = "acl"
      BY <2>7, ExchangeSends DEF AclCheck
    <3>3. /\ IsLog(log') /\ Done' = Done \cup {Len(log) + 1} /\ log'[Len(log) + 1] = x
      BY <1>w, <3>2, DoneGrows DEF DoneInv
    <3>4. CASE cfg.cli
      <4>1. Wanted' = {} /\ Done = {}
        BY <2>k, <3>1, <3>4 DEF DoneInv, Kept, Wanted
      <4>2. \A i, j \in Done' : log'[i].req = log'[j].req
        BY <3>3, <4>1
      <4> QED
        BY <3>1, <3>3, <4>1, <4>2 DEF DoneInv, Before
    <3>5. CASE ~cfg.cli
      BY <2>c, <3>1, <3>3, <3>5 DEF DoneInv, Before
    <3> QED
      BY <3>4, <3>5
  <2>8. CASE Search
    <3>1. pc = "query" /\ filters # <<>> /\ pc' \in {"query", "exit"}
      BY <2>8 DEF Search, Exits
    <3>2. cfg.cli /\ ~cfg.aclCheck
      BY <3>1 DEF WellInv
    <3> DEFINE with == Head(filters)
    <3>3. PICK ok : Exchange("search", with, ok)
      BY <2>8 DEF Search
    <3> HIDE DEF with
    <3>4. PICK x : log' = Append(log, x) /\ x.req = "search"
      BY <3>3, ExchangeSends
    <3>5. /\ IsLog(log') /\ Done' = Done \cup {Len(log) + 1} /\ log'[Len(log) + 1] = x
          /\ \A i \in Done : log'[i] = log[i]
      BY <1>w, <3>4, DoneGrows DEF DoneInv
    <3>6. Wanted' = {} /\ \A i \in Done' : log'[i].req = "search"
      BY <2>k, <3>1, <3>2, <3>4, <3>5 DEF DoneInv, Kept, Wanted
    <3> QED
      BY <2>c, <3>1, <3>2, <3>5, <3>6 DEF DoneInv, Before
  <2>9. CASE TakeFilters
    <3>1. pc = "query" /\ log' = log /\ cfg.cli /\ (pc' = pc \/ (pc' = "exit" /\ exit' = 1))
      BY <2>9 DEF TakeFilters, Exits
    <3>2. /\ IsLog(log') /\ Done' = Done /\ Made' = Made /\ Wanted' = Wanted
          /\ \A i \in Done : log'[i] = log[i]
      BY <2>k, <3>1, SameLog
    <3> QED
      BY <2>c, <3>1, <3>2 DEF DoneInv, Before
  <2>10. CASE Launch
    <3>1. pc = "query" /\ log' = log /\ ~cfg.cli /\ pc' \in {"tui", "exit"}
      BY <2>10 DEF Launch, Exits
    <3>2. /\ IsLog(log') /\ Done' = Done /\ Made' = Made /\ Wanted' = Wanted /\ (InOrder' <=> InOrder)
      BY <2>k, <3>1, SameLog
    <3> QED
      BY <2>c, <3>1, <3>2 DEF DoneInv, Before
  <2>11. CASE UNCHANGED vars
    BY <2>11 DEF vars, DoneInv, Done, Made, Wanted, InOrder
  <2> QED
    BY <1>k, <2>2, <2>3, <2>4, <2>5, <2>6, <2>7, <2>8, <2>9, <2>10, <2>11 DEF Next
<1> QED
  BY <1>1, <1>k

LEMMA DoneInit == Init => DoneInv
<1> SUFFICES ASSUME Init PROVE DoneInv
  OBVIOUS
<1>1. log = <<>> /\ pc = "options"
  BY DEF Init
<1>2. IsLog(log) /\ Done = {}
  BY <1>1, NoLog DEF Done
<1> QED
  BY <1>1, <1>2 DEF DoneInv

\* Every request of the command line is answered, in the order of main(), before the interface
\* opens; a run of --cli that ends well did one thing, the first it was asked for.
THEOREM AskedAreDone == Spec => []AskedIsDone
<1> DEFINE Inv == LineInv /\ LevelInv /\ LinkInv /\ WellInv /\ OptInv /\ DoneInv
<1>1. Init => Inv
  <2>1. Init => LineInv /\ LevelInv /\ LinkInv /\ WellInv
    BY FirstLine
  <2> QED
    BY <2>1, OptInit, DoneInit
<1>2. Inv /\ [Next]_vars => Inv'
  BY StepReads, StepLink, StepWell, OptStep, DoneStep
<1>3. Inv => AskedIsDone
  <2> SUFFICES ASSUME Inv PROVE AskedIsDone
    OBVIOUS
  <2> DEFINE wanted == {r \in Asking : Uses(r) # {}}
  <2>1. todo = <<>> => Wanted = wanted /\ (cfg.cli <=> Uses("cli") # {})
    BY AllSeen DEF OptInv, Wanted
  <2>2. pc = "tui" => Made = wanted /\ InOrder
    <3> SUFFICES ASSUME pc = "tui" PROVE Made = wanted /\ InOrder
      OBVIOUS
    <3>1. todo = <<>>
      BY DEF LinkInv
    <3>2. ~cfg.cli
      BY DEF DoneInv
    <3> QED
      BY <2>1, <3>1, <3>2 DEF DoneInv
  <2>3. ASSUME pc = "exit", exit = 0, Uses("cli") # {}, NEW i \in Done, NEW j \in Done
        PROVE  log[i].req = log[j].req /\ (wanted # {} => log[i].req = FirstOf(wanted))
    <3>1. log # <<>>
      BY <2>3, NoLog DEF Done
    <3>2. todo = <<>>
      BY <3>1 DEF LinkInv
    <3>3. cfg.cli /\ Wanted = wanted
      BY <2>1, <2>3, <3>2
    <3> QED
      BY <2>3, <3>3 DEF DoneInv
  <2> HIDE DEF Inv
  <2> QED
    BY <2>2, <2>3 DEF AskedIsDone, Asking, Done, Made, InOrder, Work
<1> QED
  BY <1>1, <1>2, <1>3, PTL DEF Spec

-----------------------------------------------------------------------------
(* The settings and the identity.                                            *)

\* The options read that say something of a setting, or carry a password.
GivenSoFar(k) ==
    {i \in 1 .. Seen : /\ line[i].o \in DOMAIN SettingOf
                       /\ SettingOf[line[i].o] = k
                       /\ k = "SASL_MECH" => \A j \in 1 .. Seen : line[j].o = "x" => j < i}
PasswordsSoFar == {i \in 1 .. Seen : line[i].o = "w"}

\* v is what the last of some options says, d if there is none.
Latest(S, d, v) == /\ S = {} => v = d
                   /\ \A i \in S : (\A j \in S : j <= i) => v = line[i].v

\* What a simple bind takes.
AsksSimple == Uses("x") # {} \/ (HasPassword /\ OnLine("SASL_MECH") = "")

ReadInv ==
    pc \in {"options", "settings"} =>
        /\ DOMAIN cfg.set = Settings
        /\ \A k \in Settings : Latest(GivenSoFar(k), Default[k], cfg.set[k])
        /\ Latest(PasswordsSoFar, "", cfg.password)
        /\ pc = "options" => (cfg.simple <=> SeenOpt("x"))

AuthInv == pc \notin {"options", "exit"} => (cfg.simple <=> AsksSimple)

LEMMA LatestIs ==
    ASSUME NEW n \in Nat, NEW S \in SUBSET (1 .. n), NEW d, NEW v, Latest(S, d, v)
    PROVE  v = IF S = {} THEN d ELSE line[Max(S)].v
<1>1. CASE S = {}
  BY <1>1 DEF Latest
<1>2. CASE S # {}
  <2>1. Max(S) \in S /\ \A m \in S : m <= Max(S)
    BY <1>2, HighestNumber
  <2> QED
    BY <1>2, <2>1 DEF Latest
<1> QED
  BY <1>1, <1>2

\* At the end of the line the configuration is what it says.
LEMMA LineIsRead ==
    ASSUME LineInv, ReadInv, pc \in {"options", "settings"}, todo = <<>>
    PROVE  /\ \A k \in Settings : cfg.set[k] = OnLine(k)
           /\ cfg.password = (IF Uses("w") = {} THEN "" ELSE line[Max(Uses("w"))].v)
<1>1. Seen = Len(line) /\ DOMAIN line = 1 .. Len(line) /\ Len(line) \in Nat
  BY DEF Seen, LineInv
<1>2. PasswordsSoFar = Uses("w") /\ Uses("w") \in SUBSET (1 .. Len(line))
  BY <1>1 DEF PasswordsSoFar, Uses
<1>3. cfg.password = (IF Uses("w") = {} THEN "" ELSE line[Max(Uses("w"))].v)
  <2> DEFINE S == Uses("w")
             n == Len(line)
             v == cfg.password
  <2>1. Latest(S, "", v) /\ n \in Nat /\ S \in SUBSET (1 .. n)
    BY <1>1, <1>2 DEF ReadInv
  <2> HIDE DEF S, n, v
  <2>2. v = IF S = {} THEN "" ELSE line[Max(S)].v
    BY <2>1, LatestIs
  <2> QED
    BY <2>2 DEF S, v
<1>4. ASSUME NEW k \in Settings PROVE cfg.set[k] = OnLine(k)
  <2> DEFINE at == {i \in DOMAIN line :
                 /\ line[i].o \in DOMAIN SettingOf
                 /\ SettingOf[line[i].o] = k
                 /\ k = "SASL_MECH" => \A j \in Uses("x") : j < i}
             n == Len(line)
             v == cfg.set[k]
             d == Default[k]
  <2>1. at = GivenSoFar(k)
    BY <1>1 DEF GivenSoFar, Uses
  <2>2. OnLine(k) = IF at = {} THEN d ELSE line[Max(at)].v
    BY DEF OnLine
  <2>3. Latest(at, d, v) /\ n \in Nat /\ at \in SUBSET (1 .. n)
    BY <1>1, <2>1 DEF ReadInv
  <2> HIDE DEF at, n, v, d
  <2>4. v = IF at = {} THEN d ELSE line[Max(at)].v
    BY <2>3, LatestIs
  <2> QED
    BY <2>2, <2>4 DEF v
<1> QED
  BY <1>3, <1>4

\* One more option is read.
LEMMA LatestGrows ==
    ASSUME NEW n \in Nat, NEW S \in SUBSET (1 .. n), NEW d, NEW v, NEW T, T = S \cup {n + 1}
    PROVE  Latest(T, d, line[n + 1].v)
<1>1. \A i \in T : (\A j \in T : j <= i) => i = n + 1
  OBVIOUS
<1> QED
  BY <1>1 DEF Latest

LEMMA ReadStep ==
    ASSUME LineInv, OptInv, ReadInv, ReadOption PROVE ReadInv'
<1> USE ReadsNext
<1>1. CASE pc' = "exit"
  BY <1>1 DEF ReadInv
<1>2. CASE /\ cfg' = Option(cfg, line[Seen + 1]) /\ Seen' = Seen + 1 /\ Seen \in Nat
           /\ Seen + 1 \in 1 .. Len(line) /\ pc' = pc
  <2> DEFINE n   == Seen + 1
             opt == line[n]
             d   == Option(cfg, opt)
  <2>1. pc = "options" /\ line' = line
    BY DEF ReadOption
  <2>2. /\ DOMAIN cfg.set = Settings
        /\ \A k \in Settings : Latest(GivenSoFar(k), Default[k], cfg.set[k])
        /\ Latest(PasswordsSoFar, "", cfg.password)
        /\ cfg.simple <=> SeenOpt("x")
    BY <2>1 DEF ReadInv
  <2>3. /\ cfg' = d
        /\ d.simple = (IF opt.o = "x" THEN TRUE ELSE cfg.simple)
        /\ d.password = (IF opt.o = "w" THEN opt.v ELSE cfg.password)
        /\ d.set =
                (IF opt.o \in DOMAIN SettingOf THEN [cfg.set EXCEPT ![SettingOf[opt.o]] = opt.v]
                 ELSE IF opt.o = "x" THEN [cfg.set EXCEPT !["SASL_MECH"] = Default["SASL_MECH"]]
                 ELSE cfg.set)
    <3>1. Fields \subseteq DOMAIN cfg /\ cfg.baseSet \in BOOLEAN
      BY DEF OptInv
    <3> HIDE DEF opt
    <3> QED
      BY <1>2, <3>1, OptionFields DEF opt
  <2> HIDE DEF d
  <2>4. 1 .. n = (1 .. Seen) \cup {n} /\ (\A i \in 1 .. Seen : i < n /\ ~(n < i)) /\ ~(n < n)
    BY <1>2
  <2>5. cfg'.simple <=> SeenOpt("x")'
    <3>1. SeenOpt("x")' <=> (SeenOpt("x") \/ opt.o = "x")
      BY <1>2, <2>1, SeenGrows
    <3>2. cfg.simple \in BOOLEAN
      BY DEF OptInv
    <3> QED
      BY <2>2, <2>3, <3>1, <3>2
  <2>6. Latest(PasswordsSoFar, "", cfg.password)'
    <3>1. CASE opt.o = "w"
      <4>1. PasswordsSoFar' = PasswordsSoFar \cup {n}
        BY <1>2, <2>1, <2>4, <3>1 DEF PasswordsSoFar
      <4>2. cfg'.password = opt.v
        BY <2>3, <3>1
      <4>3. Latest(PasswordsSoFar', "", line[n].v)
        <5>1. PasswordsSoFar \in SUBSET (1 .. Seen) /\ Seen \in Nat
          BY <1>2 DEF PasswordsSoFar
        <5> QED
          BY <4>1, <5>1, LatestGrows
      <4> QED
        BY <2>1, <4>2, <4>3 DEF Latest
    <3>2. CASE opt.o # "w"
      <4>1. PasswordsSoFar' = PasswordsSoFar
        BY <1>2, <2>1, <2>4, <3>2 DEF PasswordsSoFar
      <4>2. cfg'.password = cfg.password
        BY <2>3, <3>2
      <4> QED
        BY <2>1, <2>2, <4>1, <4>2 DEF Latest
    <3> QED
      BY <3>1, <3>2
  <2>7. DOMAIN cfg'.set = Settings
    BY <2>2, <2>3
  <2>x. "x" \notin DOMAIN SettingOf
    BY DEF SettingOf
  <2>8. ASSUME NEW k \in Settings PROVE Latest(GivenSoFar(k), Default[k], cfg.set[k])'
    <3>1. CASE opt.o \in DOMAIN SettingOf /\ SettingOf[opt.o] = k
      <4>1. GivenSoFar(k)' = GivenSoFar(k) \cup {n}
        <5>1. opt.o # "x"
          BY <2>x, <3>1
        <5> QED
          BY <1>2, <2>1, <2>4, <3>1, <5>1 DEF GivenSoFar
      <4>2. cfg'.set[k] = opt.v
        BY <2>2, <2>3, <3>1
      <4>3. Latest(GivenSoFar(k)', Default[k], line[n].v)
        <5> DEFINE S == GivenSoFar(k)
                   e == Default[k]
        <5>1. S \in SUBSET (1 .. Seen) /\ Seen \in Nat
          BY <1>2 DEF GivenSoFar
        <5> HIDE DEF S, e
        <5> QED
          BY <4>1, <5>1, LatestGrows DEF S, e
      <4> QED
        BY <2>1, <4>2, <4>3 DEF Latest
    <3>2. CASE opt.o = "x" /\ k = "SASL_MECH"
      <4>1. GivenSoFar(k)' = {}
        BY <1>2, <2>1, <2>4, <2>x, <3>2 DEF GivenSoFar
      <4>2. cfg'.set[k] = Default[k]
        BY <2>2, <2>3, <2>x, <3>2
      <4> QED
        BY <4>1, <4>2 DEF Latest
    <3>3. CASE ~(opt.o \in DOMAIN SettingOf /\ SettingOf[opt.o] = k) /\ ~(opt.o = "x" /\ k = "SASL_MECH")
      <4>1. GivenSoFar(k)' = GivenSoFar(k)
        <5>1. CASE k = "SASL_MECH"
          BY <1>2, <2>1, <2>4, <3>3, <5>1 DEF GivenSoFar
        <5>2. CASE k # "SASL_MECH"
          BY <1>2, <2>1, <2>4, <3>3, <5>2 DEF GivenSoFar
        <5> QED
          BY <5>1, <5>2
      <4>2. cfg'.set[k] = cfg.set[k]
        BY <2>2, <2>3, <3>3
      <4> QED
        BY <2>1, <2>2, <4>1, <4>2 DEF Latest
    <3> QED
      BY <3>1, <3>2, <3>3
  <2> QED
    BY <2>5, <2>6, <2>7, <2>8 DEF ReadInv
<1> QED
  BY <1>1, <1>2

LEMMA ReadStays ==
    ASSUME ReadInv, line' = line, Seen' = Seen, cfg'.set = cfg.set, cfg'.password = cfg.password,
           pc \in {"options", "settings"}, pc' = "options" => pc = "options" /\ cfg'.simple = cfg.simple
    PROVE  ReadInv'
<1>1. ASSUME NEW k \in Settings PROVE Latest(GivenSoFar(k), Default[k], cfg.set[k])'
  <2>1. GivenSoFar(k)' = GivenSoFar(k)
    BY DEF GivenSoFar
  <2>2. Latest(GivenSoFar(k), Default[k], cfg.set[k])
    BY DEF ReadInv
  <2> QED
    BY <2>1, <2>2 DEF Latest
<1>2. Latest(PasswordsSoFar, "", cfg.password)'
  <2>1. PasswordsSoFar' = PasswordsSoFar
    BY DEF PasswordsSoFar
  <2>2. Latest(PasswordsSoFar, "", cfg.password)
    BY DEF ReadInv
  <2> QED
    BY <2>1, <2>2 DEF Latest
<1>3. SeenOpt("x")' <=> SeenOpt("x")
  BY DEF SeenOpt
<1> QED
  BY <1>1, <1>2, <1>3 DEF ReadInv

\* The steps after the line keep what ReadInv says, up to the settings.
LEMMA ReadKept ==
    ASSUME LineInv, OptInv, LinkInv, ReadInv, [Next]_vars PROVE ReadInv'
<1>1. CASE ReadOption
  BY <1>1, ReadStep
<1>2. CASE EndOptions
  <2>1. pc = "options" /\ pc' = "settings" /\ line' = line /\ Seen' = Seen
    BY <1>2 DEF EndOptions, Seen
  <2>2. cfg'.set = cfg.set /\ cfg'.password = cfg.password
    <3>1. cfg' = cfg \/ cfg' = [cfg EXCEPT !.simple = TRUE]
      BY <1>2 DEF EndOptions, Implied
    <3> QED
      BY <3>1 DEF OptInv, Fields
  <2> QED
    BY <2>1, <2>2, ReadStays
<1>3. CASE UNCHANGED vars
  <2>1. line' = line /\ Seen' = Seen /\ cfg' = cfg /\ pc' = pc
    BY <1>3 DEF vars, Seen
  <2>2. CASE pc \in {"options", "settings"}
    BY <2>1, <2>2, ReadStays
  <2>3. CASE pc \notin {"options", "settings"}
    BY <2>1, <2>3 DEF ReadInv
  <2> QED
    BY <2>2, <2>3
<1>4. CASE \/ Settle \/ Password \/ Connect \/ Controls \/ StartTLS \/ Bind \/ Request
           \/ RequestsDone \/ Flavor \/ Base \/ AclBase \/ AclCheck \/ TakeFilters \/ Search
           \/ Launch
  <2>1. pc' \notin {"options", "settings"}
    BY <1>4 DEF Settle, Password, Connect, Controls, StartTLS, Bind, Request, RequestsDone,
                Flavor, Base, AclBase, AclCheck, TakeFilters, Search, Launch, Exits
  <2> QED
    BY <2>1 DEF ReadInv
<1> QED
  BY <1>1, <1>2, <1>3, <1>4 DEF Next

\* What the line and the files say does not change.
LEMMA LineStays ==
    ASSUME line' = line, files' = files
    PROVE  /\ \A o : Uses(o)' = Uses(o)
           /\ \A k : OnLine(k)' = OnLine(k) /\ InFiles(k)' = InFiles(k)
           /\ HasPassword' <=> HasPassword
           /\ AsksSimple' <=> AsksSimple
<1>1. \A o : Uses(o)' = Uses(o)
  BY DEF Uses
<1>2. \A k : OnLine(k)' = OnLine(k)
  BY DEF OnLine, Uses
<1>3. \A k : InFiles(k)' = InFiles(k)
  BY DEF InFiles, Places, Gives, LineAt, NotAfter
<1>4. HasPassword' <=> HasPassword
  BY <1>1 DEF HasPassword
<1> QED
  BY <1>1, <1>2, <1>3, <1>4 DEF AsksSimple

LEMMA FilesStay == [Next]_vars => files' = files
BY DEF Next, ReadOption, EndOptions, Settle, Password, Connect, Controls, StartTLS, Bind, Request,
       RequestsDone, Flavor, Base, AclBase, AclCheck, TakeFilters, Search, Launch, vars

LEMMA AuthStep ==
    ASSUME LineInv, OptInv, LinkInv, ReadInv, AuthInv, [Next]_vars PROVE AuthInv'
<1>1. files' = files
  BY FilesStay
<1>2. CASE ReadOption
  BY <1>2 DEF ReadOption, AuthInv, Exits
<1>3. CASE EndOptions
  <2>1. pc = "options" /\ todo = <<>> /\ line' = line /\ cfg' = Implied(cfg)
    BY <1>3 DEF EndOptions
  <2>2. cfg.simple \in BOOLEAN /\ cfg.prompt \in BOOLEAN /\ cfg.passfile \in BOOLEAN
        /\ "simple" \in DOMAIN cfg
    BY DEF OptInv, Fields
  <2>3. /\ cfg.simple <=> Uses("x") # {}
        /\ cfg.prompt <=> Uses("W") # {}
        /\ cfg.passfile <=> Uses("y") # {}
    BY <2>1, AllSeen DEF OptInv, ReadInv
  <2>4. "SASL_MECH" \in Settings
    BY DefaultAssumption DEF Settings
  <2>5. cfg.set["SASL_MECH"] = OnLine("SASL_MECH")
        /\ cfg.password = (IF Uses("w") = {} THEN "" ELSE line[Max(Uses("w"))].v)
    BY <2>1, <2>4, LineIsRead
  <2>6. HasPassword <=> (cfg.password # "" \/ cfg.prompt \/ cfg.passfile)
    BY <2>3, <2>5 DEF HasPassword
  <2>7. cfg'.simple <=> AsksSimple
    <3>1. CASE HasPassword /\ OnLine("SASL_MECH") = ""
      <4>1. cfg' = [cfg EXCEPT !.simple = TRUE]
        BY <2>1, <2>5, <2>6, <3>1 DEF Implied
      <4> QED
        BY <2>2, <3>1, <4>1 DEF AsksSimple
    <3>2. CASE ~(HasPassword /\ OnLine("SASL_MECH") = "")
      <4>1. cfg' = cfg
        BY <2>1, <2>5, <2>6, <3>2 DEF Implied
      <4> QED
        BY <2>3, <3>2, <4>1 DEF AsksSimple
    <3> QED
      BY <3>1, <3>2
  <2>8. AsksSimple' <=> AsksSimple
    BY <1>1, <2>1, LineStays
  <2> QED
    BY <2>7, <2>8 DEF AuthInv
<1>4. CASE ~ReadOption /\ ~EndOptions
  <2>1. line' = line /\ cfg'.simple = cfg.simple /\ (pc' = "options" => pc = "options")
    BY <1>4, StepKeeps
  <2>2. AsksSimple' <=> AsksSimple
    BY <1>1, <2>1, LineStays
  <2>3. pc \in {"options", "exit"} => pc' \in {"options", "exit"}
    BY <1>4 DEF Next, ReadOption, EndOptions, Settle, Password, Connect, Controls, StartTLS, Bind,
          Request, RequestsDone, Flavor, Base, AclBase, AclCheck, TakeFilters, Search, Launch, vars
  <2> QED
    BY <2>1, <2>2, <2>3 DEF AuthInv
<1> QED
  BY <1>2, <1>3, <1>4

\* The settings once they are merged: those of the session are as promised, the mechanism too, and
\* the second look for a base is for the analysis of the rules.
FilesInv == files \in RcFiles \cup {<<>>}
SetInv ==
    /\ pc \notin {"options", "settings", "exit"} =>
          /\ DOMAIN cfg.set = Settings
          /\ ~cfg.simple => cfg.set["SASL_MECH"] = IF OnLine("SASL_MECH") # "" THEN OnLine("SASL_MECH")
                                                                          ELSE InFiles("SASL_MECH")
          /\ pc = "aclbase" => cfg.aclCheck
    /\ ValuesAsGiven

\* The base stays as given when it stays, before or after it is looked for.
LEMMA BaseKept ==
    ASSUME line' = line, files' = files, cfg'.set["BASE"] = cfg.set["BASE"],
           cfg'.aclCheck = cfg.aclCheck, BaseAsGiven,
           pc' \in {"query", "aclbase", "tui"} <=> pc \in {"query", "aclbase", "tui"}
    PROVE  BaseAsGiven'
<1>1. /\ Uses("b")' = Uses("b")
      /\ OnLine("BASE")' = OnLine("BASE") /\ InFiles("BASE")' = InFiles("BASE")
  BY LineStays
<1>2. Detected' = Detected
  BY DEF Detected
<1> HIDE DEF Detected
<1> QED
  BY <1>1, <1>2 DEF BaseAsGiven

\* A search for the base finds one of those it may come to.
LEMMA BaseIsDetected ==
    ASSUME DetectBase, "set" \in DOMAIN cfg, "BASE" \in DOMAIN cfg.set
    PROVE  cfg'.set["BASE"] \in Detected
<1>1. CASE \E dse \in RootDSEs : cfg' = [cfg EXCEPT !.set["BASE"] = FindRootDN(dse.contexts)]
  BY <1>1 DEF Detected
<1>2. CASE cfg' = [cfg EXCEPT !.set["BASE"] = ""]
  BY <1>2 DEF Detected
<1> QED
  BY <1>1, <1>2 DEF DetectBase

LEMMA SetKept ==
    ASSUME OptInv, SetInv, [Next]_vars, Kept, line' = line, files' = files,
           cfg'.simple = cfg.simple, DOMAIN cfg'.set = DOMAIN cfg.set,
           \A k \in Settings \ {"BASE"} : cfg'.set[k] = cfg.set[k],
           pc \notin {"options", "settings", "exit"},
           pc' # "exit" => BaseAsGiven',
           pc' = "aclbase" => cfg.aclCheck
    PROVE  SetInv'
<1>1. /\ \A o : Uses(o)' = Uses(o)
      /\ \A k : OnLine(k)' = OnLine(k) /\ InFiles(k)' = InFiles(k)
  BY LineStays
<1>2. {"URI", "SASL_MECH", "BASE"} \subseteq Settings
  BY DefaultAssumption DEF Settings
<1>3. /\ \A k \in Settings \ {"URI", "BASE", "SASL_MECH"} : cfg'.set[k] = Chosen(k)'
      /\ Chosen("URI")' = Chosen("URI")
  BY <1>1, <1>2 DEF SetInv, ValuesAsGiven, Chosen
<1>4. cfg'.set["URI"] = cfg.set["URI"] /\ cfg'.set["SASL_MECH"] = cfg.set["SASL_MECH"]
  BY <1>2
<1>5. ValuesAsGiven'
  BY <1>1, <1>3, <1>4 DEF SetInv, ValuesAsGiven
<1> QED
  BY <1>1, <1>4, <1>5 DEF SetInv, Kept

\* Merging.
LEMMA SettleGives ==
    ASSUME LineInv, OptInv, LinkInv, ReadInv, AuthInv, FilesInv, SetInv, Settle PROVE SetInv'
<1>1. /\ pc = "settings" /\ line' = line /\ files' = files
      /\ pc' = "password" \/ pc' = "exit"
  BY DEF Settle, Exits
<1>2. todo = <<>>
  BY <1>1 DEF LinkInv
<1>3. /\ cfg.simple \in BOOLEAN /\ cfg.baseSet \in BOOLEAN
      /\ {"set", "simple", "aclCheck"} \subseteq DOMAIN cfg /\ DOMAIN cfg.set = Settings
  BY <1>1 DEF OptInv, Fields, ReadInv
<1>4. (cfg.baseSet <=> Uses("b") # {})
  BY <1>2, AllSeen DEF OptInv
<1>5. \A k \in Settings : cfg.set[k] = OnLine(k)
  BY <1>1, <1>2, LineIsRead
<1>6. \A k \in Settings : ReadLdapRc(files)[k] = InFiles(k)
  BY FilesAreRead DEF FilesInv
<1>7. {"URI", "SASL_MECH", "BASE"} \subseteq Settings /\ Default["URI"] = "" /\ Default["SASL_MECH"] = ""
  BY DefaultAssumption DEF Settings
<1> DEFINE set == Merged(cfg, ReadLdapRc(files))
<1>8. PICK uri : /\ cfg' = [cfg EXCEPT !.set = [set EXCEPT !["URI"] = uri]]
                 /\ set["URI"] # "" => uri = set["URI"]
  BY DEF Settle
<1>9. /\ DOMAIN set = Settings
      /\ \A k \in Settings :
            set[k] = IF \/ OnLine(k) # Default[k]
                        \/ k = "BASE" /\ Uses("b") # {}
                        \/ k = "SASL_MECH" /\ cfg.simple
                     THEN OnLine(k)
                     ELSE InFiles(k)
  BY <1>3, <1>4, <1>5, <1>6 DEF Merged
<1> HIDE DEF set
<1>10. /\ DOMAIN cfg'.set = Settings
       /\ \A k \in Settings \ {"URI"} : cfg'.set[k] = set[k]
       /\ cfg'.set["URI"] = uri
       /\ cfg'.simple = cfg.simple /\ cfg'.aclCheck = cfg.aclCheck
  <2> DEFINE t == [set EXCEPT !["URI"] = uri]
  <2>1. DOMAIN t = Settings /\ t["URI"] = uri /\ \A k \in Settings \ {"URI"} : t[k] = set[k]
    BY <1>7, <1>9
  <2>2. cfg' = [cfg EXCEPT !.set = t]
    BY <1>8
  <2> HIDE DEF t
  <2>3. cfg'.set = t /\ cfg'.simple = cfg.simple /\ cfg'.aclCheck = cfg.aclCheck
    BY <1>3, <2>2
  <2> QED
    BY <2>1, <2>3
<1>11. /\ \A o : Uses(o)' = Uses(o)
       /\ \A k : OnLine(k)' = OnLine(k) /\ InFiles(k)' = InFiles(k)
       /\ \A k : Chosen(k)' = Chosen(k)
  BY <1>1, LineStays DEF Chosen
<1>12. \A k \in Settings \ {"URI", "BASE", "SASL_MECH"} : cfg'.set[k] = Chosen(k)
  BY <1>9, <1>10 DEF Chosen
<1>13. /\ Uses("b") # {} => cfg'.set["BASE"] = OnLine("BASE")
       /\ Uses("b") = {} => cfg'.set["BASE"] = InFiles("BASE")
  <2>1. Uses("b") # {} => cfg'.set["BASE"] = OnLine("BASE")
    BY <1>7, <1>9, <1>10
  <2>2. ASSUME Uses("b") = {} PROVE cfg'.set["BASE"] = InFiles("BASE")
    <3>1. OnLine("BASE") = Default["BASE"]
      <4>1. \A i \in DOMAIN line : line[i].o # "b"
        BY <2>2 DEF Uses
      <4>2. \A o \in DOMAIN SettingOf : SettingOf[o] = "BASE" => o = "b"
        BY DEF SettingOf
      <4> QED
        BY <4>1, <4>2 DEF OnLine
    <3> QED
      BY <1>7, <1>9, <1>10, <2>2, <3>1
  <2> QED
    BY <2>1, <2>2
<1>14. Chosen("URI") # "" => cfg'.set["URI"] = Chosen("URI")
  BY <1>7, <1>8, <1>9, <1>10 DEF Chosen
<1>15. ~cfg'.simple => cfg'.set["SASL_MECH"] = IF OnLine("SASL_MECH") # "" THEN OnLine("SASL_MECH")
                                                                          ELSE InFiles("SASL_MECH")
  BY <1>7, <1>9, <1>10
<1>17. BaseAsGiven'
  BY <1>1, <1>11, <1>13 DEF BaseAsGiven
<1>16. ValuesAsGiven'
  BY <1>11, <1>12, <1>14, <1>17 DEF ValuesAsGiven
<1> QED
  BY <1>1, <1>10, <1>11, <1>15, <1>16 DEF SetInv

\* After that only the search for a base changes a setting.
LEMMA SetStep ==
    ASSUME LineInv, OptInv, LinkInv, ReadInv, AuthInv, FilesInv, SetInv, [Next]_vars PROVE SetInv'
<1>1. files' = files
  BY FilesStay
<1>2. CASE pc' \in {"options", "settings", "exit"}
  BY <1>2 DEF SetInv, ValuesAsGiven
<1>3. CASE Settle
  BY <1>3, SettleGives
<1>4. CASE pc' \notin {"options", "settings", "exit"} /\ ~Settle
  <2>1. ~ReadOption /\ ~EndOptions
    BY <1>4 DEF ReadOption, EndOptions, Exits
  <2>2. line' = line /\ Kept /\ cfg'.simple = cfg.simple
    BY <2>1, StepKeeps
  <2>3. CASE UNCHANGED vars
    <3>1. pc \notin {"options", "settings", "exit"} /\ cfg' = cfg /\ pc' = pc
      BY <1>4, <2>3 DEF vars
    <3>2. /\ \A o : Uses(o)' = Uses(o)
          /\ \A k : OnLine(k)' = OnLine(k) /\ InFiles(k)' = InFiles(k)
      BY <1>1, <2>2, LineStays
    <3>3. BaseAsGiven'
      BY <1>1, <2>2, <3>1, BaseKept DEF SetInv, ValuesAsGiven
    <3> QED
      BY <3>1, <3>2, <3>3 DEF SetInv, ValuesAsGiven, Chosen
  <2>4. CASE Password
    <3>1. \E v : cfg' = [cfg EXCEPT !.password = v]
      BY <2>4 DEF Password
    <3>2. cfg'.set = cfg.set
      BY <3>1 DEF OptInv, Fields
    <3>3. pc = "password" /\ pc' \in {"connect", "exit"}
      BY <2>4 DEF Password, Exits
    <3> QED
      BY <1>1, <2>2, <3>2, <3>3, BaseKept, SetKept DEF Kept, SetInv, ValuesAsGiven
  <2>5. CASE Connect \/ Controls \/ StartTLS \/ Bind \/ Request \/ RequestsDone \/ Flavor
    <3>1. cfg' = cfg /\ pc \in {"connect", "controls", "starttls", "bind", "requests", "flavor"}
          /\ pc' \notin {"aclbase", "query", "tui"}
      BY <2>5 DEF Connect, Controls, StartTLS, Bind, Request, RequestsDone, Flavor, Exits
    <3>2. pc' # "exit" => BaseAsGiven'
      BY <1>1, <2>2, <3>1, BaseKept DEF SetInv, ValuesAsGiven
    <3> QED
      BY <1>1, <2>2, <3>1, <3>2, SetKept
  <2>6. CASE AclCheck \/ TakeFilters \/ Search \/ Launch
    <3>1. cfg' = cfg /\ pc = "query" /\ pc' \in {"query", "tui", "exit"}
      BY <2>6 DEF AclCheck, TakeFilters, Search, Launch, Exits
    <3>2. pc' # "exit" => BaseAsGiven'
      BY <1>1, <2>2, <3>1, BaseKept DEF SetInv, ValuesAsGiven
    <3> QED
      BY <1>1, <2>2, <3>1, <3>2, SetKept
  <2>7. CASE Base
    <3>1. /\ pc = "base" /\ pc' \in {"aclbase", "query"} /\ (pc' = "aclbase" => cfg.aclCheck)
          /\ cfg' = cfg \/ \E v : cfg' = [cfg EXCEPT !.set["BASE"] = v]
          /\ IF cfg.baseSet THEN cfg' = cfg ELSE DetectBase
      BY <2>7 DEF Base, DetectBase, BaseGiven
    <3>5. {"set", "baseSet"} \subseteq DOMAIN cfg /\ DOMAIN cfg.set = Settings /\ "BASE" \in Settings
      BY <3>1, DefaultAssumption DEF OptInv, Fields, SetInv, Settings
    <3>2. /\ DOMAIN cfg'.set = DOMAIN cfg.set
          /\ \A k \in Settings \ {"BASE"} : cfg'.set[k] = cfg.set[k]
      BY <3>1, <3>5
    <3>3. cfg.baseSet \in BOOLEAN /\ (cfg.baseSet <=> Uses("b") # {})
      <4>1. todo = <<>>
        BY <3>1 DEF LinkInv
      <4> QED
        BY <4>1, AllSeen DEF OptInv, Fields
    <3>6. /\ Uses("b")' = Uses("b") /\ OnLine("BASE")' = OnLine("BASE")
          /\ Detected' = Detected
      BY <1>1, <2>2, LineStays DEF Detected
    <3>4. BaseAsGiven'
      <4>1. CASE cfg.baseSet
        <5>1. cfg'.set["BASE"] = OnLine("BASE")
          BY <3>1, <3>3, <4>1 DEF SetInv, ValuesAsGiven, BaseAsGiven
        <5> QED
          BY <3>1, <3>3, <3>6, <4>1, <5>1 DEF BaseAsGiven
      <4>2. CASE ~cfg.baseSet
        <5>1. cfg'.set["BASE"] \in Detected
          BY <3>1, <3>5, <4>2, BaseIsDetected
        <5> QED
          BY <3>1, <3>3, <3>6, <4>2, <5>1 DEF BaseAsGiven
      <4> QED
        BY <3>3, <4>1, <4>2
    <3> QED
      BY <1>1, <2>2, <3>1, <3>2, <3>4, SetKept
  <2>8. CASE AclBase
    <3>1. /\ pc = "aclbase" /\ pc' = "query"
          /\ cfg' = cfg \/ \E v : cfg' = [cfg EXCEPT !.set["BASE"] = v]
          /\ IF cfg.set["BASE"] # "" THEN cfg' = cfg ELSE DetectBase
      BY <2>8 DEF AclBase, DetectBase
    <3>2. cfg.aclCheck /\ cfg'.aclCheck /\ BaseAsGiven
      BY <2>2, <3>1 DEF SetInv, ValuesAsGiven, Kept
    <3>5. "set" \in DOMAIN cfg /\ DOMAIN cfg.set = Settings /\ "BASE" \in Settings
      BY <3>1, DefaultAssumption DEF OptInv, Fields, SetInv, Settings
    <3>3. /\ DOMAIN cfg'.set = DOMAIN cfg.set
          /\ \A k \in Settings \ {"BASE"} : cfg'.set[k] = cfg.set[k]
      BY <3>1, <3>5
    <3>6. /\ Uses("b")' = Uses("b") /\ OnLine("BASE")' = OnLine("BASE")
          /\ Detected' = Detected
      BY <1>1, <2>2, LineStays DEF Detected
    <3>4. BaseAsGiven'
      <4>1. CASE cfg.set["BASE"] # ""
        BY <1>1, <2>2, <3>1, <3>2, <4>1, BaseKept
      <4>2. CASE cfg.set["BASE"] = ""
        <5>1. cfg'.set["BASE"] \in Detected
          BY <3>1, <3>5, <4>2, BaseIsDetected
        <5>2. Uses("b") = {} \/ OnLine("BASE") = ""
          BY <3>1, <3>2, <4>2 DEF BaseAsGiven
        <5> QED
          BY <3>1, <3>2, <3>6, <5>1, <5>2 DEF BaseAsGiven
      <4> QED
        BY <4>1, <4>2
    <3> QED
      BY <1>1, <2>2, <3>1, <3>2, <3>3, <3>4, SetKept
  <2> QED
    BY <1>4, <2>1, <2>3, <2>4, <2>5, <2>6, <2>7, <2>8 DEF Next
<1> QED
  BY <1>2, <1>3, <1>4

-----------------------------------------------------------------------------

\* The bind in the log, at its step, is the one asked for.
LEMMA BindStep ==
    ASSUME LineInv, OptInv, LinkInv, DoneInv, AuthInv, FilesInv, SetInv, AuthAsAsked, [Next]_vars
    PROVE  AuthAsAsked'
<1> DEFINE Said(x) == /\ x.req = "simple" => AsksSimple
                      /\ x.req = "sasl" =>
                           /\ ~AsksSimple
                           /\ x.with = IF OnLine("SASL_MECH") # "" THEN OnLine("SASL_MECH")
                                                                   ELSE InFiles("SASL_MECH")
<1>1. \A x : Said(x) <=>
         /\ x.req = "simple" => Uses("x") # {} \/ (HasPassword /\ OnLine("SASL_MECH") = "")
         /\ x.req = "sasl" =>
              /\ Uses("x") = {}
              /\ HasPassword => OnLine("SASL_MECH") # ""
              /\ x.with = IF OnLine("SASL_MECH") # "" THEN OnLine("SASL_MECH")
                                                      ELSE InFiles("SASL_MECH")
  BY DEF AsksSimple
<1>2. AuthAsAsked <=> \A i \in DOMAIN log : Said(log[i])
  BY <1>1 DEF AuthAsAsked
<1>3. line' = line /\ files' = files
  <2>1. line' = line
    BY StepKeeps DEF ReadOption
  <2> QED
    BY <2>1, FilesStay
<1>4. AuthAsAsked' <=> \A i \in DOMAIN log' : Said(log'[i])
  <2>1. /\ Uses("x")' = Uses("x") /\ (HasPassword' <=> HasPassword)
        /\ OnLine("SASL_MECH")' = OnLine("SASL_MECH") /\ InFiles("SASL_MECH")' = InFiles("SASL_MECH")
    BY <1>3, LineStays
  <2> QED
    BY <1>1, <2>1 DEF AuthAsAsked
<1> HIDE DEF Said
<1>5. ASSUME NEW x, log' = Append(log, x), Said(x) PROVE AuthAsAsked'
  <2>1. IsLog(log)
    BY DEF LinkInv
  <2> QED
    BY <1>2, <1>4, <1>5, <2>1, LogGrows
<1>6. ASSUME NEW x, log' = Append(log, x), x.req \notin {"simple", "sasl"} PROVE AuthAsAsked'
  BY <1>5, <1>6 DEF Said
<1>7. CASE log' = log
  BY <1>2, <1>4, <1>7
<1>8. CASE Bind
  <2> DEFINE req  == IF cfg.simple THEN "simple" ELSE "sasl"
             with == IF cfg.simple THEN cfg.password ELSE cfg.set["SASL_MECH"]
  <2>1. pc = "bind" /\ \E ok : Exchange(req, with, ok)
    BY <1>8 DEF Bind
  <2>2. cfg.simple \in BOOLEAN /\ (cfg.simple <=> AsksSimple)
    BY <2>1 DEF OptInv, AuthInv
  <2>3. ~cfg.simple => with = IF OnLine("SASL_MECH") # "" THEN OnLine("SASL_MECH")
                                                         ELSE InFiles("SASL_MECH")
    BY <2>1 DEF SetInv
  <2>4. (req = "simple" => cfg.simple) /\ (req = "sasl" => ~cfg.simple)
    OBVIOUS
  <2> HIDE DEF req, with
  <2>5. PICK x : log' = Append(log, x) /\ x.req = req /\ x.with = with
    BY <2>1 DEF Exchange, Answered
  <2>6. Said(x)
    BY <2>2, <2>3, <2>4, <2>5 DEF Said
  <2> QED
    BY <1>5, <2>5, <2>6
<1>9. CASE StartTLS /\ log' # log
  <2>1. PICK ok : log' = Append(log, [req |-> "starttls", with |-> "", tls |-> ok,
                                      ok |-> ok, told |-> ok])
    BY <1>9 DEF StartTLS
  <2> DEFINE x == [req |-> "starttls", with |-> "", tls |-> ok, ok |-> ok, told |-> ok]
  <2>2. log' = Append(log, x) /\ x.req = "starttls"
    BY <2>1
  <2> HIDE DEF x
  <2> QED
    BY <1>6, <2>2
<1>10. CASE Request /\ log' # log
  <2> DEFINE req  == FirstOf(asked)
             with == IF req = "increment" THEN cfg.set["BASE"] ELSE ""
  <2>1. pc = "requests" /\ asked # {} /\ \E ok, told : Answered(req, with, ok, told)
    BY <1>10 DEF Request
  <2>2. asked \in SUBSET Asking
    BY <2>1 DEF DoneInv, Wanted
  <2>3. req \in asked
    BY <2>1, <2>2, FirstOfIsFirst
  <2>4. req \notin {"simple", "sasl"}
    BY <2>2, <2>3, RequestsAre
  <2> HIDE DEF req, with
  <2> QED
    BY <1>6, <2>1, <2>4, AnswerSends
<1>11. CASE (Flavor \/ Base \/ AclBase \/ AclCheck \/ Search) /\ log' # log
  <2>1. \E req \in {"flavor", "contexts", "acl", "search"} : \E with, ok : Exchange(req, with, ok)
    BY <1>11 DEF Flavor, Base, AclBase, DetectBase, AclCheck, Search
  <2> QED
    BY <1>6, <2>1, ExchangeSends
<1>12. CASE \/ ReadOption \/ EndOptions \/ Settle \/ Password \/ Connect \/ Controls \/ RequestsDone
            \/ TakeFilters \/ Launch \/ UNCHANGED vars
  BY <1>7, <1>12 DEF ReadOption, EndOptions, Settle, Password, Connect, Controls, RequestsDone,
                    TakeFilters, Launch, vars
<1> QED
  BY <1>7, <1>8, <1>9, <1>10, <1>11, <1>12 DEF Next

SessionInv ==
    /\ LineInv /\ LevelInv /\ LinkInv /\ WellInv /\ OptInv /\ DoneInv
    /\ FilesInv /\ ReadInv /\ AuthInv /\ SetInv /\ AuthAsAsked

LEMMA SessionHolds == Spec => []SessionInv
<1>1. Init => SessionInv
  <2> SUFFICES ASSUME Init PROVE SessionInv
    OBVIOUS
  <2>1. LineInv /\ LevelInv /\ LinkInv /\ WellInv /\ OptInv /\ DoneInv
    BY FirstLine, OptInit, DoneInit
  <2>2. pc = "options" /\ cfg = NoConfig /\ log = <<>> /\ FilesInv
    BY DEF Init, FilesInv
  <2>3. Seen = 0
    <3>1. line \in Seq(ToSet(line)) /\ todo = line
      BY CommandsAssumption DEF Init
    <3> QED
      BY <3>1 DEF Seen
  <2>4. ReadInv
    <3>1. (\A k : GivenSoFar(k) = {}) /\ PasswordsSoFar = {} /\ ~SeenOpt("x")
      BY <2>3 DEF GivenSoFar, PasswordsSoFar, SeenOpt
    <3>2. cfg.set = Default /\ cfg.password = "" /\ cfg.simple = FALSE
      BY <2>2 DEF NoConfig
    <3> QED
      BY <3>1, <3>2 DEF ReadInv, Latest, Settings
  <2>5. AuthInv /\ SetInv
    BY <2>2 DEF AuthInv, SetInv, ValuesAsGiven
  <2>6. AuthAsAsked
    BY <2>2, NoLog DEF AuthAsAsked
  <2> QED
    BY <2>1, <2>2, <2>4, <2>5, <2>6 DEF SessionInv
<1>2. SessionInv /\ [Next]_vars => SessionInv'
  <2> SUFFICES ASSUME SessionInv, [Next]_vars PROVE SessionInv'
    OBVIOUS
  <2> USE DEF SessionInv
  <2>1. LineInv' /\ LevelInv' /\ LinkInv' /\ WellInv' /\ OptInv'
    BY StepReads, StepLink, StepWell, OptStep
  <2>2. DoneInv'
    BY <2>1, DoneStep
  <2>3. FilesInv'
    BY FilesStay DEF FilesInv
  <2>4. ReadInv' /\ AuthInv'
    BY ReadKept, AuthStep
  <2>5. SetInv' /\ AuthAsAsked'
    BY SetStep, BindStep
  <2> QED
    BY <2>1, <2>2, <2>3, <2>4, <2>5
<1> QED
  BY <1>1, <1>2, PTL DEF Spec

\* The session runs with the last value the command line gives to a setting, when it is not its
\* default, else with the first of the files that is not; and with the base of -b, even empty, or
\* one the server exposes.
THEOREM ValuesAreAsGiven == Spec => []ValuesAsGiven
<1>1. SessionInv => ValuesAsGiven
  BY DEF SessionInv, SetInv
<1> QED
  BY <1>1, SessionHolds, PTL

\* The server is bound to the way the user asked, whatever the order of the options and whatever
\* the files say.
THEOREM AuthIsAsAsked == Spec => []AuthAsAsked
<1>1. SessionInv => AuthAsAsked
  BY DEF SessionInv
<1> QED
  BY <1>1, SessionHolds, PTL
=============================================================================
