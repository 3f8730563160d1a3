--------------------------- MODULE ChangelogProofs ---------------------------
(***************************************************************************)
(* Proofs about the changelog and its iterator, for files and channels of  *)
(* any size, any number of changes, failures and restarts, wherever the    *)
(* reader is when a file is rotated away under it.                         *)
(***************************************************************************)
EXTENDS Changelog, TLAPS

USE ChangelogAssumption

-----------------------------------------------------------------------------
(* The inductive invariant *)

Entries == [number : Nat \ {0}, shovel : Nat]

\* A shovel numbers its changes one by one, from the ones in hist to the one
\* its callback will number next.
Numbered ==
    /\ \A i, j \in DOMAIN hist :
          hist[i].shovel = hist[j].shovel => hist[j].number - hist[i].number = j - i
    /\ \A i \in DOMAIN hist :
          /\ hist[i].shovel <= restarts
          /\ hist[i].shovel = restarts => writer.seq - hist[i].number = Len(hist) - i

\* Every line of every file ever is about a change, so is what the reader
\* sends.
Lines ==
    /\ files \in Seq(Seq(1..Len(hist)))
    /\ writer.busy = TRUE => Len(hist) # 0
    /\ reader.pc \in {"read", "wait", "drain", "flush"} => reader.file # 0

LogIInv ==
    /\ TypeOK
    /\ restarts \in Nat
    /\ Numbered
    /\ Lines
    /\ iter.prev <= iter.seen

-----------------------------------------------------------------------------
LEMMA MaxOfTwo ==
    ASSUME NEW a \in Nat, NEW b \in Nat
    PROVE  Max({a, b}) = IF a >= b THEN a ELSE b
  <1>1. \E x \in {a, b} : \A y \in {a, b} : x >= y
    OBVIOUS
  <1> QED
    BY <1>1 DEF Max

LEMMA SeqMonotone ==
    ASSUME NEW S, NEW T, S \subseteq T
    PROVE  Seq(S) \subseteq Seq(T)
  OBVIOUS

LEMMA ElementType ==
    ASSUME NEW S, NEW s \in Seq(S), NEW i \in 1..Len(s)
    PROVE  s[i] \in S /\ Len(s) \in Nat
  OBVIOUS

LEMMA AppendType ==
    ASSUME NEW S, NEW s \in Seq(S), NEW e \in S
    PROVE  Append(s, e) \in Seq(S) /\ Len(Append(s, e)) = Len(s) + 1 /\ Len(s) \in Nat
  OBVIOUS

\* What LogIInv says of hist and of the entries in it.
LEMMA HistType ==
    ASSUME LogIInv
    PROVE  /\ hist \in Seq(Entries) /\ Len(hist) \in Nat /\ DOMAIN hist = 1..Len(hist)
           /\ \A i \in 1..Len(hist) : /\ hist[i].shovel \in Nat /\ hist[i].number \in Nat
                                      /\ hist[i].shovel <= restarts
                                      /\ hist[i].shovel = restarts =>
                                            writer.seq - hist[i].number = Len(hist) - i
           /\ \A i, j \in 1..Len(hist) :
                 hist[i].shovel = hist[j].shovel => hist[j].number - hist[i].number = j - i
           /\ writer \in [seq : Nat, file : 0..Len(files), busy : BOOLEAN]
           /\ writer.seq \in Nat /\ restarts \in Nat
  <1>1. hist \in Seq(Entries) /\ writer \in [seq : Nat, file : 0..Len(files), busy : BOOLEAN]
        /\ restarts \in Nat
    BY DEF LogIInv, TypeOK, Entries
  <1>2. Len(hist) \in Nat /\ DOMAIN hist = 1..Len(hist)
        /\ \A i \in 1..Len(hist) : hist[i] \in Entries
    BY <1>1
  <1>3. \A e \in Entries : e.shovel \in Nat /\ e.number \in Nat
    BY DEF Entries
  <1>4. writer.seq \in Nat
    BY <1>1
  <1>5. Numbered
    BY DEF LogIInv
  <1> QED
    BY <1>1, <1>2, <1>3, <1>4, <1>5 DEF Numbered

LEMMA LogInit == Init => LogIInv
  <1> SUFFICES ASSUME Init PROVE LogIInv
    OBVIOUS
  <1>1. hist = << >> /\ files = << >> /\ Len(hist) = 0 /\ Len(files) = 0
        /\ DOMAIN hist = {} /\ DOMAIN files = {}
    BY DEF Init
  <1>2. writer \in [seq : Nat, file : 0..0, busy : BOOLEAN] /\ writer.busy = FALSE
    BY DEF Init
  <1>3. TypeOK
    BY <1>1, <1>2 DEF Init, TypeOK
  <1>4. Numbered /\ Lines
    BY <1>1, <1>2 DEF Init, Numbered, Lines
  <1> QED
    BY <1>3, <1>4 DEF Init, LogIInv

\* A step that announces no change.
LEMMA HistAlone ==
    ASSUME LogIInv, UNCHANGED hist, TypeOK', restarts' \in Nat, Lines', iter'.prev <= iter'.seen,
           \/ UNCHANGED restarts /\ writer'.seq = writer.seq
           \/ restarts' > restarts
    PROVE  LogIInv'
  <1>0. \A i \in DOMAIN hist : hist[i].shovel \in Nat /\ hist[i].number \in Nat
    BY HistType
  <1>1. Numbered'
    <2>1. CASE UNCHANGED restarts /\ writer'.seq = writer.seq
      BY <2>1 DEF LogIInv, Numbered
    <2>2. CASE restarts' > restarts
      BY <1>0, <2>2 DEF LogIInv, Numbered
    <2> QED
      BY <2>1, <2>2
  <1> QED
    BY <1>1 DEF LogIInv

\* LDBWritten gives the next number: all that refers to hist stays as it is.
LEMMA ChangeStep ==
    ASSUME LogIInv, Change
    PROVE  LogIInv'
  <1> DEFINE n == Len(hist)
             e == [number |-> writer.seq + 1, shovel |-> restarts]
  <1>0. /\ hist \in Seq(Entries) /\ writer.seq \in Nat /\ restarts \in Nat /\ n \in Nat
        /\ DOMAIN hist = 1..n
        /\ \A i \in 1..n : /\ hist[i].shovel \in Nat /\ hist[i].number \in Nat
                           /\ hist[i].shovel <= restarts
                           /\ hist[i].shovel = restarts => writer.seq - hist[i].number = n - i
        /\ \A i, j \in 1..n :
              hist[i].shovel = hist[j].shovel => hist[j].number - hist[i].number = j - i
    BY HistType
  <1>1. e \in Entries /\ e.number = writer.seq + 1 /\ e.shovel = restarts
    BY <1>0 DEF Entries
  <1>2. /\ hist' \in Seq(Entries) /\ Len(hist') = n + 1 /\ DOMAIN hist' = 1..(n + 1)
        /\ hist'[n + 1] = e
        /\ \A i \in 1..n : hist'[i] = hist[i]
    BY <1>0, <1>1 DEF Change
  <1> HIDE DEF n, e
  <1>3. writer' = [writer EXCEPT !.seq = writer.seq + 1, !.busy = TRUE]
        /\ writer' \in [seq : Nat, file : 0..Len(files), busy : BOOLEAN]
        /\ writer'.seq = writer.seq + 1
    <2>1. writer' = [writer EXCEPT !.seq = writer.seq + 1, !.busy = TRUE]
      BY HistType DEF Change
    <2>2. writer \in [seq : Nat, file : 0..Len(files), busy : BOOLEAN]
      BY HistType
    <2>3. writer' = [seq |-> writer.seq + 1, file |-> writer.file, busy |-> TRUE]
          /\ writer.file \in 0..Len(files)
      BY <2>1, <2>2
    <2>4. writer.seq + 1 \in Nat /\ TRUE \in BOOLEAN
      BY <1>0
    <2>5. writer' \in [seq : Nat, file : 0..Len(files), busy : BOOLEAN]
      BY <2>3, <2>4, Zenon
    <2>6. writer'.seq = writer.seq + 1
      BY <2>3
    <2> QED
      BY <2>1, <2>5, <2>6
  <1>4. UNCHANGED <<files, path, creates, reader, chan, iter, failures, restarts>>
    BY DEF Change
  <1>5. /\ chan' \in Seq(0..Len(hist'))
        /\ iter' \in [prev : 0..Len(hist'), seen : 0..Len(hist'),
                      result : {"none", "first", "event", "outOfSync", "error"}]
    <2>1. 0..n \subseteq 0..(n + 1)
      BY <1>0
    <2>2. chan \in Seq(0..n)
          /\ iter \in [prev : 0..n, seen : 0..n,
                       result : {"none", "first", "event", "outOfSync", "error"}]
      BY DEF LogIInv, TypeOK, n
    <2>3. chan \in Seq(0..(n + 1))
      BY <2>1, <2>2, SeqMonotone, ZenonT(60)
    <2> QED
      BY <1>2, <1>4, <2>1, <2>2, <2>3
  <1>6. TypeOK'
    BY <1>2, <1>3, <1>4, <1>5 DEF LogIInv, TypeOK, Entries
  <1>7. Numbered'
    <2>1. \A i, j \in 1..(n + 1) :
             hist'[i].shovel = hist'[j].shovel => hist'[j].number - hist'[i].number = j - i
      <3> SUFFICES ASSUME NEW i \in 1..(n + 1), NEW j \in 1..(n + 1),
                          hist'[i].shovel = hist'[j].shovel
                   PROVE  hist'[j].number - hist'[i].number = j - i
        OBVIOUS
      <3>1. CASE i \in 1..n /\ j \in 1..n
        BY <1>0, <1>2, <3>1
      <3>2. CASE i \in 1..n /\ j = n + 1
        BY <1>0, <1>1, <1>2, <3>2, SMTT(30)
      <3>3. CASE i = n + 1 /\ j \in 1..n
        <4>1. hist'[j] = hist[j] /\ hist'[i] = e /\ hist[j].number \in Nat
          BY <1>0, <1>2, <3>3
        <4>2. writer.seq - hist[j].number = n - j
          BY <1>0, <1>1, <3>3, <4>1
        <4> QED
          BY <1>0, <1>1, <3>3, <4>1, <4>2
      <3>4. CASE i = n + 1 /\ j = n + 1
        BY <1>0, <1>1, <1>2, <3>4
      <3> QED
        BY <1>0, <3>1, <3>2, <3>3, <3>4
    <2>2. ASSUME NEW i \in 1..(n + 1)
          PROVE  /\ hist'[i].shovel <= restarts'
                 /\ hist'[i].shovel = restarts' => writer'.seq - hist'[i].number = Len(hist') - i
      <3>1. CASE i \in 1..n
        <4>1. hist'[i] = hist[i] /\ hist[i].number \in Nat /\ restarts' = restarts
              /\ writer'.seq = writer.seq + 1
          BY <1>0, <1>2, <1>3, <1>4, <3>1
        <4>2. hist[i].shovel <= restarts
              /\ (hist[i].shovel = restarts => writer.seq - hist[i].number = n - i)
          BY <1>0, <3>1
        <4> QED
          BY <1>0, <1>2, <3>1, <4>1, <4>2
      <3>2. CASE i = n + 1
        BY <1>0, <1>1, <1>2, <1>3, <1>4, <3>2
      <3> QED
        BY <1>0, <3>1, <3>2
    <2> QED
      BY <1>2, <2>1, <2>2 DEF Numbered
  <1>8. Lines'
    <2>1. files' \in Seq(Seq(1..Len(hist')))
      <3>1. 1..n \subseteq 1..(n + 1)
        BY <1>0
      <3>2. Seq(1..n) \subseteq Seq(1..(n + 1))
        BY <3>1, SeqMonotone
      <3>3. Seq(Seq(1..n)) \subseteq Seq(Seq(1..(n + 1)))
        BY <3>2, SeqMonotone
      <3> QED
        BY <1>2, <1>4, <3>3 DEF LogIInv, Lines, n
    <2> QED
      BY <1>0, <1>2, <1>4, <2>1 DEF LogIInv, Lines
  <1> QED
    BY <1>0, <1>4, <1>6, <1>7, <1>8 DEF LogIInv

Writers(m)  == [seq : Nat, file : 0..m, busy : BOOLEAN]
Readers(m)  == [pc : {"off", "open", "missing", "read", "wait", "drain", "flush"},
                file : 0..m, pos : Nat]
Iterators(n) == [prev : 0..n, seen : 0..n,
                 result : {"none", "first", "event", "outOfSync", "error"}]

\* A step of the writer between two changes, or of NewShovel.
LEMMA WriterMoves ==
    ASSUME LogIInv, UNCHANGED <<hist, reader, chan, iter>>,
           files' \in Seq(Seq(1..Len(hist))), Len(files) <= Len(files'),
           \A i \in DOMAIN files' : Len(files'[i]) <= RotateSize,
           path' \in 0..Len(files'), writer' \in Writers(Len(files')), creates' \in Nat,
           writer'.busy = TRUE => writer.busy = TRUE,
           \/ UNCHANGED restarts /\ writer'.seq = writer.seq
           \/ restarts' = restarts + 1
    PROVE  LogIInv'
  <1>0. Len(files) \in Nat /\ Len(files') \in Nat /\ restarts \in Nat
    BY DEF LogIInv, Lines
  <1>1. reader' \in Readers(Len(files'))
    <2>1. reader \in Readers(Len(files))
      BY DEF LogIInv, TypeOK, Readers
    <2>2. 0..Len(files) \subseteq 0..Len(files')
      BY <1>0
    <2> QED
      BY <2>1, <2>2 DEF Readers
  <1>2. TypeOK'
    BY <1>1 DEF LogIInv, TypeOK, Writers, Readers
  <1>3. Lines'
    BY DEF LogIInv, Lines
  <1>4. restarts' \in Nat /\ (UNCHANGED restarts \/ restarts' > restarts)
    BY <1>0
  <1> QED
    BY <1>2, <1>3, <1>4, HistAlone DEF LogIInv

\* A step of the reader or of the iterator.
LEMMA ReaderMoves ==
    ASSUME LogIInv, UNCHANGED <<hist, files, path, writer, restarts>>,
           creates' \in Nat, reader' \in Readers(Len(files)),
           reader'.pc \in {"read", "wait", "drain", "flush"} => reader'.file # 0,
           chan' \in Seq(0..Len(hist)), Len(chan') <= ChanSize,
           iter' \in Iterators(Len(hist)), iter'.prev <= iter'.seen
    PROVE  LogIInv'
  <1>1. TypeOK'
    BY DEF LogIInv, TypeOK, Readers, Iterators
  <1>2. Lines'
    BY DEF LogIInv, Lines
  <1> QED
    BY <1>1, <1>2, HistAlone DEF LogIInv

LEMMA WriterSteps ==
    ASSUME LogIInv, WriterStep \/ WriteFails \/ NewShovel
    PROVE  LogIInv'
  <1> DEFINE m == Len(files)
  <1>0. /\ files \in Seq(Seq(1..Len(hist))) /\ m \in Nat /\ DOMAIN files = 1..m
        /\ \A i \in 1..m : files[i] \in Seq(1..Len(hist)) /\ Len(files[i]) <= RotateSize
        /\ path \in 0..m /\ creates \in Nat
        /\ writer \in Writers(m) /\ writer.seq \in Nat /\ writer.file \in 0..m
    <2>1. files \in Seq(Seq(1..Len(hist))) /\ path \in 0..m /\ creates \in Nat
          /\ writer \in Writers(m) /\ \A i \in DOMAIN files : Len(files[i]) <= RotateSize
      BY DEF LogIInv, TypeOK, Lines, Writers
    <2>2. writer.seq \in Nat /\ writer.file \in 0..m
      BY <2>1 DEF Writers
    <2> QED
      BY <2>1, <2>2
  <1>1. ASSUME NEW f \in 0..m, NEW b \in BOOLEAN, b = TRUE => writer.busy = TRUE,
               writer' = [seq |-> writer.seq, file |-> f, busy |-> b],
               path' \in {path, 0},
               UNCHANGED <<hist, files, creates, reader, chan, iter, restarts>>
        PROVE  LogIInv'
    <2>1. writer' \in Writers(m) /\ writer'.seq = writer.seq
          /\ (writer'.busy = TRUE => writer.busy = TRUE)
      BY <1>0, <1>1, Zenon DEF Writers
    <2>2. path' \in 0..Len(files')
      BY <1>0, <1>1
    <2>3. /\ files' \in Seq(Seq(1..Len(hist))) /\ Len(files) <= Len(files')
          /\ \A i \in DOMAIN files' : Len(files'[i]) <= RotateSize
      <3>1. files' = files
        BY <1>1
      <3> QED
        BY <1>0, <3>1
    <2>4. UNCHANGED <<hist, reader, chan, iter, restarts>> /\ creates' \in Nat /\ Len(files') = m
      BY <1>0, <1>1
    <2> QED
      BY <2>1, <2>2, <2>3, <2>4, WriterMoves
  <1>2. CASE OpenFile
    <2>1. writer.busy = TRUE
      BY <1>0, <1>2 DEF OpenFile, Writers
    <2>2. CASE path # 0
      <3>1. writer' = [seq |-> writer.seq, file |-> path, busy |-> writer.busy]
            /\ writer.busy \in BOOLEAN
        BY <1>0, <1>2, <2>2 DEF OpenFile, Writers
      <3> QED
        BY <1>0, <1>1, <1>2, <2>1, <2>2, <3>1 DEF OpenFile
    <2>3. CASE path = 0
      <3>1. files' = Append(files, << >>) /\ path' = m + 1 /\ creates' = Notified
            /\ writer' = [writer EXCEPT !.file = m + 1]
            /\ UNCHANGED <<hist, reader, chan, iter, restarts>>
        BY <1>2, <2>3 DEF OpenFile
      <3>2. << >> \in Seq(1..Len(hist)) /\ Len(<< >>) = 0
        OBVIOUS
      <3>3. /\ files' \in Seq(Seq(1..Len(hist))) /\ Len(files') = m + 1
            /\ DOMAIN files' = 1..(m + 1) /\ files'[m + 1] = << >>
            /\ \A i \in 1..m : files'[i] = files[i]
        BY <1>0, <3>1, <3>2
      <3>4. \A i \in DOMAIN files' : Len(files'[i]) <= RotateSize
        <4> SUFFICES ASSUME NEW i \in 1..(m + 1) PROVE Len(files'[i]) <= RotateSize
          BY <3>3
        <4>1. CASE i \in 1..m
          BY <1>0, <3>3, <4>1
        <4>2. CASE i = m + 1
          BY <3>2, <3>3, <4>2
        <4> QED
          BY <1>0, <4>1, <4>2
      <3>5. creates' \in Nat
        BY <1>0, <3>1 DEF Notified
      <3>6. writer' \in Writers(Len(files')) /\ writer'.seq = writer.seq
        <4>1. m + 1 \in 0..(m + 1)
          BY <1>0
        <4> QED
          BY <1>0, <3>1, <3>3, <4>1 DEF Writers
      <3>7. Len(files) <= Len(files') /\ path' \in 0..Len(files')
        BY <1>0, <3>1, <3>3
      <3> QED
        BY <2>1, <3>1, <3>3, <3>4, <3>5, <3>6, <3>7, WriterMoves
    <2> QED
      BY <2>2, <2>3
  <1>3. CASE Rotate
    <2>1. writer' = [seq |-> writer.seq, file |-> 0, busy |-> TRUE] /\ writer.busy = TRUE
      BY <1>0, <1>3 DEF Rotate, Writers
    <2>2. 0 \in 0..m /\ TRUE \in BOOLEAN
      BY <1>0
    <2>3. path' \in {path, 0} /\ UNCHANGED <<hist, files, creates, reader, chan, iter, restarts>>
      BY <1>3 DEF Rotate
    <2> QED
      BY <1>1, <2>1, <2>2, <2>3
  <1>4. CASE WriteLine
    <2> DEFINE f == writer.file
    <2>1. f \in 1..m /\ Len(files[f]) + 1 <= RotateSize /\ Len(files[f]) \in Nat
      BY <1>0, <1>4, SMTT(30) DEF WriteLine, Full
    <2>2. Len(hist) \in 1..Len(hist)
      <3>1. writer.busy = TRUE
        BY <1>0, <1>4 DEF WriteLine, Writers
      <3> QED
        BY <3>1, HistType DEF LogIInv, Lines
    <2>3. files' = [files EXCEPT ![f] = Append(files[f], Len(hist))]
      BY <1>4 DEF WriteLine
    <2>4. Append(files[f], Len(hist)) \in Seq(1..Len(hist))
          /\ Len(Append(files[f], Len(hist))) <= RotateSize
      BY <1>0, <2>1, <2>2
    <2>5. /\ files' \in Seq(Seq(1..Len(hist))) /\ Len(files') = m /\ DOMAIN files' = 1..m
          /\ \A i \in 1..m : files'[i] = IF i = f THEN Append(files[f], Len(hist)) ELSE files[i]
      BY <1>0, <2>1, <2>3, <2>4
    <2>6. \A i \in DOMAIN files' : Len(files'[i]) <= RotateSize
      BY <1>0, <2>4, <2>5
    <2>7. writer' = [seq |-> writer.seq, file |-> f, busy |-> FALSE]
      BY <1>0, <1>4 DEF WriteLine, Writers
    <2>8. writer' \in Writers(Len(files')) /\ writer'.seq = writer.seq /\ writer'.busy = FALSE
      BY <1>0, <2>5, <2>7, Zenon DEF Writers
    <2>9. UNCHANGED <<hist, path, creates, reader, chan, iter, restarts>>
      BY <1>4 DEF WriteLine
    <2>10. Len(files) <= Len(files') /\ path' \in 0..Len(files') /\ creates' \in Nat
      BY <1>0, <2>5, <2>9
    <2> QED
      BY <2>5, <2>6, <2>8, <2>9, <2>10, WriterMoves
  <1>5. CASE WriteFails
    <2>1. PICK f \in {0, writer.file} : writer' = [seq |-> writer.seq, file |-> f, busy |-> FALSE]
      BY <1>0, <1>5 DEF WriteFails, Writers
    <2>2. f \in 0..m
      BY <1>0
    <2> QED
      BY <1>1, <1>5, <2>1, <2>2 DEF WriteFails
  <1>6. CASE NewShovel
    <2>1. writer' = [seq |-> 0, file |-> 0, busy |-> FALSE]
      BY <1>6 DEF NewShovel
    <2>2. 0 \in 0..m
      BY <1>0
    <2>3. writer' \in Writers(m) /\ writer'.busy = FALSE
      BY <2>1, <2>2, Zenon DEF Writers
    <2> QED
      BY <1>0, <1>6, <2>3, WriterMoves DEF NewShovel
  <1> QED
    BY <1>2, <1>3, <1>4, <1>5, <1>6 DEF WriterStep

LEMMA ReaderType ==
    ASSUME LogIInv
    PROVE  /\ reader \in Readers(Len(files)) /\ reader.file \in 0..Len(files) /\ reader.pos \in Nat
           /\ files \in Seq(Seq(1..Len(hist))) /\ path \in 0..Len(files) /\ creates \in Nat
           /\ Len(files) \in Nat /\ Len(hist) \in Nat
           /\ chan \in Seq(0..Len(hist)) /\ Len(chan) <= ChanSize
           /\ iter \in Iterators(Len(hist)) /\ iter.prev \in 0..Len(hist)
           /\ iter.seen \in 0..Len(hist) /\ iter.prev <= iter.seen
           /\ reader.pc \in {"read", "wait", "drain", "flush"} => reader.file \in 1..Len(files)
  <1>1. /\ reader \in Readers(Len(files)) /\ path \in 0..Len(files) /\ creates \in Nat
        /\ files \in Seq(Seq(1..Len(hist)))
        /\ chan \in Seq(0..Len(hist)) /\ Len(chan) <= ChanSize
        /\ iter \in Iterators(Len(hist)) /\ iter.prev <= iter.seen
        /\ reader.pc \in {"read", "wait", "drain", "flush"} => reader.file # 0
    BY DEF LogIInv, TypeOK, Lines, Readers, Iterators
  <1>2. Len(files) \in Nat /\ Len(hist) \in Nat
    BY <1>1, HistType
  <1>3. reader.file \in 0..Len(files) /\ reader.pos \in Nat
    BY <1>1 DEF Readers
  <1>4. iter.prev \in 0..Len(hist) /\ iter.seen \in 0..Len(hist)
    BY <1>1 DEF Iterators
  <1>5. reader.pc \in {"read", "wait", "drain", "flush"} => reader.file \in 1..Len(files)
    BY <1>1, <1>2, <1>3
  <1> QED
    BY <1>1, <1>2, <1>3, <1>4, <1>5

LEMMA ReaderSteps ==
    ASSUME LogIInv, ReaderStep \/ Created \/ ReadFails \/ WatcherFails
    PROVE  LogIInv'
  <1> USE ReaderType
  <1>1. ASSUME NEW r \in Readers(Len(files)), reader' = r,
               r.pc \in {"read", "wait", "drain", "flush"} => r.file # 0,
               creates' \in Nat,
               UNCHANGED <<hist, files, path, writer, chan, iter, restarts>>
        PROVE  LogIInv'
    BY <1>1, ReaderMoves
  <1>2. ASSUME NEW pc \in {"open", "missing", "read", "wait", "drain", "flush"},
               reader' = [reader EXCEPT !.pc = pc],
               pc \in {"read", "wait", "drain", "flush"} => reader.file # 0,
               creates' \in Nat,
               UNCHANGED <<hist, files, path, writer, chan, iter, restarts>>
        PROVE  LogIInv'
    <2> DEFINE r == [reader EXCEPT !.pc = pc]
    <2>1. r \in Readers(Len(files)) /\ r.pc = pc /\ r.file = reader.file
      BY DEF Readers
    <2> QED
      BY <1>1, <1>2, <2>1
  <1>3. CASE NewIterator
    BY <1>2, <1>3 DEF NewIterator
  <1>4. CASE Open
    <2>1. CASE path = 0
      BY <1>2, <1>4, <2>1 DEF Open
    <2>2. CASE path # 0
      <3>1. [pc |-> "read", file |-> path, pos |-> 0] \in Readers(Len(files))
        BY DEF Readers
      <3> QED
        BY <1>1, <1>4, <2>2, <3>1 DEF Open
    <2> QED
      BY <2>1, <2>2
  <1>5. CASE Recheck
    <2>1. creates' \in Nat
      BY <1>5 DEF Recheck
    <2> QED
      BY <1>2, <1>5, <2>1 DEF Recheck
  <1>6. CASE ReadLine
    <2> DEFINE f == files[reader.file]
               r == [reader EXCEPT !.pos = reader.pos + 1]
    <2>0. reader.pc \in {"read", "drain", "flush"} /\ reader.pos < Len(f) /\ Len(chan) < ChanSize
          /\ chan' = Append(chan, f[reader.pos + 1])
      BY <1>6 DEF ReadLine, Reading
    <2>1. reader.file \in 1..Len(files)
      BY <2>0
    <2>2. f \in Seq(1..Len(hist))
      BY <2>1, ElementType
    <2> HIDE DEF f
    <2>3. reader.pos + 1 \in 1..Len(f)
      <3>1. Len(f) \in Nat
        BY <2>2
      <3>2. reader.pos \in Nat /\ reader.pos < Len(f)
        BY <2>0
      <3> HIDE ReaderType
      <3> QED
        BY <3>1, <3>2
    <2>4. f[reader.pos + 1] \in 0..Len(hist)
      <3>1. f[reader.pos + 1] \in 1..Len(hist)
        BY <2>2, <2>3, ElementType
      <3> QED
        BY <3>1
    <2>6. chan' \in Seq(0..Len(hist)) /\ Len(chan') <= ChanSize
      BY <2>0, <2>4, AppendType
    <2>5. reader' = r /\ r \in Readers(Len(files)) /\ r.file = reader.file
      <3>1. reader' = [reader EXCEPT !.pos = @ + 1]
        BY <1>6 DEF ReadLine
      <3>2. reader.pos + 1 \in Nat
        OBVIOUS
      <3> QED
        BY <3>1, <3>2 DEF Readers
    <2> QED
      BY <1>6, <2>1, <2>6, <2>5, ReaderMoves DEF ReadLine
  <1>7. CASE EndOfFile
    <2>1. \E pc \in {"wait", "open"} : reader' = [reader EXCEPT !.pc = pc]
      BY <1>7 DEF EndOfFile
    <2>2. reader.file # 0
      BY <1>7 DEF EndOfFile
    <2> QED
      BY <1>2, <1>7, <2>1, <2>2 DEF EndOfFile
  <1>8. CASE Poll
    BY <1>2, <1>8 DEF Poll
  <1>9. CASE Created
    <2>1. creates' \in Nat
      BY <1>9, SMTT(30) DEF Created
    <2> QED
      BY <1>2, <1>9, <2>1 DEF Created
  <1>10. CASE SendError
    <2>1. 0 \in 0..Len(hist)
      OBVIOUS
    <2>2. chan' \in Seq(0..Len(hist)) /\ Len(chan') <= ChanSize
      BY <1>10, <2>1 DEF SendError
    <2> DEFINE r == [reader EXCEPT !.pc = "open"]
    <2>3. reader' = r /\ r \in Readers(Len(files)) /\ r.pc = "open"
      BY <1>10 DEF SendError, Readers
    <2> QED
      BY <1>10, <2>2, <2>3, ReaderMoves DEF SendError
  <1>11. CASE WatcherFails
    BY <1>2, <1>11 DEF WatcherFails
  <1> QED
    BY <1>3, <1>4, <1>5, <1>6, <1>7, <1>8, <1>9, <1>10, <1>11 DEF ReaderStep, ReadFails, Flushed

\* Next: the client is told of an error, or of the change at the head of the
\* channel.
LEMMA NextStep ==
    ASSUME LogIInv, IteratorNext
    PROVE  /\ LogIInv'
           /\ iter'.result = "event" =>
                 /\ iter.prev # 0 /\ iter'.prev # 0
                 /\ hist[iter.prev].number = hist[iter'.prev].number - 1
                 /\ iter'.seen = Max({iter.seen, iter'.prev})
                 /\ iter'.prev \in 1..Len(hist)
  <1> DEFINE id == Head(chan)
  <1> USE ReaderType
  <1>1. id \in 0..Len(hist) /\ chan' \in Seq(0..Len(hist)) /\ Len(chan') <= ChanSize
    BY SMTT(30) DEF IteratorNext
  <1>2. CASE id = 0
    <2>1. iter' = [iter EXCEPT !.result = "error"]
      BY <1>2 DEF IteratorNext
    <2>2. iter' \in Iterators(Len(hist)) /\ iter'.prev = iter.prev /\ iter'.seen = iter.seen
          /\ iter'.result = "error"
      BY <2>1 DEF Iterators
    <2> QED
      BY <1>1, <2>2, ReaderMoves DEF IteratorNext
  <1>3. CASE id # 0
    <2> DEFINE m == Max({iter.seen, id})
    <2>1. m \in 0..Len(hist) /\ id <= m
      <3>1. id \in Nat /\ iter.seen \in Nat
        BY <1>1
      <3>2. m = IF iter.seen >= id THEN iter.seen ELSE id
        BY <3>1, MaxOfTwo
      <3> QED
        BY <1>1, <3>2
    <2>2. PICK res \in {"first", "event", "outOfSync"} :
             /\ iter' = [prev |-> id, seen |-> m, result |-> res]
             /\ res = "event" => InSync(id) /\ iter.prev # 0
      BY <1>3 DEF IteratorNext
    <2>3. iter' \in Iterators(Len(hist)) /\ iter'.prev <= iter'.seen
      BY <1>1, <2>1, <2>2 DEF Iterators
    <2>4. LogIInv'
      BY <1>1, <2>3, ReaderMoves DEF IteratorNext
    <2> QED
      BY <1>1, <1>3, <2>2, <2>4 DEF InSync
  <1> QED
    BY <1>2, <1>3

LEMMA LogNext == LogIInv /\ [Next]_vars => LogIInv'
  <1> SUFFICES ASSUME LogIInv, [Next]_vars PROVE LogIInv'
    OBVIOUS
  <1>1. CASE UNCHANGED vars
    BY <1>1, ReaderType, ReaderMoves DEF vars, LogIInv, Lines
  <1> QED
    BY <1>1, ChangeStep, WriterSteps, ReaderSteps, NextStep DEF Next

LEMMA LogInvariance == Spec => []LogIInv
  BY LogInit, LogNext, PTL DEF Spec

-----------------------------------------------------------------------------
(* Theorems *)

\* No file outgrows RotateSize and no channel its capacity; every line, every
\* event on its way and everything the client knows is a change that was
\* made, however the writer's rotations and the reader's opens interleave.
THEOREM LogTypeCorrect == Spec => []TypeOK
  <1>1. LogIInv => TypeOK
    BY DEF LogIInv
  <1> QED
    BY <1>1, LogInvariance, PTL

\* An event that Next returns without ErrOutOfSync, after another of the same
\* shovel, leaves no change out: neither a removed file nor a line that could
\* not be written goes unnoticed.
THEOREM LossIsNoticed == Spec => NoSilentLossByShovel
  <1>1. ASSUME LogIInv, [Next]_vars
        PROVE  [/\ iter'.result = "event"
                /\ hist[iter.prev].shovel = hist[iter'.prev].shovel
                => Complete]_iter
    <2> SUFFICES ASSUME ~UNCHANGED iter, iter'.result = "event",
                        hist[iter.prev].shovel = hist[iter'.prev].shovel
                 PROVE  Complete
      OBVIOUS
    <2>1. IteratorNext
      BY <1>1 DEF Next, WriterStep, ReaderStep, Change, OpenFile, Rotate, WriteLine, WriteFails,
                  NewShovel, NewIterator, Open, Recheck, ReadLine, EndOfFile, Poll, Created,
                  ReadFails, WatcherFails, Flushed, SendError, vars
    <2> DEFINE i == iter.prev
               j == iter'.prev
    <2>2. /\ i \in 1..Len(hist) /\ j \in 1..Len(hist) /\ i <= iter.seen
          /\ hist[i].number = hist[j].number - 1
          /\ iter'.seen = Max({iter.seen, j})
          /\ iter.seen \in Nat
      BY <1>1, <2>1, NextStep, ReaderType
    <2>3. hist[j].number - hist[i].number = j - i /\ hist[i].number \in Nat
          /\ hist[j].number \in Nat
      BY <1>1, <2>2, HistType
    <2>4. j = i + 1
      BY <2>2, <2>3, SMTT(30)
    <2>5. iter'.seen <= iter.seen + 1
      BY <2>2, <2>4, MaxOfTwo
    <2> QED
      BY <2>5 DEF Complete
  <1> QED
    BY <1>1, LogInvariance, PTL DEF Spec, NoSilentLossByShovel
=============================================================================
