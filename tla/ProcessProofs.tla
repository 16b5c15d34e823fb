--------------------------- MODULE ProcessProofs ---------------------------
(* Proofs about the process's two ends. Startup: its settings, for any config *)
(* file and environment, and its keys, for any number of updates, however     *)
(* they are cut off. Lifecycle: the order of joins, and late ticks.           *)
EXTENDS Startup, Lifecycle, FoldLemmas, SequenceTheorems

-----------------------------------------------------------------------------
\* Startup's keys. No key is there; both are; the second comes only after the whole first.
Empty(keys) == keys.api = NoKey /\ keys.secret = NoKey
Full(keys) == IsSet(keys.api) /\ IsSet(keys.secret)
OfOne(keys) ==
    IsSet(keys.secret) => IsSet(keys.api) /\ keys.api.whole /\ keys.api.of = keys.secret.of

\* What a key from the environment is, and one from the file.
FromEnvironment(key) == key = Key(0)
FromFile(key) == IsSet(key) => key.of # 0

\* The credentials file.
FileInv ==
    /\ writes \in Nat /\ broken \in BOOLEAN
    /\ OfOne(creds) /\ FromFile(creds.api) /\ FromFile(creds.secret)
    /\ writing # NoKeys => Empty(creds) /\ broken /\ \E a \in Nat \ {0} : writing = Whole(a)
    /\ ~broken => Full(creds) \/ Empty(creds)

\* The keys of the process: as in the place they were read from.
ExecInv ==
    /\ setup \in Setups
    /\ setup.env.keys = {} => OfOne(exec)
    /\ engine = "running" =>
        /\ IF "api" \in setup.env.keys THEN FromEnvironment(exec.api) ELSE FromFile(exec.api)
        /\ IF "secret" \in setup.env.keys THEN FromEnvironment(exec.secret)
                                         ELSE FromFile(exec.secret)
    /\ engine = "running" /\ ~broken /\ Empty(creds) => exec = KeysAtStart

\* The inductive invariant.
KeysInv == FileInv /\ ExecInv

-----------------------------------------------------------------------------
(* The two keys of an account are set, and belong to it.                      *)
LEMMA WholeKeys ==
    ASSUME NEW a \in Nat \ {0}
    PROVE  /\ Full(Whole(a)) /\ OfOne(Whole(a)) /\ Whole(a) # NoKeys
           /\ Whole(a).api = Key(a) /\ Whole(a).secret = Key(a)
<1>1. Key(a) # NoKey /\ Key(a).whole = TRUE
  BY DEF Key, NoKey
<1>2. Whole(a).api = Key(a) /\ Whole(a).secret = Key(a)
  BY DEF Whole
<1>3. Whole(a) # NoKeys
  BY <1>1, <1>2 DEF NoKeys
<1> QED BY <1>1, <1>2, <1>3 DEF Full, OfOne, IsSet

(* Whatever part of an account's text reaches a truncated file, it has the    *)
(* second key only after the whole first, and both when it is all there.      *)
LEMMA PartsOfOne ==
    ASSUME NEW a \in Nat \ {0}, NEW file, Empty(file), NEW p \in Reaching(Whole(a))
    PROVE  /\ OfOne(Over(file, p)) /\ (p = Whole(a) => Full(Over(file, p)))
           /\ FromFile(Over(file, p).api) /\ FromFile(Over(file, p).secret)
<1> DEFINE over == Over(file, p)
<1>1. /\ over.api = (IF IsSet(p.api) THEN p.api ELSE NoKey)
      /\ over.secret = (IF IsSet(p.secret) THEN p.secret ELSE NoKey)
  BY DEF Over, Empty
<1> HIDE DEF over
<1>2. over.api = p.api /\ over.secret = p.secret
  BY <1>1 DEF IsSet
<1>3. IsSet(p.secret) => p.api = Key(a) /\ p.secret.of = a
  <2>1. CASE p = NoKeys
    BY <2>1 DEF NoKeys, IsSet
  <2>2. CASE p = [Whole(a) EXCEPT !.api = Cut(@), !.secret = NoKey]
    BY <2>2 DEF Whole, IsSet
  <2>3. CASE p = [Whole(a) EXCEPT !.secret = NoKey]
    BY <2>3 DEF Whole, IsSet
  <2>4. CASE p = [Whole(a) EXCEPT !.secret = Cut(@)]
    BY <2>4 DEF Whole, Cut, Key
  <2>5. CASE p = Whole(a)
    BY <2>5 DEF Whole, Key
  <2> QED BY <2>1, <2>2, <2>3, <2>4, <2>5 DEF Reaching
<1>4. Key(a) # NoKey /\ Key(a).whole = TRUE /\ Key(a).of = a
  BY DEF Key, NoKey
<1>5. OfOne(over)
  BY <1>2, <1>3, <1>4 DEF OfOne, IsSet
<1>6. p = Whole(a) => Full(over)
  BY <1>2, WholeKeys DEF Full
<1>7. IsSet(p.api) => p.api.of = a
  <2>1. CASE p = NoKeys
    BY <2>1 DEF NoKeys, IsSet
  <2>2. CASE p = [Whole(a) EXCEPT !.api = Cut(@), !.secret = NoKey]
    BY <2>2 DEF Whole, Cut, Key
  <2>3. CASE p = [Whole(a) EXCEPT !.secret = NoKey]
    BY <2>3 DEF Whole, Key
  <2>4. CASE p = [Whole(a) EXCEPT !.secret = Cut(@)]
    BY <2>4 DEF Whole, Key
  <2>5. CASE p = Whole(a)
    BY <2>5 DEF Whole, Key
  <2> QED BY <2>1, <2>2, <2>3, <2>4, <2>5 DEF Reaching
<1>8. FromFile(over.api) /\ FromFile(over.secret)
  BY <1>2, <1>3, <1>7 DEF FromFile
<1> QED BY <1>5, <1>6, <1>8 DEF over

-----------------------------------------------------------------------------
(* The initial states satisfy the invariant.                                  *)
LEMMA KeysInvInit == Init => KeysInv
<1> SUFFICES ASSUME Init PROVE KeysInv
  OBVIOUS
<1>1. Empty(NoKeys) /\ OfOne(NoKeys)
  BY DEF Empty, OfOne, NoKeys, IsSet
<1>2. Full(Whole(1)) /\ OfOne(Whole(1)) /\ Whole(1).api = Key(1) /\ Whole(1).secret = Key(1)
  BY WholeKeys
<1>3. FileInv
  <2>1. writes \in Nat /\ OfOne(creds) /\ (Full(creds) \/ Empty(creds))
    BY <1>1, <1>2 DEF Init
  <2>2. broken \in BOOLEAN /\ writing = NoKeys
    BY DEF Init
  <2>3. FromFile(NoKey) /\ FromFile(Key(1))
    BY DEF FromFile, IsSet, Key
  <2>4. FromFile(creds.api) /\ FromFile(creds.secret)
    <3>1. (creds.api = NoKey /\ creds.secret = NoKey) \/ (creds.api = Key(1) /\ creds.secret = Key(1))
      BY <1>1, <1>2 DEF Init, Empty
    <3> QED BY <2>3, <3>1
  <2> QED BY <2>1, <2>2, <2>4 DEF FileInv
<1>4. ExecInv
  BY <1>1 DEF Init, ExecInv
<1> QED BY <1>3, <1>4 DEF KeysInv

(* A write, whole or not, keeps the file's part of the invariant.             *)
LEMMA WritingKeeps ==
    ASSUME FileInv, writing # NoKeys, WriteSome, writing' = NoKeys, writes' = writes
    PROVE  FileInv' /\ (broken' \/ Full(creds'))
<1>1. PICK a \in Nat \ {0} : writing = Whole(a)
  BY DEF FileInv
<1>2. PICK p \in Reaching(writing) : creds' = Over(creds, p) /\ broken' = (p # writing)
  BY DEF WriteSome
<1>3. /\ OfOne(creds') /\ FromFile(creds'.api) /\ FromFile(creds'.secret)
      /\ p = writing => Full(creds')
  BY <1>1, <1>2, PartsOfOne DEF FileInv
<1>4. broken' \in BOOLEAN /\ (broken' \/ Full(creds'))
  BY <1>2, <1>3
<1> QED BY <1>3, <1>4 DEF FileInv

(* Every step preserves the invariant.                                        *)
LEMMA KeysInvNext == KeysInv /\ [Next]_vars => KeysInv'
<1> SUFFICES ASSUME KeysInv, [Next]_vars PROVE KeysInv'
  OBVIOUS
<1> USE DEF KeysInv
<1>1. ASSUME UNCHANGED <<creds, writing, writes, broken>> PROVE FileInv'
  BY <1>1 DEF FileInv
<1>2. CASE Start
  <2>1. /\ exec' = KeysAtStart /\ setup' = setup /\ creds' = creds
        /\ UNCHANGED <<creds, writing, writes, broken>>
    BY <1>2 DEF Start
  <2>2. setup.env.keys = {} => KeysAtStart.api = creds.api /\ KeysAtStart.secret = creds.secret
    BY DEF KeysAtStart
  <2>3. /\ IF "api" \in setup.env.keys THEN FromEnvironment(KeysAtStart.api)
                                        ELSE FromFile(KeysAtStart.api)
        /\ IF "secret" \in setup.env.keys THEN FromEnvironment(KeysAtStart.secret)
                                           ELSE FromFile(KeysAtStart.secret)
    BY DEF KeysAtStart, FileInv, FromEnvironment
  <2>4. KeysAtStart' = KeysAtStart
    BY <2>1 DEF KeysAtStart
  <2>5. ExecInv'
    BY <2>1, <2>2, <2>3, <2>4 DEF ExecInv, FileInv, OfOne
  <2> QED BY <1>1, <2>1, <2>5
<1>3. CASE Die
  <2>1. CASE writing = NoKeys
    BY <1>1, <1>3, <2>1 DEF Die, ExecInv
  <2>2. CASE writing # NoKeys
    <3>1. FileInv'
      BY <1>3, <2>2, WritingKeeps DEF Die
    <3> QED BY <1>3, <2>2, <3>1 DEF Die, ExecInv
  <2> QED BY <2>1, <2>2
<1>4. ASSUME NEW api \in BOOLEAN, NEW secret \in BOOLEAN, OpenFile(api, secret)
      PROVE  KeysInv'
  <2>1. api = TRUE /\ secret = TRUE
    BY <1>4 DEF OpenFile, Lacks
  <2>2. /\ writes' = writes + 1 /\ broken' = TRUE /\ creds' = NoKeys
        /\ UNCHANGED <<setup, engine, exec>>
    BY <1>4 DEF OpenFile, Opened
  <2>3. writing' = Whole(writes')
    BY <1>4, <2>1 DEF OpenFile, Whole
  <2>4. Empty(NoKeys) /\ OfOne(NoKeys) /\ FromFile(NoKeys.api) /\ FromFile(NoKeys.secret)
    BY DEF Empty, OfOne, FromFile, NoKeys, IsSet
  <2>5. FileInv'
    BY <2>2, <2>3, <2>4 DEF FileInv
  <2> QED BY <2>2, <2>5 DEF ExecInv
<1>5. CASE WriteFile
  <2>1. FileInv' /\ (broken' \/ Full(creds'))
    BY <1>5, WritingKeeps DEF WriteFile
  <2>2. Full(creds') => ~Empty(creds')
    BY DEF Full, Empty, IsSet
  <2> QED BY <1>5, <2>1, <2>2 DEF WriteFile, ExecInv
<1>6. ASSUME UNCHANGED <<setup, engine, exec, creds, writing, writes, broken>> PROVE KeysInv'
  BY <1>1, <1>6 DEF ExecInv, KeysAtStart
<1>7. ASSUME NEW api \in BOOLEAN, NEW secret \in BOOLEAN,
             BadRequest(api, secret) \/ OpenFails(api, secret)
      PROVE  KeysInv'
  BY <1>6, <1>7 DEF BadRequest, OpenFails
<1>8. CASE UNCHANGED vars
  BY <1>6, <1>8 DEF vars
<1> QED BY <1>2, <1>3, <1>4, <1>5, <1>7, <1>8 DEF Next, Update

(* In every environment, and wherever writes of the credentials file ended,   *)
(* the engine signs with the keys of two accounts exactly when the            *)
(* environment has one of the two, and with a first key that was cut off only *)
(* when the environment has the other (bootstrap.cpp:32-36).                  *)
THEOREM KeysMatch == StartSpec => []KeysOfOneAccount
<1>1. KeysInv => KeysOfOneAccount
  <2> SUFFICES ASSUME KeysInv, engine = "running", IsSet(exec.api), IsSet(exec.secret)
               PROVE  /\ exec.api.of = exec.secret.of <=> setup.env.keys \in {{}, {"api", "secret"}}
                      /\ exec.api.whole \/ setup.env.keys = {"secret"}
    BY DEF KeysOfOneAccount
  <2>1. Key(0).whole = TRUE /\ Key(0).of = 0
    BY DEF Key
  <2>2. /\ IF "api" \in setup.env.keys THEN exec.api = Key(0) ELSE exec.api.of # 0
        /\ IF "secret" \in setup.env.keys THEN exec.secret = Key(0) ELSE exec.secret.of # 0
    BY DEF KeysInv, ExecInv, FromEnvironment, FromFile
  <2>3. setup.env.keys = {} => exec.api.of = exec.secret.of /\ exec.api.whole
    BY DEF KeysInv, ExecInv, OfOne
  <2>4. setup.env.keys \subseteq {"api", "secret"}
    BY SetupsAssumption DEF KeysInv, ExecInv
  <2>5. \/ setup.env.keys = {} \/ setup.env.keys = {"api"}
        \/ setup.env.keys = {"secret"} \/ setup.env.keys = {"api", "secret"}
    BY <2>4
  <2> QED BY <2>1, <2>2, <2>3, <2>5
<1> QED BY <1>1, KeysInvInit, KeysInvNext, PTL DEF StartSpec

(* Unless the last write was cut off, keys that GET /credentials/status shows *)
(* as set are there at the restart.                                           *)
THEOREM StatusTruthful == StartSpec => []StatusForetellsStart
<1>1. KeysInv => StatusForetellsStart
  <2> SUFFICES ASSUME KeysInv, engine = "running", StatusSet, ~broken
               PROVE  IsSet(KeysAtStart.api) /\ IsSet(KeysAtStart.secret)
    BY DEF StatusForetellsStart
  <2>1. CASE Full(creds)
    <3>1. IsSet(Key(0))
      BY DEF IsSet, Key, NoKey
    <3> QED BY <2>1, <3>1 DEF KeysAtStart, Full
  <2>2. CASE Empty(creds)
    BY <2>2 DEF KeysInv, ExecInv, StatusSet, Empty, IsSet
  <2> QED BY <2>1, <2>2 DEF KeysInv, FileInv
<1> QED BY <1>1, KeysInvInit, KeysInvNext, PTL DEF StartSpec
-----------------------------------------------------------------------------
(* The config file. r holds the parser's state after each of the first n lines. *)
Reads(lines, r, n) ==
    r = [m \in 0..n |-> IF m = 0 THEN Blank ELSE ReadLine(r[m - 1], lines[m])]

(* Such a sequence of states starts blank and reads a line at a time.         *)
LEMMA ReadsUpTo ==
    ASSUME NEW lines, NEW r, NEW n \in Nat, Reads(lines, r, n)
    PROVE  r[0] = Blank /\ \A m \in 1..n : r[m] = ReadLine(r[m - 1], lines[m])
<1> DEFINE R(m) == IF m = 0 THEN Blank ELSE ReadLine(r[m - 1], lines[m])
<1>1. r = [m \in 0..n |-> R(m)]
  BY DEF Reads
<1> HIDE DEF R
<1>2. \A m \in 0..n : r[m] = R(m)
  BY <1>1
<1>3. R(0) = Blank /\ \A m \in 1..n : R(m) = ReadLine(r[m - 1], lines[m])
  BY DEF R
<1>4. 0 \in 0..n /\ \A m \in 1..n : m \in 0..n
  OBVIOUS
<1> QED BY <1>2, <1>3, <1>4

(* Every file can be read to its end, by way of these states.                 *)
LEMMA ParseReads ==
    ASSUME NEW lines \in Seq(FileLine)
    PROVE  \E r : /\ r[0] = Blank
                  /\ \A m \in 1..Len(lines) : r[m] = ReadLine(r[m - 1], lines[m])
                  /\ Parse(lines) = r[Len(lines)].kv
<1> DEFINE G == {n \in Nat : \E r : Reads(lines, r, n)}
<1>1. 0 \in G
  <2> DEFINE r == [m \in 0..0 |-> Blank]
  <2>1. Reads(lines, r, 0)
    BY DEF Reads
  <2> QED BY <2>1
<1>2. ASSUME NEW n \in Nat, n \in G PROVE n + 1 \in G
  <2>1. PICK q : Reads(lines, q, n)
    BY <1>2
  <2>2. q[0] = Blank /\ \A m \in 1..n : q[m] = ReadLine(q[m - 1], lines[m])
    BY <2>1, ReadsUpTo
  <2> DEFINE next == ReadLine(q[n], lines[n + 1])
             r == [m \in 0..(n + 1) |-> IF m <= n THEN q[m] ELSE next]
  <2>3. \A m \in 0..(n + 1) : r[m] = IF m <= n THEN q[m] ELSE next
    BY Zenon
  <2>4. r = [m \in 0..(n + 1) |-> r[m]]
    BY Zenon
  <2> HIDE DEF r
  <2>5. r[0] = Blank
    BY <2>2, <2>3
  <2>6. ASSUME NEW m \in 1..(n + 1) PROVE r[m] = ReadLine(r[m - 1], lines[m])
    <3>1. m - 1 \in 0..(n + 1) /\ m - 1 <= n /\ m \in 0..(n + 1)
      OBVIOUS
    <3>2. r[m - 1] = q[m - 1]
      BY <2>3, <3>1
    <3>3. CASE m <= n
      <4>1. m \in 1..n
        BY <3>3
      <4>2. r[m] = q[m]
        BY <2>3, <3>1, <3>3
      <4> QED BY <2>2, <3>2, <4>1, <4>2
    <3>4. CASE ~(m <= n)
      <4>1. m = n + 1 /\ m - 1 = n
        BY <3>4
      <4>2. r[m] = next
        BY <2>3, <3>1, <3>4
      <4> QED BY <3>2, <4>1, <4>2
    <3> QED BY <3>3, <3>4
  <2>7. \A m \in 0..(n + 1) : r[m] = IF m = 0 THEN Blank ELSE ReadLine(r[m - 1], lines[m])
    <3>1. \A m \in 0..(n + 1) : m # 0 => m \in 1..(n + 1)
      OBVIOUS
    <3> QED BY <2>5, <2>6, <3>1
  <2>8. Reads(lines, r, n + 1)
    BY <2>4, <2>7, Zenon DEF Reads
  <2> QED BY <2>8
<1> HIDE DEF G
<1>3. Len(lines) \in Nat /\ Len(lines) \in G
  BY <1>1, <1>2, LenProperties, InductionOnNat
<1> DEFINE read == CHOOSE r : Reads(lines, r, Len(lines))
<1>4. Reads(lines, read, Len(lines))
  BY <1>3 DEF G
<1>5. Parse(lines) = read[Len(lines)].kv
  BY DEF Parse, Reads
<1> HIDE DEF read
<1>6. read[0] = Blank /\ \A m \in 1..Len(lines) : read[m] = ReadLine(read[m - 1], lines[m])
  BY <1>3, <1>4, ReadsUpTo
<1> QED BY <1>5, <1>6

-----------------------------------------------------------------------------
Name == Seq(STRING)

(* A line that sets something sets the key that ends like its own.            *)
LEMMA LastOfJoined ==
    ASSUME NEW s \in Name, NEW t \in Name \ {<<>>}
    PROVE  s \o t \in Name /\ Last(s \o t) = Last(t)
<1>1. Len(s) \in Nat /\ Len(t) \in Nat \ {0}
  BY EmptySeq, LenProperties DEF Name
<1>2. /\ s \o t \in Name /\ Len(s \o t) = Len(s) + Len(t)
      /\ \A i \in 1..(Len(s) + Len(t)) : (s \o t)[i] = IF i <= Len(s) THEN s[i] ELSE t[i - Len(s)]
  BY ConcatProperties DEF Name
<1> DEFINE a == Len(s)
           b == Len(t)
<1>3. a + b \in 1..(a + b) /\ ~(a + b <= a) /\ (a + b) - a = b
  BY <1>1
<1>4. (s \o t)[a + b] = t[b]
  BY <1>2, <1>3
<1> QED BY <1>2, <1>4 DEF Last

\* The keys set so far are each named by a line.
NamedUpTo(lines, st, n) ==
    /\ st.section \in Name
    /\ \A k \in DOMAIN st.kv :
          \E i \in 1..n : Last(lines[i].key) = Last(k) /\ lines[i].val = st.kv[k] /\ lines[i].val # ""

(* A line read adds its own key at most.                                      *)
LEMMA NamedStep ==
    ASSUME NEW lines \in Seq(FileLine), NEW n \in Nat, n + 1 <= Len(lines),
           NEW st, st = [section |-> st.section, kv |-> st.kv], NamedUpTo(lines, st, n)
    PROVE  NamedUpTo(lines, ReadLine(st, lines[n + 1]), n + 1)
<1> DEFINE l == lines[n + 1]
           k == IF l.indent THEN st.section \o l.key ELSE l.key
           next == ReadLine(st, l)
<1>1. n + 1 \in 1..Len(lines) /\ n + 1 \in 1..(n + 1) /\ \A i \in 1..n : i \in 1..(n + 1)
  BY LenProperties
<1>2. l \in FileLine
  BY <1>1, ElementOfSeq
<1>3. l.key \in Name \ {<<>>}
  BY <1>2 DEF FileLine, Name
<1>4. st.section \in Name
  BY DEF NamedUpTo
<1>5. Last(k) = Last(l.key)
  BY <1>3, <1>4, LastOfJoined
<1>6. CASE l.val = ""
  <2>1. next.section = l.key /\ next.kv = st.kv
    BY <1>6 DEF ReadLine
  <2> QED BY <1>1, <1>3, <2>1, ZenonT(60) DEF NamedUpTo
<1>7. CASE l.val # ""
  <2>1. next.section = st.section /\ next.kv = Put(st.kv, k, l.val)
    BY <1>7 DEF ReadLine
  <2> HIDE DEF next, k
  <2>2. /\ DOMAIN next.kv = DOMAIN st.kv \union {k}
        /\ \A x \in DOMAIN next.kv : next.kv[x] = IF x = k THEN l.val ELSE st.kv[x]
    BY <2>1 DEF Put
  <2>3. ASSUME NEW x \in DOMAIN next.kv
        PROVE  \E i \in 1..(n + 1) :
                   Last(lines[i].key) = Last(x) /\ lines[i].val = next.kv[x] /\ lines[i].val # ""
    <3>1. CASE x = k
      BY <1>1, <1>5, <1>7, <2>2, <3>1
    <3>2. CASE x # k
      BY <1>1, <2>2, <3>2 DEF NamedUpTo
    <3> QED BY <3>1, <3>2
  <2> HIDE DEF l
  <2>4. NamedUpTo(lines, next, n + 1)
    BY <1>4, <2>1, <2>3 DEF NamedUpTo
  <2> QED BY <2>4 DEF next, l
<1> QED BY <1>6, <1>7

\* The parser's state is a record.
LEMMA StateIsRecord ==
    ASSUME NEW st, st = [section |-> st.section, kv |-> st.kv], NEW l
    PROVE  ReadLine(st, l) = [section |-> ReadLine(st, l).section, kv |-> ReadLine(st, l).kv]
BY DEF ReadLine

(* The parser starts in no section, with no keys.                             *)
LEMMA BlankIs ==
    Blank = [section |-> Blank.section, kv |-> Blank.kv] /\ Blank.section = <<>> /\ DOMAIN Blank.kv = {}
BY DEF Blank

(* Every key of the parsed file is named by a line, with its value.           *)
LEMMA ParseNames ==
    ASSUME NEW lines \in Seq(FileLine)
    PROVE  \A k \in DOMAIN Parse(lines) :
              \E i \in 1..Len(lines) : /\ Last(lines[i].key) = Last(k)
                                       /\ lines[i].val = Parse(lines)[k] /\ lines[i].val # ""
<1> DEFINE L == Len(lines)
<1>1. PICK r : /\ r[0] = Blank
               /\ \A m \in 1..L : r[m] = ReadLine(r[m - 1], lines[m])
               /\ Parse(lines) = r[L].kv
  BY ParseReads
<1> DEFINE Good(n) == r[n] = [section |-> r[n].section, kv |-> r[n].kv] /\ NamedUpTo(lines, r[n], n)
           G == {n \in Nat : n <= L => Good(n)}
<1>2. L \in Nat
  BY LenProperties
<1>3. 0 \in G
  <2>1. <<>> \in Name
    BY EmptySeq DEF Name
  <2> QED BY <1>1, <2>1, BlankIs DEF NamedUpTo
<1>4. ASSUME NEW n \in Nat, n \in G PROVE n + 1 \in G
  <2> SUFFICES ASSUME n + 1 <= L PROVE Good(n + 1)
    OBVIOUS
  <2>1. n <= L /\ n + 1 \in 1..L /\ (n + 1) - 1 = n
    BY <1>2
  <2>2. Good(n)
    BY <1>4, <2>1
  <2>3. r[n + 1] = ReadLine(r[n], lines[n + 1])
    BY <1>1, <2>1
  <2> QED BY <2>2, <2>3, NamedStep, StateIsRecord
<1> HIDE DEF G
<1>5. L \in G
  BY <1>2, <1>3, <1>4, InductionOnNat
<1>6. NamedUpTo(lines, r[L], L)
  BY <1>5, <1>2 DEF G
<1> QED BY <1>1, <1>6 DEF NamedUpTo

-----------------------------------------------------------------------------
(* Two names joined are the parts they were joined from.                      *)
LEMMA JoinedPair ==
    ASSUME NEW s \in Name, Len(s) = 1, NEW t \in Name, Len(t) = 1
    PROVE  s = <<s[1]>> /\ t = <<t[1]>> /\ s \o t = <<s[1], t[1]>>
<1>1. s = <<s[1]>> /\ t = <<t[1]>>
  <2>1. ASSUME NEW u \in Name, Len(u) = 1 PROVE u = <<u[1]>>
    <3>1. u \in [1..1 -> STRING]
      BY <2>1, LenProperties DEF Name
    <3> QED BY <3>1
  <2> QED BY <2>1
<1>2. s \o t = <<s[1], t[1]>>
  <2> DEFINE u == s \o t
             v == <<s[1], t[1]>>
  <2>1. /\ u \in Seq(STRING) /\ Len(u) = 1 + 1
        /\ \A i \in 1..(1 + 1) : u[i] = IF i <= 1 THEN s[i] ELSE t[i - 1]
    <3>1. s \in Seq(STRING) /\ t \in Seq(STRING)
      BY DEF Name
    <3>2. /\ u \in Seq(STRING) /\ Len(u) = Len(s) + Len(t)
          /\ \A i \in 1..Len(s) + Len(t) : u[i] = IF i <= Len(s) THEN s[i] ELSE t[i - Len(s)]
      BY <3>1, ConcatProperties
    <3> HIDE DEF u
    <3> QED BY <3>2
  <2> HIDE DEF u
  <2>2. 1 \in 1..(1 + 1) /\ 2 \in 1..(1 + 1) /\ \A i \in 1..(1 + 1) : i = 1 \/ i = 2
    OBVIOUS
  <2>3. u[1] = s[1] /\ u[2] = t[1]
    BY <2>1, <2>2
  <2>4. s[1] \in STRING /\ t[1] \in STRING
    <3>1. s \in Seq(STRING) /\ t \in Seq(STRING) /\ 1 \in 1..Len(s) /\ 1 \in 1..Len(t)
      BY DEF Name
    <3> QED BY <3>1, ElementOfSeq
  <2>5. v \in Seq(STRING) /\ Len(v) = 1 + 1 /\ v[1] = s[1] /\ v[2] = t[1]
    BY <2>4
  <2> HIDE DEF v
  <2>6. \A i \in 1..Len(u) : u[i] = v[i]
    BY <2>1, <2>2, <2>3, <2>5
  <2>7. u = v
    BY <2>1, <2>5, <2>6, SeqEqual
  <2> QED BY <2>7 DEF u, v
<1> QED BY <1>1, <1>2

\* The section is that of the last header; nothing else came since.
InSection(lines, st, n) ==
    /\ st.section \in Name
    /\ n > 0 => \E h \in 1..n : /\ IsHeader(lines[h]) /\ st.section = lines[h].key
                                /\ \A j \in (h + 1)..n : IsItem(lines[j])

\* A key has the value of the last line that sets it, or none.
KeySet(lines, st, n, k) ==
    LET set == {i \in 1..n : SetsAt(lines, i, k)}
    IN /\ set = {} => k \notin DOMAIN st.kv
       /\ set # {} => /\ k \in DOMAIN st.kv
                      /\ \E m \in set : (\A i \in set : i <= m) /\ st.kv[k] = lines[m].val

Settings == {DryRun, RunSeconds, LogPath}

(* Which key an item sets is told by the section it is in.                    *)
LEMMA ItemSets ==
    ASSUME NEW lines \in Seq(FileLine), NEW n \in Nat, n + 1 <= Len(lines), IsItem(lines[n + 1]),
           NEW st, NEW h \in 1..n, IsHeader(lines[h]), st.section = lines[h].key,
           \A j \in (h + 1)..n : IsItem(lines[j]), NEW k, k = <<k[1], k[2]>>
    PROVE  SetsAt(lines, n + 1, k) <=> st.section \o lines[n + 1].key = k
<1> DEFINE l == lines[n + 1]
<1>1. l \in FileLine /\ lines[h] \in FileLine
  <2>1. n + 1 \in 1..Len(lines) /\ h \in 1..Len(lines)
    BY LenProperties
  <2> QED BY <2>1, ElementOfSeq
<1>2. /\ l.key \in Name /\ Len(l.key) = 1
      /\ lines[h].key \in Name /\ Len(lines[h].key) = 1
  BY <1>1 DEF FileLine, Name, IsItem, IsHeader
<1>3. st.section \o l.key = k <=> lines[h].key = <<k[1]>> /\ l.key = <<k[2]>>
  <2> DEFINE s == lines[h].key
             t == l.key
  <2>1. s \in Name /\ Len(s) = 1 /\ t \in Name /\ Len(t) = 1
    BY <1>2
  <2> HIDE DEF s, t
  <2>2. s = <<s[1]>> /\ t = <<t[1]>> /\ s \o t = <<s[1], t[1]>>
    BY <2>1, JoinedPair
  <2>3. s \o t = k <=> s[1] = k[1] /\ t[1] = k[2]
    BY <2>2
  <2>4. (s = <<k[1]>> <=> s[1] = k[1]) /\ (t = <<k[2]>> <=> t[1] = k[2])
    BY <2>2
  <2> QED BY <2>3, <2>4 DEF s, t
<1>5. ASSUME NEW g \in 1..(n + 1), IsHeader(lines[g]), \A j \in (g + 1)..(n + 1) : IsItem(lines[j])
      PROVE  g = h
  <2>1. ASSUME NEW x, IsHeader(x), IsItem(x) PROVE FALSE
    BY <2>1 DEF IsHeader, IsItem
  <2>2. g # n + 1
    BY <1>5, <2>1
  <2>3. ~(g < h)
    <3>1. g < h => h \in (g + 1)..(n + 1)
      OBVIOUS
    <3> QED BY <1>5, <2>1, <3>1
  <2>4. ~(h < g)
    <3>1. h < g => g \in (h + 1)..n
      BY <2>2
    <3> QED BY <1>5, <2>1, <3>1
  <2> QED BY <2>3, <2>4
<1>6. h \in 1..(n + 1) /\ \A j \in (h + 1)..(n + 1) : IsItem(lines[j])
  <2>1. \A j \in (h + 1)..(n + 1) : j \in (h + 1)..n \/ j = n + 1
    OBVIOUS
  <2> QED BY <2>1
<1>7. SetsAt(lines, n + 1, k) <=>
        /\ l.key = <<k[2]>>
        /\ \E g \in 1..(n + 1) : /\ IsHeader(lines[g]) /\ lines[g].key = <<k[1]>>
                                 /\ \A j \in (g + 1)..(n + 1) : IsItem(lines[j])
  BY DEF SetsAt
<1> HIDE DEF l
<1>8. SetsAt(lines, n + 1, k) <=> l.key = <<k[2]>> /\ lines[h].key = <<k[1]>>
  BY <1>5, <1>6, <1>7
<1> QED BY <1>3, <1>8 DEF l

(* A line read in a file that is in the form of config/engine.yaml.           *)
LEMMA HonourStep ==
    ASSUME NEW lines \in Seq(FileLine), WellFormed(lines), NEW n \in Nat, n + 1 <= Len(lines),
           NEW st, st = [section |-> st.section, kv |-> st.kv],
           InSection(lines, st, n), NEW k \in Settings, KeySet(lines, st, n, k)
    PROVE  LET next == ReadLine(st, lines[n + 1])
           IN InSection(lines, next, n + 1) /\ KeySet(lines, next, n + 1, k)
<1> DEFINE l == lines[n + 1]
           next == ReadLine(st, l)
           set(m) == {i \in 1..m : SetsAt(lines, i, k)}
<1>1. n + 1 \in 1..Len(lines) /\ n + 1 \in 1..(n + 1) /\ 1..(n + 1) = 1..n \union {n + 1}
  BY LenProperties
<1>2. l \in FileLine
  BY <1>1, ElementOfSeq
<1>3. set(n + 1) = set(n) \union (IF SetsAt(lines, n + 1, k) THEN {n + 1} ELSE {})
  BY <1>1
<1>4. set(n) \subseteq 1..n
  OBVIOUS
<1>5. CASE IsHeader(l)
  <2>1. next.section = l.key /\ next.kv = st.kv /\ l.key \in Name
    BY <1>2, <1>5 DEF IsHeader, ReadLine, FileLine, Name
  <2>2. ~SetsAt(lines, n + 1, k)
    BY <1>5 DEF SetsAt, IsHeader, IsItem
  <2> HIDE DEF next, set
  <2>3. set(n + 1) = set(n)
    BY <1>3, <2>2
  <2>4. KeySet(lines, next, n + 1, k)
    BY <2>1, <2>3 DEF KeySet, set
  <2>5. InSection(lines, next, n + 1)
    <3>1. \A j \in ((n + 1) + 1)..(n + 1) : FALSE
      OBVIOUS
    <3> QED BY <1>1, <1>5, <2>1, <3>1 DEF InSection
  <2> QED BY <2>4, <2>5 DEF next
<1>6. CASE IsItem(l)
  <2>1. n > 0
    <3> SUFFICES ASSUME n = 0 PROVE FALSE
      OBVIOUS
    <3>1. lines # <<>>
      BY LenProperties, EmptySeq
    <3>2. IsHeader(lines[1]) /\ IsItem(lines[1])
      BY <1>6, <3>1 DEF WellFormed
    <3> QED BY <3>2 DEF IsHeader, IsItem
  <2>2. PICK h \in 1..n : /\ IsHeader(lines[h]) /\ st.section = lines[h].key
                          /\ \A j \in (h + 1)..n : IsItem(lines[j])
    BY <2>1 DEF InSection
  <2> DEFINE key == st.section \o l.key
  <2>3. SetsAt(lines, n + 1, k) <=> key = k
    <3>1. k = <<k[1], k[2]>>
      BY DEF Settings, DryRun, RunSeconds, LogPath
    <3> QED BY <1>6, <2>2, <3>1, ItemSets
  <2>4. next.section = st.section /\ next.kv = Put(st.kv, key, l.val)
    BY <1>6 DEF IsItem, ReadLine
  <2> HIDE DEF key, next
  <2>5. /\ DOMAIN next.kv = DOMAIN st.kv \union {key}
        /\ \A x \in DOMAIN next.kv : next.kv[x] = IF x = key THEN l.val ELSE st.kv[x]
    BY <2>4 DEF Put
  <2>6. InSection(lines, next, n + 1)
    <3>1. \A j \in (h + 1)..(n + 1) : j \in (h + 1)..n \/ j = n + 1
      OBVIOUS
    <3>2. h \in 1..(n + 1)
      OBVIOUS
    <3> QED BY <1>6, <2>2, <2>4, <3>1, <3>2 DEF InSection
  <2>7. CASE key = k
    <3>1. set(n + 1) = set(n) \union {n + 1}
      BY <1>3, <2>3, <2>7
    <3>2. n + 1 \in set(n + 1) /\ \A i \in set(n + 1) : i <= n + 1
      BY <1>4, <3>1
    <3>3. k \in DOMAIN next.kv /\ next.kv[k] = l.val
      BY <2>5, <2>7
    <3> HIDE DEF set
    <3>4. \E m \in set(n + 1) : (\A i \in set(n + 1) : i <= m) /\ next.kv[k] = lines[m].val
      BY <3>2, <3>3
    <3> QED BY <2>6, <3>2, <3>3, <3>4 DEF KeySet, set, next
  <2>8. CASE key # k
    <3>1. set(n + 1) = set(n)
      BY <1>3, <2>3, <2>8
    <3>2. (k \in DOMAIN next.kv <=> k \in DOMAIN st.kv) /\ (k \in DOMAIN st.kv => next.kv[k] = st.kv[k])
      BY <2>5, <2>8
    <3> HIDE DEF set
    <3>3. KeySet(lines, next, n + 1, k)
      BY <3>1, <3>2 DEF KeySet, set
    <3> QED BY <2>6, <3>3 DEF next
  <2> QED BY <2>7, <2>8
<1>7. IsHeader(l) \/ IsItem(l)
  BY <1>1 DEF WellFormed
<1> QED BY <1>5, <1>6, <1>7

(* The parsed file has for each setting what the file means by it.            *)
LEMMA ParseHonours ==
    ASSUME NEW lines \in Seq(FileLine), WellFormed(lines), NEW k \in Settings
    PROVE  KeySet(lines, [kv |-> Parse(lines)], Len(lines), k)
<1> DEFINE L == Len(lines)
<1>1. PICK r : /\ r[0] = Blank
               /\ \A m \in 1..L : r[m] = ReadLine(r[m - 1], lines[m])
               /\ Parse(lines) = r[L].kv
  BY ParseReads
<1> DEFINE Good(n) == /\ r[n] = [section |-> r[n].section, kv |-> r[n].kv]
                      /\ InSection(lines, r[n], n) /\ KeySet(lines, r[n], n, k)
           G == {n \in Nat : n <= L => Good(n)}
<1>2. L \in Nat
  BY LenProperties
<1>3. 0 \in G
  <2>1. <<>> \in Name
    BY EmptySeq DEF Name
  <2>2. InSection(lines, r[0], 0)
    BY <1>1, <2>1, BlankIs DEF InSection
  <2>3. KeySet(lines, r[0], 0, k)
    <3>1. {i \in 1..0 : SetsAt(lines, i, k)} = {}
      OBVIOUS
    <3> QED BY <1>1, <3>1, BlankIs DEF KeySet
  <2> QED BY <1>1, <2>2, <2>3, BlankIs
<1>4. ASSUME NEW n \in Nat, n \in G PROVE n + 1 \in G
  <2> SUFFICES ASSUME n + 1 <= L PROVE Good(n + 1)
    OBVIOUS
  <2>1. n <= L /\ n + 1 \in 1..L /\ (n + 1) - 1 = n
    BY <1>2
  <2>2. Good(n)
    BY <1>4, <2>1
  <2>3. r[n + 1] = ReadLine(r[n], lines[n + 1])
    BY <1>1, <2>1
  <2>4. InSection(lines, r[n + 1], n + 1) /\ KeySet(lines, r[n + 1], n + 1, k)
    BY <2>2, <2>3, HonourStep
  <2> QED BY <2>2, <2>3, <2>4, StateIsRecord
<1> HIDE DEF G
<1>5. L \in G
  BY <1>2, <1>3, <1>4, InductionOnNat
<1>6. KeySet(lines, r[L], L, k)
  BY <1>2, <1>5 DEF G
<1> QED BY <1>1, <1>6 DEF KeySet

(* What a setting has in the parsed file, or otherwise, is its Word.          *)
LEMMA WordIs ==
    ASSUME NEW lines \in Seq(FileLine), WellFormed(lines), NEW k \in Settings, NEW otherwise
    PROVE  Word(lines, k, otherwise) =
              IF k \in DOMAIN Parse(lines) THEN Parse(lines)[k] ELSE otherwise
<1> DEFINE set == {i \in 1..Len(lines) : SetsAt(lines, i, k)}
           kv == Parse(lines)
<1>1. /\ set = {} => k \notin DOMAIN kv
      /\ set # {} => /\ k \in DOMAIN kv
                     /\ \E m \in set : (\A i \in set : i <= m) /\ kv[k] = lines[m].val
  BY ParseHonours, Zenon DEF KeySet
<1>2. set \subseteq Nat
  BY LenProperties
<1>3. Word(lines, k, otherwise) =
        IF set = {} THEN otherwise ELSE lines[CHOOSE i \in set : \A j \in set : j <= i].val
  BY Zenon DEF Word
<1> HIDE DEF set, kv
<1>4. CASE set # {}
  <2>1. PICK m \in set : (\A i \in set : i <= m) /\ kv[k] = lines[m].val
    BY <1>1, <1>4
  <2>2. \A i \in set : (\A j \in set : j <= i) => i = m
    BY <1>2, <2>1
  <2>3. (CHOOSE i \in set : \A j \in set : j <= i) = m
    BY <2>1, <2>2
  <2> QED BY <1>1, <1>3, <1>4, <2>1, <2>3 DEF kv
<1>5. CASE set = {}
  BY <1>1, <1>3, <1>5 DEF kv
<1> QED BY <1>4, <1>5

-----------------------------------------------------------------------------
\* The configuration of an engine that was started is that of its file and environment.
ConfigInv ==
    /\ setup.lines \in Seq(FileLine)
    /\ engine # "down" => cfg = Effective(setup.lines, setup.env)

(* The configuration comes from the file and the environment in every state.  *)
LEMMA ConfigInvHolds == StartSpec => []ConfigInv
<1>1. Init => ConfigInv
  BY SetupsAssumption DEF Init, ConfigInv
<1>2. ConfigInv /\ [Next]_vars => ConfigInv'
  <2> SUFFICES ASSUME ConfigInv, [Next]_vars PROVE ConfigInv'
    OBVIOUS
  <2>1. CASE Start
    BY <2>1 DEF Start, ConfigInv
  <2>2. CASE Die
    BY <2>2 DEF Die, ConfigInv
  <2>3. ASSUME NEW api, NEW secret, Update(api, secret) PROVE ConfigInv'
    BY <2>3 DEF Update, BadRequest, OpenFile, OpenFails, ConfigInv
  <2>4. CASE WriteFile
    BY <2>4 DEF WriteFile, ConfigInv
  <2>5. CASE UNCHANGED vars
    BY <2>5 DEF vars, ConfigInv
  <2> QED BY <2>1, <2>2, <2>3, <2>4, <2>5 DEF Next
<1> QED BY <1>1, <1>2, PTL DEF StartSpec

(* Settings are in force as the last line of their section or the environment *)
(* says, for any file in the form of config/engine.yaml and any environment.  *)
THEOREM ConfigIsHonoured == StartSpec => []ConfigHonoured
<1>1. ConfigInv => ConfigHonoured
  <2> DEFINE lines == setup.lines
             env == setup.env
             kv == Parse(lines)
             dry == IF env.dry_run # Unset THEN env.dry_run ELSE Word(lines, DryRun, "true")
             seconds == IF env.run_seconds \in Numbers THEN env.run_seconds
                        ELSE Word(lines, RunSeconds, Defaults.run_seconds)
             path == IF env.log_path \notin {Unset, ""} THEN env.log_path
                     ELSE Word(lines, LogPath, Defaults.log_path)
  <2> SUFFICES ASSUME ConfigInv, engine # "down", WellFormed(lines)
               PROVE  /\ dry \in Truths => cfg.dry_run
                      /\ dry \in Falsities => ~cfg.dry_run
                      /\ cfg.run_seconds = IF seconds \in Numbers THEN seconds ELSE Defaults.run_seconds
                      /\ cfg.log_path = path
    BY Zenon DEF ConfigHonoured
  <2>1. lines \in Seq(FileLine) /\ cfg = Effective(lines, env)
    BY DEF ConfigInv
  <2>2. DryRun \in Settings /\ RunSeconds \in Settings /\ LogPath \in Settings
    BY DEF Settings
  <2>3. /\ cfg.dry_run = EnvIsTrue(env.dry_run, GetBool(kv, DryRun, Defaults.dry_run))
        /\ cfg.run_seconds = EnvOrInt(env.run_seconds, GetInt(kv, RunSeconds, Defaults.run_seconds))
        /\ cfg.log_path = EnvOrEmpty(env.log_path, GetString(kv, LogPath, Defaults.log_path))
    BY <2>1 DEF Effective, LoadConfig
  <2>4. \A otherwise : /\ Word(lines, DryRun, otherwise) =
                             IF DryRun \in DOMAIN kv THEN kv[DryRun] ELSE otherwise
                       /\ Word(lines, RunSeconds, otherwise) =
                             IF RunSeconds \in DOMAIN kv THEN kv[RunSeconds] ELSE otherwise
                       /\ Word(lines, LogPath, otherwise) =
                             IF LogPath \in DOMAIN kv THEN kv[LogPath] ELSE otherwise
    BY <2>1, <2>2, WordIs
  <2> HIDE DEF lines, env, kv
  <2>5. (dry \in Truths => cfg.dry_run) /\ (dry \in Falsities => ~cfg.dry_run)
    <3>1. Defaults.dry_run = TRUE
      BY DEF Defaults
    <3>2. cfg.dry_run = (dry \in Truths)
      BY <2>3, <2>4, <3>1, WordsAssumption DEF EnvIsTrue, GetBool
    <3> QED BY <3>2, WordsAssumption
  <2>6. cfg.run_seconds = IF seconds \in Numbers THEN seconds ELSE Defaults.run_seconds
    BY <2>3, <2>4 DEF EnvOrInt, GetInt
  <2>7. cfg.log_path = path
    BY <2>3, <2>4 DEF EnvOrEmpty, GetString
  <2> QED BY <2>5, <2>6, <2>7
<1> QED BY <1>1, ConfigInvHolds, PTL

(* Live trading is named by the environment or by a line, whatever the file.  *)
THEOREM LiveIsNamed == StartSpec => []LiveOnlyIfNamed
<1>1. ConfigInv => LiveOnlyIfNamed
  <2> DEFINE lines == setup.lines
             kv == Parse(lines)
  <2> SUFFICES ASSUME ConfigInv, engine = "running", ~cfg.dry_run
               PROVE  IF setup.env.dry_run = Unset
                      THEN \E i \in 1..Len(lines) :
                              Last(lines[i].key) = Last(DryRun) /\ lines[i].val \notin Truths \cup {""}
                      ELSE setup.env.dry_run \notin Truths
    BY Zenon DEF LiveOnlyIfNamed
  <2>1. lines \in Seq(FileLine) /\ cfg = Effective(lines, setup.env)
    BY DEF ConfigInv
  <2>2. cfg.dry_run = EnvIsTrue(setup.env.dry_run, GetBool(kv, DryRun, Defaults.dry_run))
    BY <2>1 DEF Effective, LoadConfig
  <2>3. CASE setup.env.dry_run = Unset
    <3>1. DryRun \in DOMAIN kv /\ kv[DryRun] \notin Truths
      BY <2>2, <2>3 DEF EnvIsTrue, GetBool, Defaults
    <3>2. \E i \in 1..Len(lines) : /\ Last(lines[i].key) = Last(DryRun)
                                   /\ lines[i].val = kv[DryRun] /\ lines[i].val # ""
      BY <2>1, <3>1, ParseNames
    <3> QED BY <2>3, <3>1, <3>2
  <2>4. CASE setup.env.dry_run # Unset
    BY <2>2, <2>4 DEF EnvIsTrue
  <2> QED BY <2>3, <2>4
<1> QED BY <1>1, ConfigInvHolds, PTL

-----------------------------------------------------------------------------
\* Lifecycle: the places of main and of the threads.
Mains == {"startControl", "startMarket", "serving", "stopMarket", "stopWs", "joinWs",
          "joinRest", "stopControl", "joinControl", "stopLogger", "done"}

Steps == {"none", "bind", "check", "connect", "read", "checkRead", "close", "backoff", "tick",
          "fetch", "sleep", "accept", "serve", "gone"}

AfterWsJoin == {"joinRest", "stopControl", "joinControl", "stopLogger", "done"}
AfterRestJoin == AfterWsJoin \ {"joinRest"}
AfterControlJoin == {"stopLogger", "done"}

LifeTypes ==
    /\ main \in Mains
    /\ running \in [Flags -> BOOLEAN]
    /\ pc \in [Threads -> Steps]
    /\ late \in [Feeds -> Nat]

\* Market threads are there from main's start of them on; what is joined is gone.
Phases ==
    /\ main \in {"startControl", "startMarket"} => pc["ws"] = "none" /\ pc["rest"] = "none"
    /\ main \in AfterWsJoin => pc["ws"] = "gone"
    /\ main \in AfterRestJoin => pc["rest"] = "gone"
    /\ main \in AfterControlJoin => pc["control"] = "gone"

\* Where a market thread can still be after it handled a tick too many.
Leaving == [ws |-> {"checkRead", "close", "check", "gone"}, rest |-> {"sleep", "check", "gone"}]

LateOnce ==
    \A f \in Feeds : late[f] # 0 => late[f] = 1 /\ ~running[FlagOf[f]] /\ pc[f] \in Leaving[f]

\* The inductive invariant.
LifeInv == LifeTypes /\ Phases /\ LateOnce

-----------------------------------------------------------------------------
(* Nothing is started and nothing was handled.                                *)
LEMMA LifeInvInit == LifeInit => LifeInv
<1> SUFFICES ASSUME LifeInit PROVE LifeInv
  OBVIOUS
<1>1. LifeTypes
  BY DEF LifeInit, LifeTypes, Mains, Steps
<1>2. Phases
  BY DEF LifeInit, Phases, AfterWsJoin, AfterRestJoin, AfterControlJoin, Threads, Feeds
<1>3. LateOnce
  BY DEF LifeInit, LateOnce
<1> QED BY <1>1, <1>2, <1>3 DEF LifeInv

(* A thread that goes on from a step it can leave keeps the invariant, if it  *)
(* stays among the leaving steps once it was late.                            *)
LEMMA MoveKeeps ==
    ASSUME LifeInv, NEW t \in Threads, NEW from, NEW step \in Steps, Move(t, from, step),
           from \notin {"none", "gone"},
           t \in Feeds /\ ~running[FlagOf[t]] /\ from \in Leaving[t] => step \in Leaving[t]
    PROVE  LifeInv'
<1>1. /\ pc[t] = from /\ pc' = [pc EXCEPT ![t] = step]
      /\ UNCHANGED <<main, running, late>>
  BY DEF Move, Go
<1>2. LifeTypes'
  BY <1>1 DEF LifeInv, LifeTypes
<1>3. Phases'
  BY <1>1 DEF LifeInv, LifeTypes, Phases, Threads, Feeds
<1>4. LateOnce'
  <2> SUFFICES ASSUME NEW f \in Feeds, late'[f] # 0
               PROVE  late'[f] = 1 /\ ~running'[FlagOf[f]] /\ pc'[f] \in Leaving[f]
    BY DEF LateOnce
  <2>1. late[f] = 1 /\ ~running[FlagOf[f]] /\ pc[f] \in Leaving[f]
    BY <1>1 DEF LifeInv, LateOnce
  <2>2. f \in Threads
    BY DEF Threads
  <2>3. pc'[f] \in Leaving[f]
    BY <1>1, <2>1, <2>2 DEF LifeInv, LifeTypes
  <2> QED BY <1>1, <2>1, <2>3
<1> QED BY <1>2, <1>3, <1>4 DEF LifeInv

(* Handling a tick leads to a leaving step, and finds no earlier late tick.   *)
LEMMA TickKeeps ==
    ASSUME LifeInv, NEW f \in Feeds, NEW next \in Leaving[f], HandleTick(f, next)
    PROVE  LifeInv'
<1>1. /\ pc[f] = "tick" /\ pc' = [pc EXCEPT ![f] = next]
      /\ UNCHANGED <<main, running>>
      /\ late' = IF Runs(f) THEN late ELSE [late EXCEPT ![f] = @ + 1]
  BY DEF HandleTick, Go
<1>2. next \in Steps /\ "tick" \notin Leaving[f] /\ f \in Threads
  BY DEF Leaving, Feeds, Steps, Threads
<1>3. late[f] = 0
  BY <1>1, <1>2 DEF LifeInv, LateOnce
<1>4. LifeTypes'
  <2>1. late' \in [Feeds -> Nat]
    BY <1>1 DEF LifeInv, LifeTypes
  <2> QED BY <1>1, <1>2, <2>1 DEF LifeInv, LifeTypes
<1>5. Phases'
  BY <1>1 DEF LifeInv, LifeTypes, Phases, Threads, Feeds
<1>6. LateOnce'
  BY <1>1, <1>2, <1>3 DEF LifeInv, LifeTypes, LateOnce, Runs, Threads
<1> QED BY <1>4, <1>5, <1>6 DEF LifeInv

-----------------------------------------------------------------------------
(* Every step of main and of the threads keeps the invariant.                 *)
LEMMA LifeInvNext == LifeInv /\ [LifeNext]_lifeVars => LifeInv'
<1> SUFFICES ASSUME LifeInv, [LifeNext]_lifeVars
             PROVE  LifeInv'
  OBVIOUS
<1> USE DEF MainGoes
<1>1. CASE Signal \/ Deadline \/ UNCHANGED lifeVars
  BY <1>1 DEF Signal, Deadline, lifeVars, LifeInv, LifeTypes, Phases, LateOnce, Runs
<1>2. CASE StartControl
  <2>1. pc' = [pc EXCEPT !["control"] = "bind"] /\ main' = "startMarket"
    BY <1>2 DEF StartControl, Go
  <2>2. LifeTypes'
    BY <1>2, <2>1 DEF StartControl, LifeInv, LifeTypes, Mains, Flags, Steps
  <2>3. pc'["ws"] = "none" /\ pc'["rest"] = "none"
    BY <1>2, <2>1 DEF StartControl, LifeInv, LifeTypes, Phases, Threads, Feeds
  <2>4. Phases'
    BY <2>1, <2>3 DEF Phases, AfterWsJoin, AfterRestJoin, AfterControlJoin
  <2>5. \A f \in Feeds : late[f] = 0
    BY <1>2 DEF StartControl, LifeInv, Phases, LateOnce, Leaving, Feeds
  <2>6. LateOnce'
    BY <1>2, <2>5 DEF StartControl, LateOnce
  <2> QED BY <2>2, <2>4, <2>6 DEF LifeInv
<1>3. CASE StartMarket
  <2>1. LifeTypes'
    BY <1>3 DEF StartMarket, LifeInv, LifeTypes, Mains, Flags, Steps
  <2>2. Phases'
    BY <1>3 DEF StartMarket, Phases, AfterWsJoin, AfterRestJoin, AfterControlJoin
  <2>3. \A f \in Feeds : late[f] = 0
    BY <1>3 DEF StartMarket, LifeInv, Phases, LateOnce, Leaving, Feeds
  <2>4. LateOnce'
    BY <1>3, <2>3 DEF StartMarket, LateOnce
  <2> QED BY <2>1, <2>2, <2>4 DEF LifeInv
<1>4. CASE RunUntilStop \/ StopLogger
  BY <1>4 DEF RunUntilStop, StopLogger, LifeInv, LifeTypes, Phases, LateOnce, Runs, Mains,
              AfterWsJoin, AfterRestJoin, AfterControlJoin
<1>5. ASSUME NEW flag \in Flags, NEW from, NEW to \in Mains, Clear(flag, from, to),
             <<from, to>> \in {<<"stopMarket", "stopWs">>, <<"stopWs", "joinWs">>,
                               <<"stopControl", "joinControl">>}
      PROVE  LifeInv'
  <2>1. LifeTypes'
    BY <1>5 DEF Clear, LifeInv, LifeTypes
  <2>2. Phases'
    BY <1>5 DEF Clear, LifeInv, LifeTypes, Phases, AfterWsJoin, AfterRestJoin, AfterControlJoin
  <2>3. LateOnce'
    BY <1>5 DEF Clear, LifeInv, LifeTypes, LateOnce, Runs, FlagOf, Flags, Feeds
  <2> QED BY <2>1, <2>2, <2>3 DEF LifeInv
<1>6. ASSUME NEW t \in Threads, NEW from, NEW to \in Mains, Join(t, from, to),
             <<t, from, to>> \in {<<"ws", "joinWs", "joinRest">>,
                                  <<"rest", "joinRest", "stopControl">>,
                                  <<"control", "joinControl", "stopLogger">>}
      PROVE  LifeInv'
  BY <1>6 DEF Join, LifeInv, LifeTypes, Phases, LateOnce, Runs, AfterWsJoin, AfterRestJoin,
              AfterControlJoin
<1>7. CASE StopMarket \/ StopControl
  <2>1. CASE Clear("market", "stopMarket", "stopWs")
    BY <1>5, <2>1 DEF Flags, Mains
  <2>2. CASE Clear("ws", "stopWs", "joinWs")
    BY <1>5, <2>2 DEF Flags, Mains
  <2>3. CASE Clear("control", "stopControl", "joinControl")
    BY <1>5, <2>3 DEF Flags, Mains
  <2>4. CASE Join("ws", "joinWs", "joinRest")
    BY <1>6, <2>4 DEF Threads, Feeds, Mains
  <2>5. CASE Join("rest", "joinRest", "stopControl")
    BY <1>6, <2>5 DEF Threads, Feeds, Mains
  <2>6. CASE Join("control", "joinControl", "stopLogger")
    BY <1>6, <2>6 DEF Threads, Feeds, Mains
  <2> QED BY <1>7, <2>1, <2>2, <2>3, <2>4, <2>5, <2>6 DEF StopMarket, StopControl
<1>8. CASE WsThread \/ WsPeer
  <2> "ws" \in Threads /\ "ws" \in Feeds /\ Leaving["ws"] = {"checkRead", "close", "check", "gone"}
    BY DEF Threads, Feeds, Leaving
  <2>1. CASE WsCheck
    BY <2>1, MoveKeeps DEF WsCheck, Runs, Steps
  <2>2. CASE WsCheckRead
    BY <2>2, MoveKeeps DEF WsCheckRead, Runs, Steps
  <2>3. CASE WsBackOff
    BY <2>3, MoveKeeps DEF WsBackOff, Steps
  <2>4. CASE HandleTick("ws", "checkRead")
    BY <2>4, TickKeeps
  <2>5. CASE WsPeer
    BY <2>5, MoveKeeps DEF WsPeer, Steps
  <2> QED BY <1>8, <2>1, <2>2, <2>3, <2>4, <2>5 DEF WsThread
<1>9. CASE RestThread
  <2> "rest" \in Threads /\ "rest" \in Feeds /\ Leaving["rest"] = {"sleep", "check", "gone"}
    BY DEF Threads, Feeds, Leaving
  <2>1. CASE RestLoop
    BY <2>1, MoveKeeps DEF RestLoop, Runs, Steps
  <2>2. CASE HandleTick("rest", "sleep")
    BY <2>2, TickKeeps
  <2> QED BY <1>9, <2>1, <2>2 DEF RestThread
<1>10. CASE ServerLoop \/ ClientSends
  <2> "control" \in Threads /\ "control" \notin Feeds
    BY DEF Threads, Feeds
  <2> QED BY <1>10, MoveKeeps DEF ServerLoop, ClientSends, Steps
<1> QED
  BY <1>1, <1>2, <1>3, <1>4, <1>7, <1>8, <1>9, <1>10 DEF LifeNext, Main

(* When main stops the control server the market threads have ended, and when *)
(* it stops the logger every thread has, whenever the signal came.            *)
THEOREM ThreadsJoined == LifeSpec => []JoinedInOrder
<1>1. LifeInv => JoinedInOrder
  BY DEF LifeInv, Phases, JoinedInOrder, AfterWsJoin, AfterRestJoin, AfterControlJoin, Threads, Feeds
<1> QED BY <1>1, LifeInvInit, LifeInvNext, PTL DEF LifeSpec

(* Each market thread handles at most one tick after its flag was cleared.    *)
THEOREM LateTickOnce == LifeSpec => []OneLateTick
<1>1. LifeInv => OneLateTick
  BY DEF LifeInv, LifeTypes, LateOnce, OneLateTick
<1> QED BY <1>1, LifeInvInit, LifeInvNext, PTL DEF LifeSpec
=============================================================================
