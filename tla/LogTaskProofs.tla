--------------------------- MODULE LogTaskProofs ---------------------------
(***************************************************************************)
(* Proofs about LogTask for every set of tasks that log, above and below   *)
(* log_task, rings of every size and texts of every length.  None of them  *)
(* needs the priorities: they hold under every scheduler.                  *)
(*                                                                         *)
(* Behind them, the ring that LogTask has as a sequence: CircBuf, with the *)
(* index arithmetic of circ_buf.h, is a queue that drops its oldest.       *)
(***************************************************************************)
EXTENDS LogTask, CircBuf, TLAPS

USE LogTaskAssumption DEF LOG_TASK_PRIOR, ROOTTASK_PRIO

Active == {"format", "lock", "copy", "flush", "test"}

(* Where each task can be, and who then holds the mutex and the list.      *)
Places ==
    /\ \A w \in Writers : pc[w] \in Active \cup {"idle"}
    /\ pc[LOG_TASK_PRIOR] \in {"wait", "lock", "read", "some", "outlock", "call", "outunlock"}
    /\ \A w \in Writers : pc[w] = "copy" <=> mutex = w
    /\ pc[LOG_TASK_PRIOR] = "read" <=> mutex = LOG_TASK_PRIOR
    /\ pc[LOG_TASK_PRIOR] \in {"call", "outunlock"} <=> list_lock = LOG_TASK_PRIOR

IInv == TypeOK /\ Places /\ CalledRegistered

-----------------------------------------------------------------------------
(* What the writing and reading does to a sequence of texts.               *)

Absent(s, x) == \A i \in 1 .. Len(s) : s[i] # x
AtEnd(s, x)  == \A i, m \in 1 .. Len(s) : i <= m /\ s[i] = x => s[m] \in {Nobody, x}
Known(s, n)  == \A i \in 1 .. Len(s) : s[i] \in 0 .. n
OneAfterOther(s) ==
    \A i, m, j \in 1 .. Len(s) :
        i <= m /\ m <= j /\ s[i] = s[j] /\ s[i] # Nobody => s[m] \in {Nobody, s[i]}

(* r is s but for what it has lost, or what the interrupt has written.     *)
Keeps(r, s) ==
    /\ OneAfterOther(s) => OneAfterOther(r)
    /\ \A x \in Nat \ {Nobody} :
          (Absent(s, x) => Absent(r, x)) /\ (AtEnd(s, x) => AtEnd(r, x))
    /\ \A x \in Nat : Known(s, x) => Known(r, x)

LEMMA KeepsKept ==
    ASSUME NEW r, NEW s, NEW q, Keeps(r, s), Keeps(s, q)
    PROVE  Keeps(r, q)
BY DEF Keeps

(* What is left of a sequence whose first n elements are taken.            *)
LEMMA Rest ==
    ASSUME NEW S, NEW s \in Seq(S), NEW n \in 0 .. Len(s)
    PROVE  LET r == SubSeq(s, n + 1, Len(s))
           IN  /\ r \in Seq(S) /\ Len(r) = Len(s) - n
               /\ \A i \in 1 .. Len(r) : r[i] = s[i + n]
OBVIOUS

LEMMA RestKeeps ==
    ASSUME NEW s \in Seq(Nat), NEW n \in 0 .. Len(s)
    PROVE  Keeps(SubSeq(s, n + 1, Len(s)), s)
<1> SUFFICES ASSUME NEW r, r = SubSeq(s, n + 1, Len(s)) PROVE Keeps(r, s)
  OBVIOUS
<1> USE DEF Keeps
<1>1. Len(s) \in Nat /\ Len(r) = Len(s) - n /\ \A i \in 1 .. Len(r) : r[i] = s[i + n]
  BY Rest
<1>2. \A i \in 1 .. Len(r) : i + n \in 1 .. Len(s)
  BY <1>1
<1>3. ASSUME OneAfterOther(s) PROVE OneAfterOther(r)
  <2> SUFFICES ASSUME NEW i \in 1 .. Len(r), NEW m \in 1 .. Len(r), NEW j \in 1 .. Len(r),
                      i <= m, m <= j, r[i] = r[j], r[i] # Nobody
               PROVE  r[m] \in {Nobody, r[i]}
    BY ZenonT(30) DEF OneAfterOther
  <2>1. /\ i + n \in 1 .. Len(s) /\ m + n \in 1 .. Len(s) /\ j + n \in 1 .. Len(s)
        /\ i + n <= m + n /\ m + n <= j + n
        /\ r[i] = s[i + n] /\ r[m] = s[m + n] /\ r[j] = s[j + n]
    BY <1>1, <1>2, SMTT(30)
  <2>2. s[m + n] \in {Nobody, s[i + n]}
    BY <1>3, <2>1 DEF OneAfterOther
  <2> QED  BY <2>1, <2>2
<1>4. \A x : Absent(s, x) => Absent(r, x)
  BY <1>1, <1>2 DEF Absent
<1>5. ASSUME NEW x, AtEnd(s, x) PROVE AtEnd(r, x)
  <2> SUFFICES ASSUME NEW i \in 1 .. Len(r), NEW m \in 1 .. Len(r), i <= m, r[i] = x
               PROVE  r[m] \in {Nobody, x}
    BY DEF AtEnd
  <2>1. /\ i + n \in 1 .. Len(s) /\ m + n \in 1 .. Len(s)
        /\ r[i] = s[i + n] /\ r[m] = s[m + n]
    BY <1>1, <1>2
  <2>2. i + n <= m + n
    OBVIOUS
  <2>3. s[m + n] \in {Nobody, x}
    BY <1>5, <2>1, <2>2 DEF AtEnd
  <2> QED  BY <2>1, <2>3
<1>6. \A x \in Nat : Known(s, x) => Known(r, x)
  BY <1>1, <1>2 DEF Known
<1> QED  BY <1>3, <1>4, <1>5, <1>6

LEMMA LastKeeps ==
    ASSUME NEW s \in Seq(Nat), NEW n \in 0 .. Len(s)
    PROVE  Last(s, n) \in Seq(Nat) /\ Len(Last(s, n)) = n /\ Keeps(Last(s, n), s)
<1> DEFINE d == Len(s) - n
<1>1. d \in 0 .. Len(s) /\ Len(s) - d = n /\ Last(s, n) = SubSeq(s, d + 1, Len(s))
  BY DEF Last
<1> HIDE DEF d
<1>2. LET r == SubSeq(s, d + 1, Len(s))
      IN  r \in Seq(Nat) /\ Len(r) = Len(s) - d
  BY <1>1, Rest
<1>3. Keeps(SubSeq(s, d + 1, Len(s)), s)
  BY <1>1, RestKeeps
<1> QED  BY <1>1, <1>2, <1>3

LEMMA NewestKeeps ==
    ASSUME NEW s \in Seq(Nat)
    PROVE  Newest(s) \in Seq(Nat) /\ Len(Newest(s)) <= Cap /\ Keeps(Newest(s), s)
<1>1. CASE Len(s) > Cap
  <2>1. Cap \in 0 .. Len(s) /\ Newest(s) = Last(s, Cap)
    BY <1>1 DEF Newest
  <2> QED  BY <2>1, LastKeeps
<1>2. CASE ~(Len(s) > Cap)
  BY <1>2 DEF Newest, Keeps
<1> QED  BY <1>1, <1>2

(* The interrupt's text behind the others.                                 *)
LEMMA NobodysKeeps ==
    ASSUME NEW s \in Seq(Nat), NEW n \in Nat
    PROVE  s \o Nobodys(n) \in Seq(Nat) /\ Keeps(s \o Nobodys(n), s)
<1> USE DEF Keeps
<1>1. Nobodys(n) \in Seq(Nat) /\ Len(Nobodys(n)) = n /\ \A i \in 1 .. n : Nobodys(n)[i] = 0
  BY DEF Nobodys, Nobody
<1> DEFINE z == Nobodys(n)
           r == s \o z
<1> HIDE DEF z
<1>2. r \in Seq(Nat) /\ Len(r) = Len(s) + n /\ Len(s) \in Nat
  BY <1>1 DEF z
<1>3. \A i \in 1 .. Len(r) : r[i] = 0 \/ (i \in 1 .. Len(s) /\ r[i] = s[i])
  <2> TAKE i \in 1 .. Len(r)
  <2>1. CASE i <= Len(s)
    BY <1>1, <1>2, <2>1 DEF z
  <2>2. CASE i > Len(s)
    <3>1. i - Len(s) \in 1 .. n /\ r[i] = z[i - Len(s)]
      BY <1>1, <1>2, <2>2 DEF z
    <3> QED  BY <1>1, <3>1 DEF z
  <2> QED  BY <1>2, <2>1, <2>2
<1> HIDE DEF r
<1>4. ASSUME OneAfterOther(s) PROVE OneAfterOther(r)
  <2> SUFFICES ASSUME NEW i \in 1 .. Len(r), NEW m \in 1 .. Len(r), NEW j \in 1 .. Len(r),
                      i <= m, m <= j, r[i] = r[j], r[i] # 0, r[m] # 0
               PROVE  r[m] = r[i]
    BY ZenonT(30) DEF OneAfterOther, Nobody
  <2>1. /\ i \in 1 .. Len(s) /\ m \in 1 .. Len(s) /\ j \in 1 .. Len(s)
        /\ r[i] = s[i] /\ r[m] = s[m] /\ r[j] = s[j]
    BY <1>3
  <2> QED  BY <1>4, <2>1 DEF OneAfterOther, Nobody
<1>5. \A x \in Nat \ {0} : Absent(s, x) => Absent(r, x)
  BY <1>3 DEF Absent
<1>6. ASSUME NEW x \in Nat \ {0}, AtEnd(s, x) PROVE AtEnd(r, x)
  BY <1>3, <1>6 DEF AtEnd, Nobody
<1>7. \A x \in Nat : Known(s, x) => Known(r, x)
  BY <1>3 DEF Known
<1> QED  BY <1>2, <1>4, <1>5, <1>6, <1>7 DEF Nobody, r, z

(* The interrupt's text over others.                                       *)
Spoilt(s, D) == [i \in DOMAIN s |-> IF i \in D THEN Nobody ELSE s[i]]

LEMMA SpoiltKeeps ==
    ASSUME NEW s \in Seq(Nat), NEW D
    PROVE  Spoilt(s, D) \in Seq(Nat) /\ Len(Spoilt(s, D)) = Len(s) /\ Keeps(Spoilt(s, D), s)
<1> USE DEF Keeps
<1> DEFINE r == Spoilt(s, D)
<1>1. /\ r \in Seq(Nat) /\ Len(r) = Len(s) /\ Len(s) \in Nat
      /\ \A i \in 1 .. Len(s) : r[i] = 0 \/ r[i] = s[i]
  BY DEF Spoilt, Nobody
<1> HIDE DEF r
<1>2. ASSUME OneAfterOther(s) PROVE OneAfterOther(r)
  <2> SUFFICES ASSUME NEW i \in 1 .. Len(s), NEW m \in 1 .. Len(s), NEW j \in 1 .. Len(s),
                      i <= m, m <= j, r[i] = r[j], r[i] # 0, r[m] # 0
               PROVE  r[m] = r[i]
    BY <1>1, ZenonT(30) DEF OneAfterOther, Nobody
  <2>1. r[i] = s[i] /\ r[m] = s[m] /\ r[j] = s[j]
    BY <1>1
  <2> QED  BY <1>2, <2>1 DEF OneAfterOther, Nobody
<1>3. \A x \in Nat \ {0} : Absent(s, x) => Absent(r, x)
  BY <1>1 DEF Absent
<1>4. ASSUME NEW x \in Nat \ {0}, AtEnd(s, x) PROVE AtEnd(r, x)
  BY <1>1, <1>4 DEF AtEnd, Nobody
<1>5. \A x \in Nat : Known(s, x) => Known(r, x)
  BY <1>1 DEF Known
<1> QED  BY <1>1, <1>2, <1>3, <1>4, <1>5 DEF r, Nobody

(* One more character of text x, whose others are the last.                *)
KeepsAdding(r, s, x) ==
    /\ OneAfterOther(r) /\ AtEnd(r, x)
    /\ \A y \in Nat \ {Nobody, x} : Absent(s, y) => Absent(r, y)
    /\ \A n \in Nat : x \in 1 .. n /\ Known(s, n) => Known(r, n)

LEMMA AddingKept ==
    ASSUME NEW r, NEW s, NEW q, NEW x \in Nat \ {Nobody}, Keeps(r, s), KeepsAdding(s, q, x)
    PROVE  KeepsAdding(r, q, x)
BY DEF Keeps, KeepsAdding

LEMMA AppendKeeps ==
    ASSUME NEW s \in Seq(Nat), NEW x \in Nat \ {Nobody}, OneAfterOther(s), AtEnd(s, x)
    PROVE  Append(s, x) \in Seq(Nat) /\ KeepsAdding(Append(s, x), s, x)
<1> SUFFICES ASSUME NEW r, r = Append(s, x) PROVE r \in Seq(Nat) /\ KeepsAdding(r, s, x)
  OBVIOUS
<1>1. /\ r \in Seq(Nat) /\ Len(r) = Len(s) + 1 /\ Len(s) \in Nat /\ r[Len(r)] = x
      /\ \A i \in 1 .. Len(s) : r[i] = s[i]
  OBVIOUS
<1>2. AtEnd(r, x)
  <2> SUFFICES ASSUME NEW i \in 1 .. Len(r), NEW m \in 1 .. Len(r), i <= m, r[i] = x
               PROVE  r[m] \in {Nobody, x}
    BY DEF AtEnd
  <2>1. CASE m = Len(r)
    BY <1>1, <2>1
  <2>2. CASE m < Len(r)
    <3>1. i \in 1 .. Len(s) /\ m \in 1 .. Len(s) /\ r[i] = s[i] /\ r[m] = s[m]
      BY <1>1, <2>2
    <3> QED  BY <3>1 DEF AtEnd
  <2> QED  BY <1>1, <2>1, <2>2
<1>3. OneAfterOther(r)
  <2> SUFFICES ASSUME NEW i \in 1 .. Len(r), NEW m \in 1 .. Len(r), NEW j \in 1 .. Len(r),
                      i <= m, m <= j, r[i] = r[j], r[i] # Nobody
               PROVE  r[m] \in {Nobody, r[i]}
    BY ZenonT(30) DEF OneAfterOther
  <2>1. CASE j = Len(r)
    BY <1>1, <1>2, <2>1 DEF AtEnd
  <2>2. CASE j < Len(r)
    <3>1. /\ i \in 1 .. Len(s) /\ m \in 1 .. Len(s) /\ j \in 1 .. Len(s)
          /\ r[i] = s[i] /\ r[m] = s[m] /\ r[j] = s[j]
      BY <1>1, <2>2
    <3> QED  BY <3>1 DEF OneAfterOther
  <2> QED  BY <1>1, <2>1, <2>2
<1>4. \A i \in 1 .. Len(r) : r[i] = x \/ (i \in 1 .. Len(s) /\ r[i] = s[i])
  BY <1>1
<1>5. \A y \in Nat \ {Nobody, x} : Absent(s, y) => Absent(r, y)
  BY <1>4 DEF Absent
<1>6. \A n \in Nat : x \in 1 .. n /\ Known(s, n) => Known(r, n)
  BY <1>4 DEF Known
<1> QED  BY <1>1, <1>2, <1>3, <1>5, <1>6 DEF KeepsAdding

(* So with a character that is put, whatever the interrupt has written.    *)
LEMMA PutIs ==
    ASSUME ring \in Seq(Nat), hit \in Nat, NEW w \in Writers, text[w] \in Nat, Put(w)
    PROVE  /\ ring' \in Seq(Nat) /\ Len(ring') <= Cap
           /\ Keeps(ring', Append(ring, text[w]))
<1> DEFINE a == Append(ring, text[w])
           s == Newest(a)
<1>1. a \in Seq(Nat)
  OBVIOUS
<1> HIDE DEF a
<1>2. s \in Seq(Nat) /\ Len(s) <= Cap /\ Keeps(s, a)
  BY <1>1, NewestKeeps
<1>3. CASE ring' = s
  BY <1>2, <1>3 DEF a
<1>4. CASE ring' # s
  <2>1. PICK m \in 0 .. hit : \E n \in 0 .. Len(s \o Nobodys(m)) :
            n <= Cap /\ ring' = Last(s \o Nobodys(m), n)
    BY <1>4 DEF Put, a
  <2> HIDE DEF s
  <2> DEFINE z == s \o Nobodys(m)
  <2>2. z \in Seq(Nat) /\ Keeps(z, s)
    <3>1. s \in Seq(Nat) /\ m \in Nat
      BY <1>2
    <3> QED  BY <3>1, NobodysKeeps
  <2> HIDE DEF z
  <2>3. PICK n \in 0 .. Len(z) : n <= Cap /\ ring' = Last(z, n)
    BY <2>1 DEF z, s
  <2>4. ring' \in Seq(Nat) /\ Len(ring') <= Cap /\ Keeps(ring', z)
    BY <2>2, <2>3, LastKeeps
  <2> QED  BY <1>2, <2>2, <2>4, KeepsKept DEF a
<1> QED  BY <1>3, <1>4

(* What is read, and what is left.                                         *)
LEMMA ReadOf ==
    ASSUME ring \in Seq(Nat), Len(ring) <= Cap, Read
    PROVE  /\ ring' \in Seq(Nat) /\ Len(ring') <= Cap /\ Keeps(ring', ring)
           /\ buf' \in Seq(Nat) /\ Len(buf') <= Chunk
           /\ hit = 0 /\ buf' = <<>> => Len(ring') = 0
<1>1. Len(ring) \in Nat /\ Some \in 0 .. Len(ring) /\ Some <= Chunk
      /\ (Some = 0 => Len(ring) = 0)
  BY DEF Some
<1>2. ASSUME NEW m \in 0 .. Some, NEW n \in 0 .. Len(ring),
             buf' = SubSeq(ring, 1, m), ring' = Last(ring, n)
      PROVE  /\ ring' \in Seq(Nat) /\ Len(ring') = n /\ Keeps(ring', ring)
             /\ buf' \in Seq(Nat) /\ Len(buf') = m
  <2>1. m \in 0 .. Len(ring)
    BY <1>1
  <2>2. buf' \in Seq(Nat) /\ Len(buf') = m
    BY <1>2, <2>1
  <2> QED  BY <1>2, <2>2, LastKeeps
<1>3. CASE hit = 0
  <2>1. /\ buf' = SubSeq(ring, 1, Some) /\ ring' = Last(ring, Len(ring) - Some)
        /\ Some \in 0 .. Some /\ Len(ring) - Some \in 0 .. Len(ring)
    BY <1>1, <1>3 DEF Read
  <2> HIDE DEF Some
  <2>2. /\ ring' \in Seq(Nat) /\ Len(ring') = Len(ring) - Some /\ Keeps(ring', ring)
        /\ buf' \in Seq(Nat) /\ Len(buf') = Some
    BY <1>2, <2>1
  <2> QED  BY <1>1, <2>2
<1>4. CASE hit # 0
  <2>1. PICK m \in 0 .. Some, n \in 0 .. Len(ring) :
            buf' = SubSeq(ring, 1, m) /\ ring' = Last(ring, n)
    BY <1>4 DEF Read
  <2> QED  BY <1>1, <1>2, <1>4, <2>1
<1> QED  BY <1>3, <1>4

LEMMA InterruptKeeps ==
    ASSUME ring \in Seq(Nat), Len(ring) <= Cap, Interrupt
    PROVE  ring' \in Seq(Nat) /\ Len(ring') <= Cap /\ Keeps(ring', ring)
<1>1. PICK n \in 1 .. MaxLen :
        \/ ring' = Newest(ring \o Nobodys(n))
        \/ \E D \in SUBSET DOMAIN ring : ring' = Spoilt(ring, D)
  BY DEF Interrupt, Spoilt
<1>2. CASE ring' = Newest(ring \o Nobodys(n))
  <2> DEFINE z == ring \o Nobodys(n)
  <2>1. z \in Seq(Nat) /\ Keeps(z, ring)
    BY NobodysKeeps
  <2> HIDE DEF z
  <2>2. ring' \in Seq(Nat) /\ Len(ring') <= Cap /\ Keeps(ring', z)
    BY <1>2, <2>1, NewestKeeps DEF z
  <2> QED  BY <2>1, <2>2, KeepsKept
<1>3. ASSUME NEW D, ring' = Spoilt(ring, D)
      PROVE  ring' \in Seq(Nat) /\ Len(ring') <= Cap /\ Keeps(ring', ring)
  BY <1>3, SpoiltKeeps
<1> QED  BY <1>1, <1>2, <1>3

(* A task goes from one place to another, the others stay.                 *)
Here == {"idle", "format", "lock", "copy", "flush", "test", "wait",
         "read", "some", "outlock", "call", "outunlock"}

LEMMA GotoMoves ==
    ASSUME pc \in [Tasks -> Here], NEW t \in Tasks, NEW l \in Here, Goto(t, l)
    PROVE  /\ pc' \in [Tasks -> Here] /\ pc'[t] = l
           /\ \A u \in Tasks : u # t => pc'[u] = pc[u]
BY DEF Goto

LEMMA TaskNames ==
    /\ LOG_TASK_PRIOR \in Tasks /\ LOG_TASK_PRIOR \notin Writers
    /\ LOG_TASK_PRIOR # 0
    /\ \A w \in Writers : w \in Tasks /\ w # LOG_TASK_PRIOR
BY DEF Tasks

-----------------------------------------------------------------------------
(* Types, places and the list of outputs.                                  *)

LEMMA InitIInv == Init => IInv
<1> SUFFICES ASSUME Init PROVE IInv
  OBVIOUS
<1>2. tmp_logbuf \in [1 .. MaxLen -> BOOLEAN]
  BY DEF Init
<1>3. /\ pc \in [Tasks -> Here] /\ pc[LOG_TASK_PRIOR] = "wait"
      /\ \A w \in Writers : pc[w] = "idle"
  BY TaskNames DEF Init, Here
<1>4. /\ text \in [Writers -> 0 .. MaxTexts] /\ len \in [Writers -> 1 .. MaxLen]
      /\ nl \in [Writers -> BOOLEAN] /\ flush \in [Writers -> BOOLEAN]
      /\ k \in [Writers -> 1 .. MaxLen]
  BY DEF Init
<1>5. TypeOK
  <2>0. <<>> \in Seq(Nat) /\ Len(<<>>) = 0 /\ 0 <= Cap /\ 0 <= Chunk
    OBVIOUS
  <2>1. /\ ring \in Seq(Nat) /\ Len(ring) <= Cap /\ hit \in Nat
        /\ buf \in Seq(Nat) /\ Len(buf) <= Chunk
    BY <2>0 DEF Init
  <2>3. /\ mutex = 0 /\ list_lock = 0 /\ texts = 0
        /\ signal = FALSE /\ registered = TRUE
    BY DEF Init
  <2>2. mutex \in Tasks \cup {0} /\ list_lock \in {0, LOG_TASK_PRIOR} /\ texts \in 0 .. MaxTexts
    BY <2>3
  <2>4. signal \in BOOLEAN /\ registered \in BOOLEAN
    BY <2>3
  <2> QED  BY <1>2, <1>3, <1>4, <2>1, <2>2, <2>4 DEF TypeOK, Here
<1>6. Places /\ CalledRegistered
  BY <1>3, TaskNames DEF Init, Places, CalledRegistered
<1> QED  BY <1>5, <1>6 DEF IInv

(* The steps of a writer: what each does to its own variables, then where  *)
(* it is.                                                                  *)
LEMMA WriterIInv ==
    ASSUME IInv, NEW w \in Writers, WriterStep(w)
    PROVE  IInv'
<1> USE DEF lockVars, myVars
<1>a. TypeOK /\ Places /\ CalledRegistered
  BY DEF IInv
<1>b. w \in Tasks /\ w # LOG_TASK_PRIOR /\ w # 0
  BY DEF Tasks
<1>c. pc \in [Tasks -> Here]
  BY <1>a DEF TypeOK, Here
<1>d. ASSUME NEW l \in Active \cup {"idle"}, Goto(w, l)
      PROVE  /\ pc' \in [Tasks -> Here] /\ pc'[w] = l
             /\ \A u \in Tasks : u # w => pc'[u] = pc[u]
  BY <1>b, <1>c, <1>d, GotoMoves DEF Here, Active
<1>e. ASSUME NEW l \in Active \cup {"idle"}, Goto(w, l), UNCHANGED <<list_lock, registered>>,
             \/ UNCHANGED mutex /\ (l = "copy" <=> pc[w] = "copy")
             \/ l = "copy" /\ mutex = 0 /\ mutex' = w
             \/ l # "copy" /\ pc[w] = "copy" /\ mutex' = 0
      PROVE  (Places /\ CalledRegistered)'
  <2>1. pc'[w] = l /\ \A u \in Tasks : u # w => pc'[u] = pc[u]
    BY <1>d, <1>e
  <2>2. /\ pc'[LOG_TASK_PRIOR] = pc[LOG_TASK_PRIOR]
        /\ \A v \in Writers : v # w => pc'[v] = pc[v]
    BY <1>b, <2>1, TaskNames
  <2>3. (\A v \in Writers : pc[v] \in Active \cup {"idle"})'
    BY <1>a, <1>e, <2>1, <2>2 DEF Places
  <2>4. (\A v \in Writers : pc[v] = "copy" <=> mutex = v)'
    BY <1>a, <1>b, <1>e, <2>1, <2>2 DEF Places
  <2>5. (pc[LOG_TASK_PRIOR] = "read" <=> mutex = LOG_TASK_PRIOR)'
    BY <1>a, <1>b, <1>e, <2>2 DEF Places
  <2> QED  BY <1>a, <1>e, <2>2, <2>3, <2>4, <2>5 DEF Places, CalledRegistered
<1>f. ASSUME UNCHANGED <<pc, mutex, list_lock, registered>>
      PROVE  (Places /\ CalledRegistered)'
  BY <1>a, <1>f DEF Places, CalledRegistered
<1>1. CASE Log(w)
  <2>1. pc[w] = "idle" /\ Goto(w, "format") /\ UNCHANGED <<mutex, list_lock, registered>>
    BY <1>1 DEF Log
  <2>2. Places' /\ CalledRegistered'
    BY <1>e, <2>1 DEF Active
  <2>3. pc' \in [Tasks -> Here]
    BY <1>d, <2>1 DEF Active
  <2>4. /\ text' \in [Writers -> 0 .. MaxTexts] /\ texts' \in 0 .. MaxTexts
        /\ len' \in [Writers -> 1 .. MaxLen] /\ k' \in [Writers -> 1 .. MaxLen]
        /\ nl' \in [Writers -> BOOLEAN]
    BY <1>a, <1>1 DEF TypeOK, Log
  <2>5. TypeOK'
    BY <1>a, <1>1, <2>3, <2>4 DEF TypeOK, Log, Here
  <2> QED  BY <2>2, <2>5 DEF IInv
<1>2. CASE Format(w)
  <2>1. PICK e \in BOOLEAN : e = (nl[w] /\ k[w] = len[w])
    OBVIOUS
  <2>2. /\ tmp_logbuf' \in [1 .. MaxLen -> BOOLEAN]
        /\ k' \in [Writers -> 1 .. MaxLen]
    BY <1>a, <1>2, <2>1, SMTT(30) DEF TypeOK, Format
  <2>3. pc' \in [Tasks -> Here] /\ Places' /\ CalledRegistered'
    <3>1. CASE Goto(w, "lock")
      BY <1>2, <1>d, <1>e, <3>1 DEF Format, Active
    <3>2. CASE UNCHANGED pc
      BY <1>2, <1>c, <1>f, <3>2 DEF Format
    <3> QED  BY <1>2, <3>1, <3>2 DEF Format
  <2>4. TypeOK'
    BY <1>a, <1>2, <2>2, <2>3 DEF TypeOK, Format, Here
  <2> QED  BY <2>3, <2>4 DEF IInv
<1>3. CASE Pend(w)
  <2>1. Goto(w, "copy") /\ mutex = 0 /\ mutex' = w /\ UNCHANGED <<list_lock, registered>>
    BY <1>3 DEF Pend, Lock
  <2>2. pc' \in [Tasks -> Here] /\ Places' /\ CalledRegistered'
    BY <1>d, <1>e, <2>1 DEF Active
  <2>3. TypeOK'
    BY <1>a, <1>b, <1>3, <2>1, <2>2 DEF TypeOK, Pend, Here
  <2> QED  BY <2>2, <2>3 DEF IInv
<1>4. CASE Copy(w)
  <2>2. ring' \in Seq(Nat) /\ Len(ring') <= Cap
    BY <1>a, <1>4, PutIs DEF TypeOK, Copy
  <2>3. pc' \in [Tasks -> Here] /\ Places' /\ CalledRegistered' /\ mutex' \in Tasks \cup {0}
    <3>1. CASE Goto(w, "flush") /\ mutex' = 0
      BY <1>4, <1>d, <1>e, <3>1 DEF Copy, Active
    <3>2. CASE UNCHANGED <<pc, mutex>>
      BY <1>4, <1>a, <1>c, <1>f, <3>2 DEF Copy, TypeOK
    <3> QED  BY <1>4, <3>1, <3>2 DEF Copy
  <2>4. k' \in [Writers -> 1 .. MaxLen]
    <3>1. k' = k \/ (k[w] < len[w] /\ k' = [k EXCEPT ![w] = @ + 1])
      BY <1>4 DEF Copy
    <3>2. k \in [Writers -> 1 .. MaxLen] /\ len[w] \in 1 .. MaxLen
      BY <1>a DEF TypeOK
    <3> QED  BY <3>1, <3>2
  <2>6. flush' \in [Writers -> BOOLEAN]
    <3>3. \E full \in BOOLEAN : flush' = flush \/ flush' = [flush EXCEPT ![w] = full]
      BY <1>4 DEF Copy
    <3>4. flush \in [Writers -> BOOLEAN]
      BY <1>a DEF TypeOK
    <3> QED  BY <3>3, <3>4
  <2>7. hit' \in Nat
    BY <1>a, <1>4 DEF TypeOK, Copy
  <2>5. TypeOK'
    BY <1>a, <1>4, <2>2, <2>3, <2>4, <2>6, <2>7 DEF TypeOK, Copy, Here
  <2> QED  BY <2>3, <2>5 DEF IInv
<1>5. CASE Flush(w)
  <2>1. pc[w] = "flush" /\ Goto(w, "test") /\ UNCHANGED <<mutex, list_lock, registered>>
    BY <1>5 DEF Flush
  <2>2. pc' \in [Tasks -> Here] /\ Places' /\ CalledRegistered'
    BY <1>d, <1>e, <2>1 DEF Active
  <2>3. TypeOK'
    BY <1>a, <1>5, <2>2 DEF TypeOK, Flush, Here
  <2> QED  BY <2>2, <2>3 DEF IInv
<1>6. CASE LineEnd(w)
  <2>1. pc[w] = "test" /\ Goto(w, "idle") /\ UNCHANGED <<mutex, list_lock, registered>>
    BY <1>6 DEF LineEnd
  <2>2. pc' \in [Tasks -> Here] /\ Places' /\ CalledRegistered'
    BY <1>d, <1>e, <2>1
  <2>3. tmp_logbuf[len[w]] \in BOOLEAN
    BY <1>a DEF TypeOK
  <2>4. /\ text' \in [Writers -> 0 .. MaxTexts]
        /\ len' \in [Writers -> 1 .. MaxLen] /\ k' \in [Writers -> 1 .. MaxLen]
        /\ nl' \in [Writers -> BOOLEAN] /\ flush' \in [Writers -> BOOLEAN]
    BY <1>a, <1>6 DEF TypeOK, LineEnd
  <2>5. TypeOK'
    BY <1>a, <1>6, <2>2, <2>3, <2>4 DEF TypeOK, LineEnd, Here
  <2> QED  BY <2>2, <2>5 DEF IInv
<1> QED  BY <1>1, <1>2, <1>3, <1>4, <1>5, <1>6 DEF WriterStep

LEMMA LogIInv ==
    ASSUME IInv, LogStep
    PROVE  IInv'
<1> USE DEF lockVars, myVars, At
<1> DEFINE L == LOG_TASK_PRIOR
           Mine == {"wait", "lock", "read", "some", "outlock", "call", "outunlock"}
<1>a. TypeOK /\ Places /\ CalledRegistered
  BY DEF IInv
<1>c. pc \in [Tasks -> Here]
  BY <1>a DEF TypeOK, Here
<1>d. ASSUME NEW l \in Mine, Goto(L, l)
      PROVE  /\ pc' \in [Tasks -> Here] /\ pc'[L] = l
             /\ \A v \in Writers : pc'[v] = pc[v]
  BY <1>c, <1>d, TaskNames, GotoMoves DEF Here
<1>e. ASSUME NEW l \in Mine, Goto(L, l),
             \/ UNCHANGED mutex /\ (l = "read" <=> pc[L] = "read")
             \/ l = "read" /\ mutex = 0 /\ mutex' = L
             \/ l # "read" /\ pc[L] = "read" /\ mutex' = 0,
             l \in {"call", "outunlock"} <=> list_lock' = L,
             l = "call" => registered'
      PROVE  (Places /\ CalledRegistered)'
  <2>1. pc'[L] = l /\ \A v \in Writers : pc'[v] = pc[v]
    BY <1>d, <1>e
  <2>2. (\A v \in Writers : pc[v] = "copy" <=> mutex = v)'
    BY <1>a, <1>e, <2>1, TaskNames DEF Places
  <2>3. (pc[L] = "read" <=> mutex = L)'
    BY <1>a, <1>e, <2>1, TaskNames DEF Places
  <2> QED  BY <1>a, <1>e, <2>1, <2>2, <2>3 DEF Places, CalledRegistered
<1>1. CASE Wait
  <2>1. pc[L] = "wait" /\ Goto(L, "lock") /\ UNCHANGED <<mutex, list_lock, registered>>
    BY <1>1 DEF Wait
  <2>2. pc' \in [Tasks -> Here] /\ Places' /\ CalledRegistered'
    BY <1>a, <1>d, <1>e, <2>1 DEF Places
  <2> QED  BY <1>a, <1>1, <2>2 DEF IInv, TypeOK, Wait, Here
<1>2. CASE ReadLock
  <2>1. /\ pc[L] = "lock" /\ Goto(L, "read") /\ mutex = 0 /\ mutex' = L
        /\ UNCHANGED <<list_lock, registered>>
    BY <1>2 DEF ReadLock, Lock
  <2>2. pc' \in [Tasks -> Here] /\ Places' /\ CalledRegistered'
    BY <1>a, <1>d, <1>e, <2>1 DEF Places
  <2> QED  BY <1>a, <1>2, <2>1, <2>2, TaskNames DEF IInv, TypeOK, ReadLock, Here
<1>3. CASE Read
  <2>2. /\ ring' \in Seq(Nat) /\ Len(ring') <= Cap
        /\ buf' \in Seq(Nat) /\ Len(buf') <= Chunk
    BY <1>a, <1>3, ReadOf DEF TypeOK
  <2>4. /\ pc[L] = "read" /\ Goto(L, "some") /\ mutex' = 0
        /\ UNCHANGED <<list_lock, registered>>
    BY <1>3 DEF Read
  <2>5. pc' \in [Tasks -> Here] /\ Places' /\ CalledRegistered'
    BY <1>a, <1>d, <1>e, <2>4 DEF Places
  <2> QED  BY <1>a, <1>3, <2>2, <2>5 DEF IInv, TypeOK, Read, Here
<1>4. CASE Again
  <2>1. /\ pc[L] = "some" /\ UNCHANGED <<mutex, list_lock, registered>>
        /\ Goto(L, "wait") \/ Goto(L, "outlock")
    BY <1>4 DEF Again
  <2>2. pc' \in [Tasks -> Here] /\ Places' /\ CalledRegistered'
    BY <1>a, <1>d, <1>e, <2>1 DEF Places
  <2> QED  BY <1>a, <1>4, <2>2 DEF IInv, TypeOK, Again, Here
<1>5. CASE OutLock
  <2>1. /\ pc[L] = "outlock" /\ UNCHANGED <<mutex, registered>> /\ list_lock' = L
        /\ \/ Goto(L, "call") /\ registered
           \/ Goto(L, "outunlock")
    BY <1>5 DEF OutLock
  <2>2. pc' \in [Tasks -> Here] /\ Places' /\ CalledRegistered'
    BY <1>d, <1>e, <2>1
  <2> QED  BY <1>a, <1>5, <2>1, <2>2 DEF IInv, TypeOK, OutLock, Here
<1>6. CASE Call
  <2>1. /\ pc[L] = "call" /\ Goto(L, "outunlock")
        /\ UNCHANGED <<mutex, list_lock, registered>>
    BY <1>6 DEF Call
  <2>2. pc' \in [Tasks -> Here] /\ Places' /\ CalledRegistered'
    BY <1>a, <1>d, <1>e, <2>1 DEF Places
  <2> QED  BY <1>a, <1>6, <2>2 DEF IInv, TypeOK, Call, Here
<1>7. CASE OutUnlock
  <2>1. /\ pc[L] = "outunlock" /\ Goto(L, "lock") /\ list_lock' = 0
        /\ UNCHANGED <<mutex, registered>>
    BY <1>7 DEF OutUnlock
  <2>2. pc' \in [Tasks -> Here] /\ Places' /\ CalledRegistered'
    BY <1>d, <1>e, <2>1, TaskNames
  <2> QED  BY <1>a, <1>7, <2>2 DEF IInv, TypeOK, OutUnlock, Here
<1> QED  BY <1>1, <1>2, <1>3, <1>4, <1>5, <1>6, <1>7 DEF LogStep

LEMMA NextIInv == IInv /\ [Next]_vars => IInv'
<1> SUFFICES ASSUME IInv, [Next]_vars PROVE IInv'
  OBVIOUS
<1> USE DEF lockVars, myVars
<1>1. CASE Unregister
  <2>1. TypeOK' /\ Places'
    BY <1>1 DEF IInv, TypeOK, Places, Unregister
  <2>2. pc[LOG_TASK_PRIOR] # "call"
    BY <1>1, TaskNames DEF IInv, Places, Unregister, MayChangeList
  <2> QED  BY <1>1, <2>1, <2>2 DEF IInv, CalledRegistered, Unregister
<1>2. CASE FlushTimer
  BY <1>2 DEF IInv, TypeOK, Places, CalledRegistered, FlushTimer
<1>3. CASE UNCHANGED vars
  BY <1>3 DEF IInv, TypeOK, Places, CalledRegistered, vars
<1>4. CASE Interrupt
  <2>1. ring' \in Seq(Nat) /\ Len(ring') <= Cap
    BY <1>4, InterruptKeeps DEF IInv, TypeOK
  <2>2. PICK n \in 1 .. MaxLen :
            /\ texts < MaxTexts /\ texts' = texts + 1
            /\ tmp_logbuf' = [j \in 1 .. MaxLen |-> IF j <= n THEN j = n ELSE tmp_logbuf[j]]
            /\ hit' = IF mutex = 0 THEN 0 ELSE hit + n
    BY <1>4 DEF Interrupt
  <2>3. tmp_logbuf' \in [1 .. MaxLen -> BOOLEAN]
    <3>1. \A j \in 1 .. MaxLen : (IF j <= n THEN j = n ELSE tmp_logbuf[j]) \in BOOLEAN
      <4> TAKE j \in 1 .. MaxLen
      <4>1. tmp_logbuf[j] \in BOOLEAN
        BY DEF IInv, TypeOK
      <4>2. (j = n) \in BOOLEAN
        OBVIOUS
      <4> QED  BY <4>1, <4>2
    <3> QED  BY <2>2, <3>1
  <2>4. hit' \in Nat /\ texts' \in 0 .. MaxTexts /\ text' \in [Writers -> 0 .. MaxTexts]
    BY <1>4, <2>2 DEF IInv, TypeOK, Interrupt
  <2>5. signal' \in BOOLEAN /\ UNCHANGED <<lockVars, registered, pc, myVars, buf>>
    BY <1>4 DEF Interrupt
  <2>6. TypeOK'
    BY <2>1, <2>3, <2>4, <2>5 DEF IInv, TypeOK
  <2> QED  BY <2>5, <2>6 DEF IInv, Places, CalledRegistered
<1> QED  BY <1>1, <1>2, <1>3, <1>4, WriterIInv, LogIInv DEF Next

THEOREM InductiveIInv == Spec => []IInv
<1> QED  BY InitIInv, NextIInv, PTL DEF Spec

(* Every variable has a value the code can give it: above all, neither the *)
(* ring nor the shared buffer is left, whoever preempts whom.              *)
THEOREM TypeCorrect == Spec => []TypeOK
<1>1. IInv => TypeOK
  BY DEF IInv
<1> QED  BY <1>1, InductiveIInv, PTL

(* log_task holds the lock of the list from the test to the call, root     *)
(* takes an output off only with the lock: none is called afterwards.      *)
THEOREM NoStaleOutput == Spec => []CalledRegistered
<1>1. IInv => CalledRegistered
  BY DEF IInv
<1> QED  BY <1>1, InductiveIInv, PTL

-----------------------------------------------------------------------------
(* log_task is woken.  What it has read is looked at before it waits, so   *)
(* the invariant speaks of an empty read as well.                          *)

Noticed == signal \/ \E w \in Writers : pc[w] = "copy" \/ (pc[w] = "flush" /\ flush[w])

(* What the interrupt writes across a task is noticed as well.              *)
HitInv ==
    /\ mutex = 0 => hit = 0
    /\ hit # 0 /\ pc[LOG_TASK_PRIOR] # "lock" => signal

WInv ==
    \/ pc[LOG_TASK_PRIOR] = "wait"
    \/ pc[LOG_TASK_PRIOR] = "some" /\ buf = <<>>
    => (Len(ring) > (Cap + 1) \div 3 => Noticed)

LEMMA WriterWInv ==
    ASSUME IInv, HitInv, WInv, NEW w \in Writers, WriterStep(w)
    PROVE  WInv'
<1> USE DEF lockVars, myVars
<1>a. /\ pc \in [Tasks -> Here] /\ flush \in [Writers -> BOOLEAN]
      /\ ring \in Seq(Nat) /\ Len(ring) \in Nat
  BY DEF IInv, TypeOK, Here
<1>b. w \in Tasks /\ \A v \in Writers : v \in Tasks
  BY TaskNames
<1>c. pc'[LOG_TASK_PRIOR] = pc[LOG_TASK_PRIOR] /\ buf' = buf
  BY <1>a, <1>b, TaskNames DEF WriterStep, Log, Format, Pend, Copy, Flush, LineEnd, Goto
<1>1. CASE ring' = ring /\ (Noticed => Noticed')
  BY <1>1, <1>c DEF WInv
<1>2. CASE Noticed'
  BY <1>2 DEF WInv
<1>3. ASSUME Log(w) \/ Format(w) \/ Pend(w) \/ Flush(w) \/ LineEnd(w)
      PROVE  WInv'
  <2>1. ring' = ring
    BY <1>3 DEF Log, Format, Pend, Flush, LineEnd
  <2>2. signal => signal'
    BY <1>3 DEF Log, Format, Pend, Flush, LineEnd
  <2>3. ASSUME NEW v \in Writers, v # w, pc[v] = "copy" \/ (pc[v] = "flush" /\ flush[v])
        PROVE  Noticed'
    <3>1. pc'[v] = pc[v] /\ flush'[v] = flush[v]
      BY <1>3, <1>a, <1>b, <2>3 DEF Log, Format, Pend, Flush, LineEnd, Goto
    <3> QED  BY <2>3, <3>1 DEF Noticed
  <2>4. ASSUME pc[w] = "copy" \/ (pc[w] = "flush" /\ flush[w])
        PROVE  Noticed'
    <3>1. Flush(w) /\ flush[w]
      BY <1>3, <2>4 DEF Log, Format, Pend, Flush, LineEnd
    <3> QED  BY <3>1 DEF Flush, Noticed
  <2> QED  BY <1>1, <1>2, <2>1, <2>2, <2>3, <2>4 DEF Noticed
<1>4. CASE Copy(w)
  <2>1. CASE UNCHANGED pc
    BY <1>2, <1>4, <2>1 DEF Copy, Noticed
  <2>2. CASE Goto(w, "flush") /\ hit = 0
    <3>1. pc'[w] = "flush"
      BY <1>a, <1>b, <2>2 DEF Goto
    <3>2. flush' = [flush EXCEPT ![w] = Len(ring') > (Cap + 1) \div 3] \/ UNCHANGED pc
      BY <1>4, <2>2 DEF Copy
    <3>3. (Len(ring') > (Cap + 1) \div 3 => flush'[w]) \/ UNCHANGED pc
      BY <1>a, <3>2
    <3> QED  BY <2>1, <3>1, <3>3 DEF WInv, Noticed
  <2>3. CASE hit # 0
    <3>1. signal' = signal
      BY <1>4 DEF Copy
    <3>2. pc[LOG_TASK_PRIOR] # "lock" => Noticed'
      BY <2>3, <3>1 DEF HitInv, Noticed
    <3> QED  BY <1>c, <3>2 DEF WInv
  <2> QED  BY <1>4, <2>1, <2>2, <2>3 DEF Copy
<1> QED  BY <1>3, <1>4 DEF WriterStep

LEMMA NextHitInv == IInv /\ HitInv /\ [Next]_vars => HitInv'
<1> SUFFICES ASSUME IInv, HitInv, [Next]_vars PROVE HitInv'
  OBVIOUS
<1> USE DEF lockVars, myVars, HitInv
<1>a. pc \in [Tasks -> Here]
  BY DEF IInv, TypeOK, Here
<1>1. ASSUME NEW w \in Writers, WriterStep(w) PROVE HitInv'
  <2>1. w \in Tasks /\ w # LOG_TASK_PRIOR /\ w # 0
    BY DEF Tasks
  <2>2. pc'[LOG_TASK_PRIOR] = pc[LOG_TASK_PRIOR]
    BY <1>1, <1>a, <2>1, TaskNames
       DEF WriterStep, Log, Format, Pend, Copy, Flush, LineEnd, Goto
  <2>3. CASE Log(w) \/ Format(w) \/ Pend(w) \/ Flush(w) \/ LineEnd(w)
    <3>1. hit' = hit /\ (signal => signal') /\ (mutex' = mutex \/ (mutex' = w /\ mutex = 0))
      <4>1. CASE Log(w) \/ Format(w)
        BY <4>1 DEF Log, Format
      <4>2. CASE Pend(w)
        BY <4>2 DEF Pend, Lock
      <4>3. CASE Flush(w) \/ LineEnd(w)
        BY <4>3 DEF Flush, LineEnd
      <4> QED  BY <2>3, <4>1, <4>2, <4>3
    <3> QED  BY <2>1, <2>2, <3>1
  <2>4. CASE Copy(w)
    BY <2>2, <2>4 DEF Copy
  <2> QED  BY <1>1, <2>3, <2>4 DEF WriterStep
<1>2. CASE LogStep
  <2>1. CASE Wait \/ OutUnlock
    <3>1. pc'[LOG_TASK_PRIOR] = "lock" /\ UNCHANGED <<mutex, hit>>
      BY <1>a, <2>1, TaskNames DEF Wait, OutUnlock, Goto
    <3> QED  BY <3>1
  <2>2. CASE ReadLock
    BY <2>2 DEF ReadLock, Lock
  <2>3. CASE Read
    BY <2>3 DEF Read
  <2>4. CASE Again \/ OutLock \/ Call
    <3>1. pc[LOG_TASK_PRIOR] # "lock" /\ UNCHANGED <<mutex, hit, signal>>
      BY <2>4 DEF Again, OutLock, Call, At
    <3> QED  BY <3>1
  <2> QED  BY <1>2, <2>1, <2>2, <2>3, <2>4 DEF LogStep
<1>3. CASE Unregister \/ FlushTimer \/ Interrupt \/ UNCHANGED vars
  BY <1>3 DEF Unregister, FlushTimer, Interrupt, vars
<1> QED  BY <1>1, <1>2, <1>3 DEF Next

LEMMA NextWInv == IInv /\ HitInv /\ WInv /\ [Next]_vars => WInv'
<1> SUFFICES ASSUME IInv, HitInv, WInv, [Next]_vars PROVE WInv'
  OBVIOUS
<1> USE DEF lockVars, myVars
<1> DEFINE L == LOG_TASK_PRIOR
<1>a. pc \in [Tasks -> Here] /\ ring \in Seq(Nat) /\ Len(ring) \in Nat
  BY DEF IInv, TypeOK, Here
<1>1. CASE LogStep
  <2>1. CASE Wait \/ ReadLock \/ OutLock \/ Call \/ OutUnlock
    <3>1. pc'[L] \notin {"wait", "some"}
      BY <1>a, <2>1, TaskNames DEF Wait, ReadLock, OutLock, Call, OutUnlock, Goto
    <3> QED  BY <3>1 DEF WInv
  <2>2. CASE Read
    <3>4. hit = 0 /\ buf' = <<>> => Len(ring') = 0
      BY <2>2, ReadOf DEF IInv, TypeOK
    <3>6. hit # 0 => signal'
      BY <2>2, TaskNames DEF Read, At, HitInv
    <3>5. pc'[L] = "some"
      BY <1>a, <2>2, TaskNames DEF Read, Goto
    <3> QED  BY <3>4, <3>5, <3>6 DEF WInv, Noticed
  <2>3. CASE Again
    <3>1. CASE buf = <<>>
      <4>1. UNCHANGED <<ring, signal, flush>> /\ pc[L] = "some"
        BY <2>3 DEF Again, At
      <4>2. \A w \in Writers : pc'[w] = pc[w]
        BY <1>a, <2>3, TaskNames DEF Again, Goto
      <4> QED  BY <3>1, <4>1, <4>2 DEF WInv, Noticed
    <3>2. CASE buf # <<>>
      <4>1. pc'[L] = "outlock"
        BY <1>a, <2>3, <3>2, TaskNames DEF Again, Goto
      <4> QED  BY <4>1 DEF WInv
    <3> QED  BY <3>1, <3>2
  <2> QED  BY <1>1, <2>1, <2>2, <2>3 DEF LogStep
<1>2. CASE Unregister
  BY <1>2 DEF Unregister, WInv, Noticed
<1>3. CASE FlushTimer
  BY <1>3 DEF FlushTimer, WInv, Noticed
<1>4. CASE UNCHANGED vars
  BY <1>4 DEF vars, WInv, Noticed
<1>5. CASE Interrupt
  BY <1>5 DEF Interrupt, WInv, Noticed
<1> QED  BY <1>1, <1>2, <1>3, <1>4, <1>5, WriterWInv DEF Next

(* log_task never sleeps on a ring filled by a third unless the flag is    *)
(* set or a writer has yet to set it, however its last read and the        *)
(* writers interleave.                                                     *)
THEOREM NoWakeupLost == Spec => []WakeupNotLost
<1>1. Init => HitInv /\ WInv
  BY DEF Init, HitInv, WInv
<1>2. WInv => WakeupNotLost
  BY DEF WInv, Noticed, WakeupNotLost
<1> QED  BY <1>1, <1>2, InductiveIInv, NextHitInv, NextWInv, PTL DEF Spec

-----------------------------------------------------------------------------
(* The texts in the ring.                                                  *)

(* A text in hand has a number of its own; before it is copied no          *)
(* character is in the ring for it, and while it is those are the last.    *)
CInv ==
    /\ OneAfterOther(ring) /\ Known(ring, texts)
    /\ \A w \in Writers :
        /\ pc[w] # "idle" => text[w] \in 1 .. texts
        /\ \A v \in Writers : v # w /\ pc[v] # "idle" /\ pc[w] # "idle" => text[v] # text[w]
        /\ pc[w] \in {"format", "lock"} => Absent(ring, text[w])
        /\ pc[w] = "copy" => AtEnd(ring, text[w])

LEMMA InitCInv == Init => CInv
<1>1. ASSUME Init PROVE Len(ring) = 0 /\ \A w \in Writers : pc[w] = "idle"
  BY <1>1, TaskNames DEF Init
<1>2. Len(ring) = 0 => OneAfterOther(ring) /\ Known(ring, texts)
  BY DEF OneAfterOther, Known
<1> QED  BY <1>1, <1>2 DEF CInv

LEMMA WriterCInv ==
    ASSUME IInv, CInv, NEW w \in Writers, WriterStep(w)
    PROVE  CInv'
<1> USE DEF lockVars, myVars
<1>a. /\ pc \in [Tasks -> Here] /\ text \in [Writers -> 0 .. MaxTexts]
      /\ ring \in Seq(Nat) /\ Len(ring) \in Nat /\ Len(ring) <= Cap
      /\ texts \in Nat /\ w \in Tasks
  BY TaskNames DEF IInv, TypeOK, Here
<1>b. \A v \in Writers : v # w => pc'[v] = pc[v] /\ text'[v] = text[v]
  BY <1>a, TaskNames DEF WriterStep, Log, Format, Pend, Copy, Flush, LineEnd, Goto
<1>c. pc[w] \in Here /\ pc'[w] \in Here
  BY <1>a DEF WriterStep, Log, Format, Pend, Copy, Flush, LineEnd, Goto, Here
<1>1. CASE Log(w)
  <2>1. /\ texts' = texts + 1 /\ ring' = ring
        /\ text'[w] = texts + 1 /\ pc'[w] = "format"
    BY <1>1, <1>a DEF Log, Goto
  <2>2. Known(ring, texts + 1) /\ Absent(ring, texts + 1)
    BY <1>a DEF CInv, Known, Absent
  <2>3. \A v \in Writers : v # w /\ pc[v] # "idle" => text[v] \in 1 .. texts + 1 /\ text[v] # texts + 1
    BY <1>a DEF CInv
  <2>4. texts + 1 \in 1 .. texts + 1 /\ OneAfterOther(ring)
    BY <1>a DEF CInv
  <2>5. \A v \in Writers : v # w =>
            /\ pc'[v] = pc[v] /\ text'[v] = text[v]
            /\ pc[v] \in {"format", "lock"} => Absent(ring, text[v])
            /\ pc[v] = "copy" => AtEnd(ring, text[v])
            /\ \A u \in Writers : u # v /\ pc[u] # "idle" /\ pc[v] # "idle" => text[u] # text[v]
    BY <1>b DEF CInv
  <2> QED  BY <2>1, <2>2, <2>3, <2>4, <2>5 DEF CInv
<1>2. CASE Format(w) \/ Pend(w) \/ Flush(w)
  <2>1. /\ UNCHANGED <<texts, ring, text>> /\ pc[w] # "idle" /\ pc'[w] # "idle"
        /\ pc'[w] \in {"format", "lock"} => pc[w] \in {"format", "lock"}
        /\ pc'[w] = "copy" => pc[w] = "lock"
    BY <1>2, <1>a DEF Format, Pend, Flush, Goto
  <2>2. \A x : Absent(ring, x) => AtEnd(ring, x)
    BY DEF Absent, AtEnd
  <2> QED  BY <1>b, <2>1, <2>2 DEF CInv
<1>3. CASE LineEnd(w)
  <2>1. UNCHANGED <<texts, ring>> /\ pc'[w] = "idle"
    BY <1>3, <1>a DEF LineEnd, Goto
  <2> QED  BY <1>b, <2>1 DEF CInv
<1>4. CASE Copy(w)
  <2> DEFINE x == text[w]
  <2>2. /\ Put(w) /\ UNCHANGED <<texts, text>>
        /\ pc[w] = "copy" /\ pc'[w] \in {"copy", "flush"}
    BY <1>4, <1>a DEF Copy, Goto
  <2>3. OneAfterOther(ring) /\ AtEnd(ring, x) /\ Known(ring, texts) /\ x \in 1 .. texts
    BY <2>2 DEF CInv
  <2>1. x \in Nat \ {Nobody}
    BY <1>a, <2>3 DEF Nobody
  <2>8. ring' \in Seq(Nat) /\ Keeps(ring', Append(ring, x))
    BY <1>a, <2>2, <2>1, PutIs DEF IInv, TypeOK
  <2> HIDE DEF x
  <2>9. KeepsAdding(Append(ring, x), ring, x)
    BY <1>a, <2>1, <2>3, AppendKeeps
  <2>10. KeepsAdding(ring', ring, x)
    BY <2>1, <2>8, <2>9, AddingKept
  <2>4. /\ OneAfterOther(ring') /\ AtEnd(ring', x)
        /\ \A y \in Nat \ {Nobody, x} : Absent(ring, y) => Absent(ring', y)
        /\ Known(ring', texts)
    BY <1>a, <2>3, <2>10 DEF KeepsAdding
  <2>6. \A v \in Writers : v # w => pc[v] # "copy"
    BY <2>2 DEF IInv, Places
  <2>7. \A v \in Writers : v # w /\ pc[v] \in {"format", "lock"} => Absent(ring', text[v])
    <3> TAKE v \in Writers
    <3> HAVE v # w /\ pc[v] \in {"format", "lock"}
    <3>1. text[v] \in 1 .. texts /\ text[v] # x /\ Absent(ring, text[v])
      BY <2>2 DEF CInv, x
    <3>2. text[v] \in Nat \ {Nobody, x}
      BY <1>a, <3>1 DEF Nobody
    <3> QED  BY <2>4, <3>1, <3>2
  <2> QED  BY <1>b, <2>2, <2>3, <2>4, <2>6, <2>7 DEF CInv, x
<1> QED  BY <1>1, <1>2, <1>3, <1>4 DEF WriterStep

LEMMA KeptCInv ==
    ASSUME IInv, CInv, Keeps(ring', ring), text' = text, texts' \in {texts, texts + 1},
           \A w \in Writers : pc'[w] = pc[w]
    PROVE  CInv'
<1>1. texts \in Nat /\ texts' \in Nat /\ ring \in Seq(Nat)
  BY DEF IInv, TypeOK
<1>2. Known(ring, texts')
  BY <1>1 DEF CInv, Known
<1>3. /\ OneAfterOther(ring') /\ Known(ring', texts')
      /\ \A x \in Nat \ {Nobody} :
            (Absent(ring, x) => Absent(ring', x)) /\ (AtEnd(ring, x) => AtEnd(ring', x))
  BY <1>1, <1>2 DEF Keeps, CInv
<1>4. \A w \in Writers : pc[w] # "idle" =>
          text[w] \in 1 .. texts' /\ text[w] \in Nat \ {Nobody}
  BY <1>1 DEF CInv, Nobody
<1> QED  BY <1>3, <1>4 DEF CInv

LEMMA NextCInv == IInv /\ CInv /\ [Next]_vars => CInv'
<1> SUFFICES ASSUME IInv, CInv, [Next]_vars PROVE CInv'
  OBVIOUS
<1> USE DEF lockVars, myVars
<1>b. ASSUME Keeps(ring', ring), UNCHANGED <<texts, text>>, \A w \in Writers : pc'[w] = pc[w]
      PROVE  CInv'
  BY <1>b, KeptCInv
<1>1. ASSUME UNCHANGED <<ring, texts, text>>, \A w \in Writers : pc'[w] = pc[w]
      PROVE  CInv'
  BY <1>1 DEF CInv
<1>2. CASE LogStep
  <2>1. UNCHANGED <<texts, text>> /\ \A w \in Writers : pc'[w] = pc[w]
    BY <1>2, TaskNames DEF LogStep, Wait, ReadLock, Read, Again, OutLock, Call, OutUnlock,
                           Goto, IInv, TypeOK
  <2>2. CASE ring' = ring
    BY <1>1, <2>1, <2>2
  <2>3. CASE Read
    <3>1. Keeps(ring', ring)
      BY <2>3, ReadOf DEF IInv, TypeOK
    <3> QED  BY <1>b, <2>1, <3>1
  <2> QED  BY <1>2, <2>2, <2>3 DEF LogStep, Wait, ReadLock, Again, OutLock, Call, OutUnlock
<1>3. CASE Unregister
  BY <1>1, <1>3 DEF Unregister
<1>4. CASE FlushTimer
  BY <1>1, <1>4 DEF FlushTimer
<1>5. CASE UNCHANGED vars
  BY <1>1, <1>5 DEF vars
<1>6. CASE Interrupt
  <2>1. Keeps(ring', ring)
    BY <1>6, InterruptKeeps DEF IInv, TypeOK
  <2>2. text' = text /\ texts' = texts + 1 /\ pc' = pc
    BY <1>6 DEF Interrupt
  <2> QED  BY <2>1, <2>2, KeptCInv
<1> QED  BY <1>2, <1>3, <1>4, <1>5, <1>6, WriterCInv DEF Next

(* The mutex keeps the tasks' texts apart in the ring, whatever becomes of *)
(* them in the buffer they are formatted in, and although the interrupt    *)
(* writes to both without it.                                              *)
THEOREM TextsContiguous == Spec => []Contiguous
<1>1. IInv /\ CInv => Contiguous
  <2> SUFFICES ASSUME IInv, CInv, NEW i \in DOMAIN ring, NEW j \in DOMAIN ring,
                      i < j, ring[i] = ring[j], ring[i] # Nobody, NEW m \in i .. j
               PROVE  ring[m] \in {Nobody, ring[i]}
    BY DEF Contiguous
  <2>1. DOMAIN ring = 1 .. Len(ring) /\ Len(ring) \in Nat
    BY DEF IInv, TypeOK
  <2>2. m \in 1 .. Len(ring) /\ i <= m /\ m <= j
    BY <2>1
  <2> QED  BY <2>1, <2>2 DEF CInv, OneAfterOther
<1> QED  BY <1>1, InductiveIInv, InitCInv, NextCInv, PTL DEF Spec

(* The ring and the shared buffer are not left, the tasks' texts stand one *)
(* after the other, and no output is called that was taken off the list.   *)
THEOREM LogSafe == Spec => []LogInv
<1>1. TypeOK /\ Contiguous /\ CalledRegistered => LogInv
  BY DEF LogInv
<1> QED  BY <1>1, TypeCorrect, TextsContiguous, NoStaleOutput, PTL

-----------------------------------------------------------------------------
(* The ring underneath, in bytes: whatever the size of a text up to one    *)
(* byte more than the ring, it is a queue that drops its oldest.           *)
HIDE LogTaskAssumption DEF LOG_TASK_PRIOR, ROOTTASK_PRIO

LEMMA Sizes ==
    Size \in Nat \ {0, 1} /\ MaxWrite \in 1 .. Size + 1 /\ MaxRead \in Nat \ {0}
BY CircBufAssumption

USE Sizes

(* What Wrap() makes of the numbers it is given.                           *)
Rounded(x) == IF x < 0 THEN x + Size ELSE IF x < Size THEN x
              ELSE IF x < 2 * Size THEN x - Size ELSE x - 2 * Size

LEMMA RemainderIs ==
    ASSUME NEW n \in Nat \ {0}, NEW x \in Int, NEW m \in Int, x - m * n \in 0 .. n - 1
    PROVE  x % n = x - m * n
<1> DEFINE q == x \div n
<1>1. x % n \in 0 .. n - 1 /\ q \in Int /\ x = n * q + (x % n)
  OBVIOUS
<1> HIDE DEF q
<1>2. n * q \in Int /\ n * m \in Int /\ m * n = n * m /\ x % n = x - n * q
  BY <1>1
<1>3. CASE q >= m + 1
  <2>1. n * (q - m) >= n /\ n * (q - m) = n * q - n * m
    BY <1>1, <1>3
  <2> QED  BY <1>1, <1>2, <2>1
<1>4. CASE q <= m - 1
  <2>1. n * (m - q) >= n /\ n * (m - q) = n * m - n * q
    BY <1>1, <1>4
  <2> QED  BY <1>1, <1>2, <2>1
<1>5. q >= m + 1 \/ q <= m - 1 \/ q = m
  BY <1>1
<1> QED  BY <1>2, <1>3, <1>4, <1>5

LEMMA WrapIs ==
    ASSUME NEW x \in -Size .. 3 * Size - 1
    PROVE  Wrap(x) = Rounded(x) /\ Wrap(x) \in 0 .. Size - 1
<1>1. CASE x < 0
  <2>1. x - (-1) * Size \in 0 .. Size - 1 /\ x - (-1) * Size = x + Size
    BY <1>1
  <2> QED  BY <1>1, <2>1, RemainderIs DEF Wrap, Rounded
<1>2. CASE x \in 0 .. Size - 1
  <2>1. x - 0 * Size = x
    BY <1>2
  <2> QED  BY <1>2, <2>1, RemainderIs DEF Wrap, Rounded
<1>3. CASE x \in Size .. 2 * Size - 1
  <2>1. x - 1 * Size \in 0 .. Size - 1 /\ x - 1 * Size = x - Size
    BY <1>3
  <2> QED  BY <1>3, <2>1, RemainderIs DEF Wrap, Rounded
<1>4. CASE x \in 2 * Size .. 3 * Size - 1
  <2>1. x - 2 * Size \in 0 .. Size - 1
    BY <1>4
  <2> QED  BY <1>4, <2>1, RemainderIs DEF Wrap, Rounded
<1> QED  BY <1>1, <1>2, <1>3, <1>4

(* What the macros count, wherever head and tail are.                      *)
LEMMA CountIs ==
    ASSUME NEW h \in 0 .. Size - 1, NEW t \in 0 .. Size - 1
    PROVE  /\ CIRC_CNT(h, t) = IF h >= t THEN h - t ELSE h - t + Size
           /\ CIRC_CNT(h, t) \in 0 .. Size - 1
           /\ CIRC_SPACE(h, t) = Size - 1 - CIRC_CNT(h, t)
           /\ CIRC_CNT_TO_END(h, t) = IF h >= t THEN h - t ELSE Size - t
<1>1. h - t \in -Size .. 3 * Size - 1 /\ t - (h + 1) \in -Size .. 3 * Size - 1
      /\ h + (Size - t) \in -Size .. 3 * Size - 1
  OBVIOUS
<1>2. Wrap(h - t) = IF h >= t THEN h - t ELSE h - t + Size
  BY <1>1, WrapIs DEF Rounded
<1>3. Wrap(t - (h + 1)) = IF h >= t THEN t - h - 1 + Size ELSE t - h - 1
  BY <1>1, WrapIs DEF Rounded
<1>4. Wrap(h + (Size - t)) = IF h >= t THEN h - t ELSE h - t + Size
  BY <1>1, WrapIs DEF Rounded
<1>5. CIRC_CNT(h, t) = Wrap(h - t) /\ CIRC_SPACE(h, t) = Wrap(t - (h + 1))
  BY DEF CIRC_CNT, CIRC_SPACE
<1>6. CIRC_CNT_TO_END(h, t) = IF h >= t THEN h - t ELSE Size - t
  BY <1>4 DEF CIRC_CNT_TO_END
<1> QED  BY <1>2, <1>3, <1>5, <1>6

Held    == CIRC_CNT(head, tail)

(* Bytes that a text of n bytes pushes out.                                *)
Excess(n) == IF n > Size - 1 - Held THEN n - (Size - 1 - Held) ELSE 0

LEMMA HeldIs ==
    ASSUME RingTypes
    PROVE  /\ head \in 0 .. Size - 1 /\ tail \in 0 .. Size - 1 /\ Held \in 0 .. Size - 1
           /\ head - tail = Held \/ head - tail = Held - Size
           /\ Held = IF head >= tail THEN head - tail ELSE head - tail + Size
<1>1. head \in 0 .. Size - 1 /\ tail \in 0 .. Size - 1
  BY DEF RingTypes
<1>2. Held = (IF head >= tail THEN head - tail ELSE head - tail + Size) /\ Held \in 0 .. Size - 1
  BY <1>1, CountIs DEF Held
<1> QED  BY <1>1, <1>2

(* A text is written in two pieces: up to the end, and from the beginning. *)
LEMMA WriteIs ==
    ASSUME RingTypes, NEW n \in 1 .. MaxWrite, write_circbuf(n)
    PROVE  /\ head' = Wrap(head + n) /\ tail' = Wrap(tail + Excess(n))
           /\ total' = total + n /\ got' = got
           /\ bytes' \in [0 .. Size - 1 -> Nat]
           /\ \A p \in 0 .. Size - 1 :
                 bytes'[p] = IF p + Size < head + n THEN total + 1 + (p + Size - head)
                             ELSE IF p >= head /\ p < head + n THEN total + 1 + (p - head)
                             ELSE bytes[p]
<1> DEFINE space  == CIRC_SPACE(head, tail)
           cover  == IF space < n THEN n - space ELSE 0
           first  == Least(n, Size - head)
           mid    == Wrap(head + first)
           second == Least(n - first, Size - mid)
<1>1. /\ bytes' = Copied(Copied(bytes, head, total + 1, first), mid, total + 1 + first, second)
      /\ head' = Wrap(mid + second) /\ tail' = Wrap(tail + cover)
      /\ total' = total + n /\ got' = got
  BY DEF write_circbuf
<1>2. /\ head \in 0 .. Size - 1 /\ tail \in 0 .. Size - 1 /\ Held \in 0 .. Size - 1
      /\ bytes \in [0 .. Size - 1 -> Nat] /\ total \in Nat /\ n \in 1 .. Size + 1
  BY HeldIs DEF RingTypes
<1>3. cover = Excess(n)
  BY <1>2, CountIs DEF Excess, Held
<1>4. first = (IF n <= Size - head THEN n ELSE Size - head) /\ first \in Nat
  BY <1>2 DEF Least
<1>5. mid = (IF head + n < Size THEN head + n ELSE 0)
  <2>1. head + first \in -Size .. 3 * Size - 1
    BY <1>2, <1>4
  <2>2. mid = Rounded(head + first)
    BY <2>1, WrapIs
  <2> HIDE DEF first, mid
  <2> QED  BY <1>2, <1>4, <2>2 DEF Rounded
<1>6. second = (IF n <= Size - head THEN 0 ELSE n - (Size - head)) /\ second \in Nat
  <2> HIDE DEF first, mid
  <2> QED  BY <1>2, <1>4, <1>5 DEF Least
<1> HIDE DEF first, mid, second, cover, space
<1>7. head' = Wrap(head + n)
  <2>1. head + n \in -Size .. 3 * Size - 1 /\ mid + second \in -Size .. 3 * Size - 1
    BY <1>2, <1>5, <1>6
  <2>2. Wrap(head + n) = Rounded(head + n) /\ Wrap(mid + second) = Rounded(mid + second)
    BY <2>1, WrapIs
  <2>3. Rounded(head + n) = Rounded(mid + second)
    BY <1>2, <1>5, <1>6 DEF Rounded
  <2> QED  BY <1>1, <2>2, <2>3
<1> DEFINE b1 == Copied(bytes, head, total + 1, first)
<1>8. /\ DOMAIN b1 = 0 .. Size - 1
      /\ \A p \in 0 .. Size - 1 :
            b1[p] = IF p \in head .. head + first - 1 THEN total + 1 + (p - head) ELSE bytes[p]
  BY <1>2 DEF Copied
<1> HIDE DEF b1
<1>9. /\ DOMAIN bytes' = 0 .. Size - 1 /\ bytes' = [p \in 0 .. Size - 1 |-> bytes'[p]]
      /\ \A p \in 0 .. Size - 1 :
            bytes'[p] = IF p \in mid .. mid + second - 1 THEN total + 1 + first + (p - mid) ELSE b1[p]
  <2>1. bytes' = Copied(b1, mid, total + 1 + first, second)
    BY <1>1 DEF b1
  <2> QED  BY <1>8, <2>1 DEF Copied
<1>10. ASSUME NEW p \in 0 .. Size - 1
       PROVE  /\ bytes'[p] = IF p + Size < head + n THEN total + 1 + (p + Size - head)
                             ELSE IF p >= head /\ p < head + n THEN total + 1 + (p - head)
                             ELSE bytes[p]
              /\ bytes'[p] \in Nat
  <2>0. bytes[p] \in Nat /\ p \in Nat
    BY <1>2
  <2>1. CASE n <= Size - head
    <3>1. second = 0 /\ first = n /\ mid \in Nat
      BY <1>2, <1>4, <1>5, <1>6, <2>1
    <3>2. p \notin mid .. mid + second - 1
      BY <3>1
    <3>3. bytes'[p] = b1[p]
      BY <1>9, <3>2
    <3>4. p \in head .. head + first - 1 <=> p >= head /\ p < head + n
      BY <1>2, <3>1
    <3>5. ~(p + Size < head + n)
      BY <1>2, <2>1
    <3>6. bytes'[p] = IF p >= head /\ p < head + n THEN total + 1 + (p - head) ELSE bytes[p]
      BY <1>8, <3>3, <3>4
    <3> QED  BY <1>2, <2>0, <3>5, <3>6
  <2>2. CASE ~(n <= Size - head)
    <3>1. first = Size - head /\ mid = 0 /\ second = n - (Size - head)
      BY <1>2, <1>4, <1>5, <1>6, <2>2
    <3>2. p \in head .. head + first - 1 <=> p >= head
      BY <1>2, <3>1
    <3>3. p \in mid .. mid + second - 1 <=> p + Size < head + n
      BY <1>2, <3>1
    <3>4. b1[p] = IF p >= head THEN total + 1 + (p - head) ELSE bytes[p]
      BY <1>8, <3>2
    <3>5. bytes'[p] = IF p + Size < head + n THEN total + 1 + first + (p - mid) ELSE b1[p]
      BY <1>9, <3>3
    <3>6. total + 1 + first + (p - mid) = total + 1 + (p + Size - head)
      BY <1>2, <3>1
    <3>7. p >= head => p < head + n
      BY <1>2, <2>2
    <3>8. bytes'[p] = IF p + Size < head + n THEN total + 1 + (p + Size - head)
                      ELSE IF p >= head /\ p < head + n THEN total + 1 + (p - head) ELSE bytes[p]
      BY <3>4, <3>5, <3>6, <3>7
    <3> QED  BY <1>2, <2>0, <3>8
  <2> QED  BY <2>1, <2>2
<1> QED  BY <1>1, <1>3, <1>7, <1>9, <1>10

(* The new bytes are behind those held, which stay but for the excess.     *)
LEMMA WriteCount ==
    ASSUME RingTypes, NEW n \in 1 .. MaxWrite, write_circbuf(n)
    PROVE  /\ head' \in 0 .. Size - 1 /\ tail' \in 0 .. Size - 1
           /\ Excess(n) \in Nat /\ Held' = Held + n - Excess(n) /\ Held' \in 0 .. Size - 1
           /\ Held + n <= Size - 1 => Excess(n) = 0
           /\ Held + n > Size - 1 => Held' = Size - 1
<1> DEFINE e == Excess(n)
           h == Held
<1>1. /\ head \in 0 .. Size - 1 /\ tail \in 0 .. Size - 1 /\ h \in 0 .. Size - 1
      /\ head - tail = h \/ head - tail = h - Size
      /\ n \in 1 .. Size + 1
  BY HeldIs
<1>2. head' = Wrap(head + n) /\ tail' = Wrap(tail + e)
  BY WriteIs
<1>3. e = (IF n > Size - 1 - h THEN n - (Size - 1 - h) ELSE 0)
  BY DEF Excess
<1> HIDE DEF e, h
<1>4. e \in 0 .. Size + 1 /\ (h + n <= Size - 1 => e = 0) /\ (h + n > Size - 1 => h + n - e = Size - 1)
  BY <1>1, <1>3
<1>5. head + n \in -Size .. 3 * Size - 1 /\ tail + e \in -Size .. 3 * Size - 1
  BY <1>1, <1>4
<1>6. /\ head' = Rounded(head + n) /\ tail' = Rounded(tail + e)
      /\ head' \in 0 .. Size - 1 /\ tail' \in 0 .. Size - 1
  BY <1>2, <1>5, WrapIs
<1>7. Held' = IF head' >= tail' THEN head' - tail' ELSE head' - tail' + Size
  <2>1. CIRC_CNT(head', tail') = IF head' >= tail' THEN head' - tail' ELSE head' - tail' + Size
    BY <1>6, CountIs
  <2> QED  BY <2>1 DEF Held, CIRC_CNT, Wrap
<1>8. head' = head + n \/ head' = head + n - Size \/ head' = head + n - 2 * Size
  BY <1>1, <1>6 DEF Rounded
<1>9. tail' = tail + e \/ tail' = tail + e - Size \/ tail' = tail + e - 2 * Size
  BY <1>1, <1>4, <1>6 DEF Rounded
<1>10. h + n - e \in 0 .. Size - 1
  BY <1>1, <1>4
<1>11. Held' = h + n - e
  BY <1>1, <1>4, <1>6, <1>7, <1>8, <1>9, <1>10
<1> QED  BY <1>4, <1>6, <1>10, <1>11 DEF e, h

LEMMA WriteNew ==
    ASSUME RingTypes, NEW n \in 1 .. MaxWrite, write_circbuf(n),
           NEW j \in 1 .. n, j > n - Size
    PROVE  bytes'[Wrap(head + j - 1)] = total + j
<1> DEFINE p == Wrap(head + j - 1)
<1>1. head \in 0 .. Size - 1 /\ total \in Nat /\ n \in 1 .. Size + 1
  BY DEF RingTypes
<1>2. head + j - 1 \in -Size .. 3 * Size - 1
  BY <1>1
<1>3. p = Rounded(head + j - 1) /\ p \in 0 .. Size - 1
  BY <1>2, WrapIs
<1> HIDE DEF p
<1>4. p = head + j - 1 \/ p = head + j - 1 - Size
  BY <1>1, <1>3 DEF Rounded
<1>5. bytes'[p] = IF p + Size < head + n THEN total + 1 + (p + Size - head)
                  ELSE IF p >= head /\ p < head + n THEN total + 1 + (p - head) ELSE bytes[p]
  BY <1>3, WriteIs
<1>6. bytes'[p] = total + j
  <2>1. CASE p = head + j - 1
    BY <1>1, <1>5, <2>1
  <2>2. CASE p = head + j - 1 - Size
    BY <1>1, <1>5, <2>2
  <2> QED  BY <1>4, <2>1, <2>2
<1> QED  BY <1>6 DEF p

LEMMA WriteKeeps ==
    ASSUME RingTypes, NEW n \in 1 .. MaxWrite, write_circbuf(n),
           NEW j \in Excess(n) + 1 .. Held
    PROVE  bytes'[Wrap(tail + j - 1)] = bytes[Wrap(tail + j - 1)]
<1> DEFINE p == Wrap(tail + j - 1)
           h == Held
<1>1. /\ head \in 0 .. Size - 1 /\ tail \in 0 .. Size - 1 /\ h \in 0 .. Size - 1
      /\ head - tail = h \/ head - tail = h - Size
      /\ n \in 1 .. Size + 1
  BY HeldIs
<1>2. j \in 1 .. h /\ j > h + n - (Size - 1)
  BY <1>1, WriteCount DEF Excess
<1> HIDE DEF h
<1>3. tail + j - 1 \in -Size .. 3 * Size - 1
  BY <1>1, <1>2
<1>4. p = Rounded(tail + j - 1) /\ p \in 0 .. Size - 1
  BY <1>3, WrapIs
<1> HIDE DEF p
<1>5. p = tail + j - 1 \/ p = tail + j - 1 - Size
  BY <1>1, <1>2, <1>4 DEF Rounded
<1>6. ~(p + Size < head + n) /\ ~(p >= head /\ p < head + n)
  BY <1>1, <1>2, <1>4, <1>5
<1>7. bytes'[p] = IF p + Size < head + n THEN total + 1 + (p + Size - head)
                  ELSE IF p >= head /\ p < head + n THEN total + 1 + (p - head) ELSE bytes[p]
  BY <1>4, WriteIs
<1> QED  BY <1>6, <1>7 DEF p

LEMMA SeqEqual ==
    ASSUME NEW S, NEW s \in Seq(S), NEW t \in Seq(S), Len(s) = Len(t),
           \A i \in 1 .. Len(s) : s[i] = t[i]
    PROVE  s = t
OBVIOUS

(* A place of the ring counted from another place of it.                   *)
LEMMA OffsetIs ==
    ASSUME NEW a \in 0 .. Size - 1, NEW b \in 0 .. 2 * Size, NEW c \in -1 .. Size - 1,
           a + b + c <= 3 * Size - 1
    PROVE  Wrap(Wrap(a + b) + c) = Wrap(a + b + c)
<1>1. Wrap(a + b) = Rounded(a + b) /\ Wrap(a + b) \in 0 .. Size - 1
  BY WrapIs
<1> DEFINE w == Wrap(a + b)
<1> HIDE DEF w
<1>2. Wrap(w + c) = Rounded(w + c) /\ Wrap(a + b + c) = Rounded(a + b + c)
      /\ w = Rounded(a + b) /\ w \in 0 .. Size - 1
      /\ Rounded(w + c) \in 0 .. Size - 1 /\ Rounded(a + b + c) \in 0 .. Size - 1
  BY <1>1, WrapIs DEF w
<1>3. w = a + b \/ w = a + b - Size \/ w = a + b - 2 * Size
  BY <1>2 DEF Rounded
<1>4. Rounded(w + c) \in {w + c + Size, w + c, w + c - Size, w + c - 2 * Size}
  BY <1>2 DEF Rounded
<1>5. Rounded(a + b + c) \in {a + b + c + Size, a + b + c, a + b + c - Size, a + b + c - 2 * Size}
  BY DEF Rounded
<1>6. Rounded(w + c) = Rounded(a + b + c)
  BY <1>2, <1>3, <1>4, <1>5
<1> QED  BY <1>2, <1>6 DEF w

LEMMA ContentIs ==
    ASSUME RingTypes
    PROVE  /\ Content \in Seq(Nat) /\ Len(Content) = Held
           /\ \A j \in 1 .. Held : Content[j] = bytes[Wrap(tail + j - 1)]
<1>1. Held \in 0 .. Size - 1 /\ tail \in 0 .. Size - 1 /\ bytes \in [0 .. Size - 1 -> Nat]
  BY HeldIs DEF RingTypes
<1>2. Content = [j \in 1 .. Held |-> bytes[Wrap(tail + j - 1)]]
  BY DEF Content, Held
<1>3. ASSUME NEW j \in 1 .. Held PROVE bytes[Wrap(tail + j - 1)] \in Nat
  <2>1. tail + j - 1 \in -Size .. 3 * Size - 1
    BY <1>1
  <2>2. Wrap(tail + j - 1) \in 0 .. Size - 1
    BY <2>1, WrapIs
  <2> QED  BY <1>1, <2>2
<1> QED  BY <1>1, <1>2, <1>3

LEMMA ContentNext == RingTypes' =>
    /\ Content' \in Seq(Nat) /\ Len(Content') = Held'
    /\ \A j \in 1 .. Held' : Content'[j] = bytes'[Wrap(tail' + j - 1)]
<1>1. RingTypes =>
        /\ Content \in Seq(Nat) /\ Len(Content) = Held
        /\ \A j \in 1 .. Held : Content[j] = bytes[Wrap(tail + j - 1)]
  BY ContentIs
<1>2. (RingTypes =>
        /\ Content \in Seq(Nat) /\ Len(Content) = Held
        /\ \A j \in 1 .. Held : Content[j] = bytes[Wrap(tail + j - 1)])'
  BY <1>1, PTL
<1> QED  BY <1>2 DEF Wrap

LEMMA Beginning ==
    ASSUME NEW S, NEW s \in Seq(S), NEW n \in 0 .. Len(s)
    PROVE  /\ SubSeq(s, 1, n) \in Seq(S) /\ Len(SubSeq(s, 1, n)) = n
           /\ \A i \in 1 .. n : SubSeq(s, 1, n)[i] = s[i]
OBVIOUS

LEMMA JoinIs ==
    ASSUME NEW S, NEW s \in Seq(S), NEW t \in Seq(S),
           NEW a \in Nat, NEW b \in Nat, Len(s) = a, Len(t) = b
    PROVE  /\ s \o t \in Seq(S) /\ Len(s \o t) = a + b
           /\ \A i \in 1 .. a : (s \o t)[i] = s[i]
           /\ \A i \in 1 .. b : (s \o t)[a + i] = t[i]
<1>1. s \o t \in Seq(S) /\ Len(s \o t) = a + b /\ \A i \in 1 .. a : (s \o t)[i] = s[i]
  OBVIOUS
<1>2. ASSUME NEW i \in 1 .. b PROVE (s \o t)[a + i] = t[i]
  <2>1. a + i \in a + 1 .. a + b /\ a + i - a = i
    OBVIOUS
  <2> QED  BY <2>1
<1> QED  BY <1>1, <1>2

LEMMA RoundedSame ==
    ASSUME NEW x \in 0 .. 3 * Size - 1, NEW y \in 0 .. 2 * Size - 1, y = x \/ y = x - Size
    PROVE  Rounded(x) = Rounded(y)
<1>1. CASE y = x
  BY <1>1
<1>2. CASE y = x - Size
  BY <1>2 DEF Rounded
<1> QED  BY <1>1, <1>2

(* A text of n bytes is a Write of DropOldest.                             *)
LEMMA WriteDrops ==
    ASSUME RingTypes, NEW n \in 1 .. MaxWrite, write_circbuf(n)
    PROVE  RingTypes' /\ Queue!Write
<1> DEFINE new == [j \in 1 .. n |-> total + j]
           w   == Content \o new
           e   == Excess(n)
           cap == Size - 1
<1>1. /\ head' \in 0 .. Size - 1 /\ tail' \in 0 .. Size - 1 /\ total' = total + n /\ got' = got
      /\ bytes' \in [0 .. Size - 1 -> Nat]
      /\ e \in Nat /\ Held' = Held + n - e /\ Held' \in 0 .. Size - 1
      /\ Held + n <= Size - 1 => e = 0
      /\ Held + n > Size - 1 => Held' = Size - 1
  BY WriteIs, WriteCount
<1>2. /\ head \in 0 .. Size - 1 /\ tail \in 0 .. Size - 1 /\ Held \in 0 .. Size - 1
      /\ head - tail = Held \/ head - tail = Held - Size
      /\ n \in 1 .. Size + 1 /\ total \in Nat
  BY HeldIs DEF RingTypes
<1>3. RingTypes'
  <2>1. got \in Seq(Nat) /\ total' \in Nat
    BY <1>1, <1>2 DEF RingTypes
  <2> QED  BY <1>1, <2>1 DEF RingTypes
<1>4. new \in Seq(Nat) /\ Len(new) = n /\ \A j \in 1 .. n : new[j] = total + j
  BY <1>2
<1>5. /\ w \in Seq(Nat) /\ Len(w) = Held + n
      /\ \A j \in 1 .. Held : w[j] = Content[j]
      /\ \A j \in 1 .. n : w[Held + j] = total + j
  <2> HIDE DEF new
  <2>1. Content \in Seq(Nat) /\ Len(Content) = Held
    BY ContentIs
  <2>2. /\ Content \o new \in Seq(Nat) /\ Len(Content \o new) = Held + n
        /\ \A j \in 1 .. Held : (Content \o new)[j] = Content[j]
        /\ \A j \in 1 .. n : (Content \o new)[Held + j] = new[j]
    <3>1. n \in Nat /\ Held \in Nat
      BY <1>2
    <3> QED  BY <1>4, <2>1, <3>1, JoinIs
  <2> QED  BY <1>4, <2>2
<1> HIDE DEF new, w, e
<1>6. ASSUME NEW i \in 1 .. Held' PROVE Content'[i] = w[e + i]
  <2>1. e + i \in 1 .. Held + n /\ e <= Held + 2
    BY <1>1, <1>2
  <2>2. Content'[i] = bytes'[Wrap(tail' + i - 1)]
    BY <1>3, ContentNext
  <2>3. Wrap(tail' + i - 1) = Wrap(tail + (e + i) - 1)
    <3>1. tail' = Wrap(tail + e)
      BY WriteIs DEF e
    <3>2. e \in 0 .. 2 * Size /\ i - 1 \in -1 .. Size - 1 /\ tail + e + (i - 1) <= 3 * Size - 1
      BY <1>1, <1>2, <2>1
    <3>3. Wrap(Wrap(tail + e) + (i - 1)) = Wrap(tail + e + (i - 1))
      BY <1>2, <3>2, OffsetIs
    <3>4. tail' + i - 1 = tail' + (i - 1) /\ tail + (e + i) - 1 = tail + e + (i - 1)
      BY <1>1, <1>2
    <3> QED  BY <3>1, <3>3, <3>4
  <2>4. CASE e + i <= Held
    <3>1. e + i \in e + 1 .. Held /\ e + i \in 1 .. Held /\ e = Excess(n)
      <4>1. e = Excess(n)
        BY DEF e
      <4>2. i \in Nat \ {0} /\ e \in Nat /\ Held \in Nat
        BY <1>1, <1>2
      <4>3. e + i \in e + 1 .. Held /\ e + i \in 1 .. Held
        BY <2>4, <4>2
      <4> QED  BY <4>1, <4>3
    <3>2. bytes'[Wrap(tail + (e + i) - 1)] = bytes[Wrap(tail + (e + i) - 1)]
      BY <3>1, WriteKeeps
    <3>3. Content[e + i] = bytes[Wrap(tail + (e + i) - 1)]
      BY <3>1, ContentIs
    <3> QED  BY <1>5, <2>2, <2>3, <3>1, <3>2, <3>3
  <2>5. CASE e + i > Held
    <3> DEFINE j == e + i - Held
    <3>1. j \in 1 .. n /\ j > n - Size /\ e + i = Held + j
      BY <1>1, <1>2, <2>1, <2>5
    <3> HIDE DEF j
    <3>2. Wrap(tail + (e + i) - 1) = Wrap(head + j - 1)
      <4>1. tail + (e + i) - 1 \in -Size .. 3 * Size - 1 /\ head + j - 1 \in -Size .. 3 * Size - 1
        BY <1>1, <1>2, <3>1
      <4>2. /\ Wrap(tail + (e + i) - 1) = Rounded(tail + (e + i) - 1)
            /\ Wrap(head + j - 1) = Rounded(head + j - 1)
        BY <4>1, WrapIs
      <4> DEFINE x == tail + (e + i) - 1
                 y == head + j - 1
      <4>3. y = x \/ y = x - Size
        BY <1>1, <1>2, <3>1
      <4>4. x \in 0 .. 3 * Size - 1 /\ y \in 0 .. 2 * Size - 1
        BY <1>1, <1>2, <3>1
      <4> HIDE DEF x, y
      <4>5. Rounded(x) = Rounded(y)
        BY <4>3, <4>4, RoundedSame
      <4> QED  BY <4>2, <4>5 DEF x, y
    <3>3. bytes'[Wrap(head + j - 1)] = total + j
      BY <3>1, WriteNew
    <3> QED  BY <1>5, <2>2, <2>3, <3>1, <3>2, <3>3
  <2> QED  BY <1>1, <1>2, <2>1, <2>4, <2>5
<1>7. Content' = Queue!Last(w, cap)
  <2>1. Content' \in Seq(Nat) /\ Len(Content') = Held'
    BY <1>3, ContentNext
  <2>2. CASE Len(w) <= cap
    <3>1. e = 0 /\ Held' = Len(w)
      BY <1>1, <1>2, <1>5, <2>2
    <3>2. \A i \in 1 .. Len(w) : Content'[i] = w[i]
      BY <1>6, <3>1
    <3>3. Content' = w
      BY <1>5, <2>1, <3>1, <3>2, SeqEqual
    <3> QED  BY <2>2, <3>3 DEF Queue!Last
  <2>3. CASE ~(Len(w) <= cap)
    <3>1. Held' = cap /\ Len(w) - cap = e /\ e + 1 \in 1 .. Len(w) + 1 /\ Len(w) \in Nat
      BY <1>1, <1>2, <1>5, <2>3
    <3>2. /\ SubSeq(w, e + 1, Len(w)) \in Seq(Nat) /\ Len(SubSeq(w, e + 1, Len(w))) = cap
          /\ \A i \in 1 .. cap : SubSeq(w, e + 1, Len(w))[i] = w[e + i]
      <4>1. e \in 0 .. Len(w) /\ Len(w) - e = cap
        BY <1>1, <3>1
      <4>2. /\ SubSeq(w, e + 1, Len(w)) \in Seq(Nat) /\ Len(SubSeq(w, e + 1, Len(w))) = cap
            /\ \A i \in 1 .. cap : SubSeq(w, e + 1, Len(w))[i] = w[i + e]
        <5>1. LET r == SubSeq(w, e + 1, Len(w))
              IN  /\ r \in Seq(Nat) /\ Len(r) = Len(w) - e
                  /\ \A i \in 1 .. Len(r) : r[i] = w[i + e]
          BY <1>5, <4>1, Rest
        <5> HIDE DEF cap
        <5> QED  BY <4>1, <5>1
      <4>3. \A i \in 1 .. cap : i + e = e + i
        BY <1>1
      <4> QED  BY <4>2, <4>3
    <3> DEFINE r == SubSeq(w, e + 1, Len(w))
    <3>3. Content' = r
      <4> HIDE DEF r, cap
      <4>1. r \in Seq(Nat) /\ Len(r) = Len(Content') /\ Content' \in Seq(Nat)
        BY <2>1, <3>1, <3>2 DEF r
      <4>2. \A i \in 1 .. Len(Content') : Content'[i] = r[i]
        BY <1>6, <2>1, <3>1, <3>2 DEF r
      <4> QED  BY <4>1, <4>2, SeqEqual
    <3> QED  BY <2>3, <3>1, <3>3 DEF Queue!Last
  <2> QED  BY <2>2, <2>3
<1> QED  BY <1>1, <1>3, <1>7 DEF Queue!Write, w, new

LEMMA TakenIs ==
    ASSUME RingTypes, NEW at \in Nat, NEW m \in Nat, at + m <= Size
    PROVE  /\ Taken(at, m) \in Seq(Nat) /\ Len(Taken(at, m)) = m
           /\ \A i \in 1 .. m : Taken(at, m)[i] = bytes[at + i - 1]
<1>1. bytes \in [0 .. Size - 1 -> Nat]
  BY DEF RingTypes
<1>2. \A i \in 1 .. m : at + i - 1 \in 0 .. Size - 1
  OBVIOUS
<1>3. \A i \in 1 .. m : bytes[at + i - 1] \in Nat
  BY <1>1, <1>2
<1> QED  BY <1>3 DEF Taken

(* A read takes the oldest bytes, in one piece or in two.                  *)
LEMMA ReadIs ==
    ASSUME RingTypes, NEW n \in Nat \ {0}, read_circbuf(n), NEW r, r = Least(n, Held)
    PROVE  /\ tail' = Wrap(tail + r) /\ UNCHANGED <<bytes, head, total>>
           /\ got' \in Seq(Nat) /\ Len(got') = r
           /\ \A i \in 1 .. r : got'[i] = bytes[Wrap(tail + i - 1)]
<1> DEFINE rdlen  == Least(n, CIRC_CNT(head, tail))
           first  == Least(rdlen, CIRC_CNT_TO_END(head, tail))
           mid    == Wrap(tail + first)
           second == Least(rdlen - first, CIRC_CNT_TO_END(head, mid))
<1>1. /\ got' = Taken(tail, first) \o Taken(mid, second)
      /\ tail' = Wrap(mid + second) /\ UNCHANGED <<bytes, head, total>>
  BY DEF read_circbuf
<1>2. /\ head \in 0 .. Size - 1 /\ tail \in 0 .. Size - 1 /\ Held \in 0 .. Size - 1
      /\ Held = IF head >= tail THEN head - tail ELSE head - tail + Size
  BY HeldIs
<1>3. r = rdlen /\ r \in 0 .. Held
  BY <1>2 DEF Held, Least
<1> HIDE DEF rdlen
<1>4. /\ first = (IF head < tail /\ r > Size - tail THEN Size - tail ELSE r)
      /\ first \in 0 .. r /\ tail + first <= Size
  <2>1. CIRC_CNT_TO_END(head, tail) = IF head >= tail THEN head - tail ELSE Size - tail
    BY <1>2, CountIs
  <2> QED  BY <1>2, <1>3, <2>1 DEF Least
<1>5. mid = Rounded(tail + first) /\ mid \in 0 .. Size - 1
  <2>1. tail + first \in -Size .. 3 * Size - 1
    BY <1>2, <1>3, <1>4
  <2> HIDE DEF first
  <2> QED  BY <2>1, WrapIs
<1>6. CIRC_CNT_TO_END(head, mid) = IF head >= mid THEN head - mid ELSE Size - mid
  <2> HIDE DEF mid
  <2> QED  BY <1>2, <1>5, CountIs
<1> HIDE DEF first
<1>7. second = r - first /\ mid + second <= Size /\ (second > 0 => mid = 0 /\ tail + first = Size)
  <2>1. second = Least(r - first, CIRC_CNT_TO_END(head, mid))
    BY <1>3
  <2> HIDE DEF mid, second
  <2>2. CASE head < tail /\ r > Size - tail
    <3>1. first = Size - tail /\ tail + first = Size /\ mid = 0
      BY <1>2, <1>4, <1>5, <2>2 DEF Rounded
    <3>2. CIRC_CNT_TO_END(head, mid) = head /\ r - first <= head
      BY <1>2, <1>3, <1>6, <2>2, <3>1
    <3> QED  BY <1>2, <1>3, <2>1, <2>2, <3>1, <3>2 DEF Least
  <2>3. CASE ~(head < tail /\ r > Size - tail)
    <3>1. first = r /\ r - first = 0
      BY <1>3, <1>4, <2>3
    <3>2. CIRC_CNT_TO_END(head, mid) >= 0 /\ CIRC_CNT_TO_END(head, mid) \in Int
      BY <1>2, <1>5, <1>6
    <3>3. second = 0
      BY <2>1, <3>1, <3>2 DEF Least
    <3> QED  BY <1>5, <3>1, <3>3
  <2> QED  BY <2>2, <2>3
<1> HIDE DEF mid, second
<1>8. tail' = Wrap(tail + r)
  <2>1. mid + second \in -Size .. 3 * Size - 1 /\ tail + r \in -Size .. 3 * Size - 1
    BY <1>2, <1>3, <1>4, <1>5, <1>7
  <2>2. tail' = Rounded(mid + second) /\ Wrap(tail + r) = Rounded(tail + r)
    BY <1>1, <2>1, WrapIs
  <2>3. Rounded(mid + second) = Rounded(tail + r)
    <3>1. CASE second > 0
      BY <1>2, <1>3, <1>4, <1>5, <1>7, <3>1 DEF Rounded
    <3>2. CASE ~(second > 0)
      <4>1. second = 0 /\ first = r /\ mid + second = mid
        BY <1>3, <1>4, <1>5, <1>7, <3>2
      <4>2. Rounded(mid) = mid
        BY <1>5 DEF Rounded
      <4> QED  BY <1>5, <4>1, <4>2
    <3> QED  BY <3>1, <3>2
  <2> QED  BY <2>2, <2>3
<1>9. /\ Taken(tail, first) \in Seq(Nat) /\ Len(Taken(tail, first)) = first
      /\ \A i \in 1 .. first : Taken(tail, first)[i] = bytes[tail + i - 1]
      /\ Taken(mid, second) \in Seq(Nat) /\ Len(Taken(mid, second)) = second
      /\ \A i \in 1 .. second : Taken(mid, second)[i] = bytes[mid + i - 1]
      /\ first \in Nat /\ second \in Nat
  <2>1. tail \in Nat /\ first \in Nat /\ mid \in Nat /\ second \in Nat
    BY <1>2, <1>3, <1>4, <1>5, <1>7
  <2> QED  BY <1>4, <1>7, <2>1, TakenIs
<1>10. /\ got' \in Seq(Nat) /\ Len(got') = first + second
       /\ \A i \in 1 .. first : got'[i] = Taken(tail, first)[i]
       /\ \A i \in 1 .. second : got'[first + i] = Taken(mid, second)[i]
  <2> DEFINE upper == Taken(tail, first)
             lower == Taken(mid, second)
  <2>1. got' = upper \o lower
    BY <1>1
  <2>2. upper \in Seq(Nat) /\ Len(upper) = first /\ lower \in Seq(Nat) /\ Len(lower) = second
        /\ first \in Nat /\ second \in Nat
    BY <1>9
  <2> HIDE DEF upper, lower
  <2>3. /\ upper \o lower \in Seq(Nat) /\ Len(upper \o lower) = first + second
        /\ \A i \in 1 .. first : (upper \o lower)[i] = upper[i]
        /\ \A i \in 1 .. second : (upper \o lower)[first + i] = lower[i]
    <3>1. ASSUME NEW i \in 1 .. first PROVE (upper \o lower)[i] = upper[i]
      BY <2>2
    <3>2. ASSUME NEW i \in 1 .. second PROVE (upper \o lower)[first + i] = lower[i]
      <4>1. first + i \in first + 1 .. first + second /\ first + i - first = i
        BY <2>2
      <4> QED  BY <2>2, <4>1
    <3>3. upper \o lower \in Seq(Nat) /\ Len(upper \o lower) = first + second
      BY <2>2
    <3> QED  BY <3>1, <3>2, <3>3
  <2> QED  BY <2>1, <2>3 DEF upper, lower
<1>11. ASSUME NEW i \in 1 .. r PROVE got'[i] = bytes[Wrap(tail + i - 1)]
  <2>1. tail + i - 1 \in -Size .. 3 * Size - 1
    BY <1>2, <1>3
  <2>2. Wrap(tail + i - 1) = Rounded(tail + i - 1)
    BY <2>1, WrapIs
  <2>3. CASE i <= first
    <3>1. i \in 1 .. first /\ Rounded(tail + i - 1) = tail + i - 1
      BY <1>2, <1>4, <2>3 DEF Rounded
    <3> QED  BY <1>9, <1>10, <2>2, <3>1
  <2>4. CASE ~(i <= first)
    <3> DEFINE m == i - first
    <3>1. m \in 1 .. second /\ i = first + m
      BY <1>3, <1>4, <1>7, <2>4
    <3> DEFINE x == tail + i - 1
    <3>2. mid + m - 1 = x - Size /\ x \in Size .. 2 * Size - 1
      BY <1>2, <1>3, <1>4, <1>7, <3>1
    <3> HIDE DEF m, x
    <3>3. Rounded(x) = mid + m - 1
      BY <3>2 DEF Rounded
    <3>4. got'[first + m] = bytes[mid + m - 1]
      BY <1>9, <1>10, <3>1
    <3> QED  BY <2>2, <3>1, <3>3, <3>4 DEF x
  <2> QED  BY <1>3, <1>4, <2>3, <2>4
<1>12. Len(got') = r
  BY <1>3, <1>4, <1>7, <1>10
<1> QED  BY <1>1, <1>8, <1>10, <1>11, <1>12

(* A read of up to n bytes is a Read of DropOldest.                        *)
LEMMA ReadDrops ==
    ASSUME RingTypes, NEW n \in 1 .. MaxRead, read_circbuf(n)
    PROVE  RingTypes' /\ Queue!Read
<1> DEFINE r == Least(n, Held)
<1>1. /\ tail' = Wrap(tail + r) /\ UNCHANGED <<bytes, head, total>>
      /\ got' \in Seq(Nat) /\ Len(got') = r
      /\ \A i \in 1 .. r : got'[i] = bytes[Wrap(tail + i - 1)]
  <2>1. n \in Nat \ {0}
    OBVIOUS
  <2> QED  BY <2>1, ReadIs
<1>2. /\ head \in 0 .. Size - 1 /\ tail \in 0 .. Size - 1 /\ Held \in 0 .. Size - 1
      /\ head - tail = Held \/ head - tail = Held - Size
  BY HeldIs
<1>3. r = (IF n < Held THEN n ELSE Held) /\ r \in 0 .. Held
  BY <1>2 DEF Least
<1> HIDE DEF r
<1>4. tail + r \in -Size .. 3 * Size - 1
  BY <1>2, <1>3
<1>5. tail' = Rounded(tail + r) /\ tail' \in 0 .. Size - 1
  BY <1>1, <1>4, WrapIs
<1>6. RingTypes'
  BY <1>1, <1>5 DEF RingTypes
<1>7. Held' = Held - r
  <2>1. CIRC_CNT(head, tail') = IF head >= tail' THEN head - tail' ELSE head - tail' + Size
    BY <1>2, <1>5, CountIs
  <2>2. Held' = CIRC_CNT(head, tail')
    BY <1>1 DEF Held, CIRC_CNT, Wrap
  <2>3. tail' = tail + r \/ tail' = tail + r - Size
    BY <1>2, <1>3, <1>5 DEF Rounded
  <2> QED  BY <1>2, <1>3, <1>5, <2>1, <2>2, <2>3
<1>8. /\ Content \in Seq(Nat) /\ Len(Content) = Held
      /\ \A i \in 1 .. Held : Content[i] = bytes[Wrap(tail + i - 1)]
  BY ContentIs
<1>9. /\ Content' \in Seq(Nat) /\ Len(Content') = Held - r
      /\ \A i \in 1 .. Held - r : Content'[i] = bytes[Wrap(tail' + i - 1)]
  BY <1>1, <1>6, <1>7, ContentNext
<1>10. ASSUME NEW i \in 1 .. Held - r PROVE Content'[i] = Content[i + r]
  <2>1. r \in 0 .. 2 * Size /\ i - 1 \in -1 .. Size - 1 /\ tail + r + (i - 1) <= 3 * Size - 1
    BY <1>2, <1>3
  <2>2. Wrap(Wrap(tail + r) + (i - 1)) = Wrap(tail + r + (i - 1))
    BY <1>2, <2>1, OffsetIs
  <2>3. tail' + i - 1 = tail' + (i - 1) /\ tail + (i + r) - 1 = tail + r + (i - 1) /\ i + r \in 1 .. Held
    BY <1>2, <1>3, <1>5
  <2>4. Content'[i] = bytes[Wrap(tail' + (i - 1))]
    BY <1>9, <2>3
  <2>5. Content[i + r] = bytes[Wrap(tail + r + (i - 1))]
    BY <1>8, <2>3
  <2> QED  BY <1>1, <2>2, <2>4, <2>5
<1>11. got' = Queue!First(Content, n)
  <2>1. CASE Len(Content) <= n
    <3>1. r = Held
      BY <1>2, <1>3, <1>8, <2>1
    <3>2. got' = Content
      BY <1>1, <1>8, <3>1, SeqEqual
    <3> QED  BY <2>1, <3>2 DEF Queue!First
  <2>2. CASE ~(Len(Content) <= n)
    <3>1. r = n /\ n \in 1 .. Held
      BY <1>2, <1>3, <1>8, <2>2
    <3>2. SubSeq(Content, 1, n) \in Seq(Nat) /\ Len(SubSeq(Content, 1, n)) = n
          /\ \A i \in 1 .. n : SubSeq(Content, 1, n)[i] = Content[i]
      BY <1>8, <3>1, Beginning
    <3> DEFINE q == SubSeq(Content, 1, n)
    <3>3. got' = q
      <4>1. \A i \in 1 .. n : q[i] = Content[i]
        BY <3>2
      <4>2. q \in Seq(Nat) /\ Len(q) = n /\ Len(got') = n
        BY <1>1, <3>1, <3>2
      <4> HIDE DEF q
      <4>3. ASSUME NEW i \in 1 .. n PROVE got'[i] = q[i]
        <5>1. i \in 1 .. Held /\ i \in 1 .. r
          BY <1>2, <3>1
        <5>2. got'[i] = bytes[Wrap(tail + i - 1)] /\ Content[i] = bytes[Wrap(tail + i - 1)]
          BY <1>1, <1>8, <5>1
        <5> QED  BY <4>1, <5>2
      <4> QED  BY <1>1, <4>2, <4>3, SeqEqual
    <3> QED  BY <2>2, <3>3 DEF Queue!First
  <2> QED  BY <2>1, <2>2
<1>12. Content' = SubSeq(Content, Len(got') + 1, Len(Content))
  <2> DEFINE q == SubSeq(Content, r + 1, Len(Content))
  <2>1. /\ q \in Seq(Nat) /\ Len(q) = Held - r
        /\ \A i \in 1 .. Len(q) : q[i] = Content[i + r]
    <3>1. r \in 0 .. Len(Content)
      BY <1>3, <1>8
    <3>2. q \in Seq(Nat) /\ Len(q) = Len(Content) - r
      BY <1>8, <3>1
    <3>3. \A i \in 1 .. Len(Content) - r : q[i] = Content[i + r]
      BY <1>8, <3>1
    <3> HIDE DEF q
    <3> QED  BY <1>8, <3>2, <3>3
  <2>2. q = SubSeq(Content, Len(got') + 1, Len(Content))
    BY <1>1
  <2> HIDE DEF q
  <2>3. Content' = q
    <3>1. Len(Content') = Len(q) /\ \A i \in 1 .. Len(Content') : Content'[i] = q[i]
      BY <1>9, <1>10, <2>1
    <3> QED  BY <1>9, <2>1, <3>1, SeqEqual
  <2> QED  BY <2>2, <2>3
<1> QED  BY <1>1, <1>6, <1>11, <1>12 DEF Queue!Read

LEMMA InitDrops == RingInit => RingTypes /\ Queue!Init
<1> SUFFICES ASSUME RingInit PROVE RingTypes /\ Queue!Init
  OBVIOUS
<1>1. 0 \in 0 .. Size - 1
  OBVIOUS
<1>2. RingTypes
  BY <1>1 DEF RingInit, RingTypes
<1>3. Held = 0
  BY <1>1, CountIs DEF RingInit, Held
<1>4. Content = <<>>
  BY <1>2, <1>3, ContentIs
<1> QED  BY <1>2, <1>4 DEF RingInit, Queue!Init

LEMMA NextDrops == RingTypes /\ [RingNext]_ringVars => RingTypes' /\ [Queue!Next]_(Queue!vars)
<1> SUFFICES ASSUME RingTypes, [RingNext]_ringVars PROVE RingTypes' /\ [Queue!Next]_(Queue!vars)
  OBVIOUS
<1>1. CASE WriteRing
  BY <1>1, WriteDrops DEF WriteRing, Queue!Next
<1>2. CASE ReadRing
  BY <1>2, ReadDrops DEF ReadRing, Queue!Next
<1>3. CASE UNCHANGED ringVars
  <2>1. Content' = Content
    BY <1>3 DEF ringVars, Content, CIRC_CNT, Wrap
  <2>2. RingTypes'
    BY <1>3 DEF ringVars, RingTypes
  <2> QED  BY <1>3, <2>1, <2>2 DEF ringVars, Queue!vars
<1> QED  BY <1>1, <1>2, <1>3 DEF RingNext

(* The ring of log_print.c and its copy in console.c are a queue of Size   *)
(* - 1 bytes: what is read is what was written, in order, whichever way    *)
(* texts and reads wrap around; only the oldest bytes are ever missing,    *)
(* and only when a text did not fit.                                       *)
THEOREM LogRingIsQueue == RingSpec => DropsOldestOnly
<1>1. RingSpec => []RingTypes
  BY InitDrops, NextDrops, PTL DEF RingSpec
<1>2. RingSpec => Queue!Spec
  BY <1>1, InitDrops, NextDrops, PTL DEF RingSpec, Queue!Spec
<1> QED  BY <1>1, <1>2 DEF DropsOldestOnly
=============================================================================
