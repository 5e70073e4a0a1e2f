-------------------------- MODULE TraceStoreProofs --------------------------
(***************************************************************************)
(* Theorems about TraceStore.tla, for every set of puts, however often the *)
(* process dies and whichever calls the disk fails.                        *)
(***************************************************************************)
EXTENDS TraceStore, TLAPS

-----------------------------------------------------------------------------
(* The inductive invariant *)

\* The put has a temp file of its own.
Live(w) == pc[w] \in {"write", "rename"}

\* A live put's temp file is there, under a name that this process drew and no
\* other live put has, and is complete once the put may rename it.
TempInv ==
  \A w \in Writers : Live(w) =>
    /\ temp[w] \in DOMAIN temps
    /\ temp[w][2] = pid /\ temp[w][3] \in Nat /\ temp[w][3] < counter
    /\ pc[w] = "rename" => temps[temp[w]] = Put(w).content
    /\ \A v \in Writers : Live(v) /\ temp[v] = temp[w] => v = w

\* Nothing is under the name of a trace before its put has returned Ok, and a put
\* that found a file was right.
FileInv ==
  \A w \in Writers :
    /\ pc[w] = "ok" \/ (pc[w] \in {"exists", "conflict"}) => files[PathOf(w)] # NoContent
    /\ pc[w] # "ok" /\ Put(w).kind = "trace" => files[PathOf(w)] = NoContent

\* As long as no process gets the id of an earlier one, every temp file was named
\* by an earlier process or by an earlier value of the counter.
NameInv ==
  ~ReusePids =>
    /\ pid \in usedPids
    /\ \A t \in DOMAIN temps : t[2] \in usedPids /\ t[3] \in Nat /\ (t[2] = pid => t[3] < counter)
    /\ \A w \in Writers : pc[w] = "io_error" => w \in diskFailed

StoreInv ==
  /\ TypeOK
  /\ NoTornFile
  /\ AcknowledgedPutsAreKept
  /\ TempInv /\ FileInv /\ NameInv

-----------------------------------------------------------------------------
(* The temp files *)

\* A name drawn now is not the name of a live put, of this process or another.
LEMMA DrawnNameIsNew ==
  ASSUME StoreInv, NEW w \in Writers
  PROVE  /\ TempName(w)[2] = pid /\ TempName(w)[3] = counter /\ counter \in Nat
         /\ \A v \in Writers : Live(v) => temp[v] # TempName(w)
         /\ ~ReusePids => TempName(w) \notin DOMAIN temps
<1>1. TempName(w)[2] = pid /\ TempName(w)[3] = counter /\ counter \in Nat
  BY DEF StoreInv, TypeOK, TempName
<1>2. \A v \in Writers : Live(v) => temp[v][3] \in Nat /\ temp[v][3] < counter
  BY DEF StoreInv, TempInv
<1>3. ~ReusePids => \A t \in DOMAIN temps : t[2] = pid => t[3] < counter
  BY DEF StoreInv, NameInv
<1> QED
  BY <1>1, <1>2, <1>3

\* The types a step may disturb, by what it does to the files.
FileTypes == files \in [Paths -> Contents]
TempTypes ==
  /\ DOMAIN temps \subseteq TempNames /\ temps \in [DOMAIN temps -> Contents]
  /\ temp \in [Writers -> TempNames \cup {NoTemp}]

LEMMA NamesAreTempNames ==
  ASSUME StoreInv, NEW w \in Writers
  PROVE  TempName(w) \in TempNames
<1>1. Put(w).kind \in {Put(v).kind : v \in Writers} /\ pid \in Pids /\ counter \in Nat
  BY DEF StoreInv, TypeOK
<1> QED
  BY <1>1 DEF TempName, TempNames

\* Files that go, and files that come with a content and a name, keep the types.
LEMMA TempsKeepTypes ==
  ASSUME TempTypes, NEW t,
         \/ temps' = temps
         \/ temps' = WithoutTemp(t)
         \/ /\ t \in TempNames
            /\ \E c \in Contents : temps' = WithTemp(t, c)
  PROVE  DOMAIN temps' \subseteq TempNames /\ temps' \in [DOMAIN temps' -> Contents]
<1>1. DOMAIN temps \subseteq TempNames /\ temps \in [DOMAIN temps -> Contents]
  BY DEF TempTypes
<1>2. CASE temps' = temps
  BY <1>1, <1>2
<1>3. CASE temps' = WithoutTemp(t)
  BY <1>1, <1>3 DEF WithoutTemp
<1>4. ASSUME t \in TempNames, NEW c \in Contents, temps' = WithTemp(t, c)
      PROVE  DOMAIN temps' \subseteq TempNames /\ temps' \in [DOMAIN temps' -> Contents]
  BY <1>1, <1>4 DEF WithTemp
<1> QED
  BY <1>2, <1>3, <1>4

LEMMA InitStoreInv == Init => StoreInv
<1> SUFFICES ASSUME Init PROVE StoreInv
  OBVIOUS
<1>1. TypeOK
  <2>1. NoContent \in Contents
    BY DEF Contents
  <2> QED
    BY <2>1, RestartBound DEF Init, TypeOK, PcValues
<1>2. \A w \in Writers : PathOf(w) \in Paths
  BY DEF Paths
<1>3. NoTornFile /\ AcknowledgedPutsAreKept /\ FileInv
  BY <1>2 DEF Init, NoTornFile, AcknowledgedPutsAreKept, FileInv
<1>4. TempInv /\ NameInv
  BY DEF Init, TempInv, NameInv, Live
<1> QED
  BY <1>1, <1>3, <1>4 DEF StoreInv

\* A put moves on and the files stay: what its new place needs.
LEMMA MovesOn ==
  ASSUME StoreInv, NEW w \in Writers, NEW to \in PcValues,
         pc[w] # "ok", pc' = [pc EXCEPT ![w] = to], files' = files,
         to \in {"ok", "exists", "conflict"} => files[PathOf(w)] # NoContent,
         to = "ok" => Put(w).kind # "trace"
  PROVE  NoTornFile' /\ AcknowledgedPutsAreKept' /\ FileInv' /\ pc' \in [Writers -> PcValues]
<1>1. pc \in [Writers -> PcValues]
  BY DEF StoreInv, TypeOK
<1>2. pc' \in [Writers -> PcValues]
  BY <1>1
<1>3. \A v \in Writers : pc'[v] = IF v = w THEN to ELSE pc[v]
  BY <1>1
<1>4. NoTornFile'
  BY DEF StoreInv, NoTornFile
<1>5. AcknowledgedPutsAreKept'
  BY <1>3 DEF StoreInv, AcknowledgedPutsAreKept
<1>6. FileInv'
  BY <1>3 DEF StoreInv, FileInv
<1> QED
  BY <1>2, <1>4, <1>5, <1>6

\* A put that has written its file is the only one of its path that is a trace.
LEMMA RenameKeepsFiles ==
  ASSUME StoreInv, NEW w \in Writers, pc[w] = "rename",
         pc' = [pc EXCEPT ![w] = "ok"],
         files' = [files EXCEPT ![PathOf(w)] = Put(w).content]
  PROVE  NoTornFile' /\ AcknowledgedPutsAreKept' /\ FileInv' /\ FileTypes'
<1>1. pc \in [Writers -> PcValues] /\ DOMAIN files = Paths
  BY DEF StoreInv, TypeOK
<1>2. \A v \in Writers : pc'[v] = IF v = w THEN "ok" ELSE pc[v]
  BY <1>1
<1>3. \A v \in Writers : PathOf(v) \in Paths
  BY DEF Paths
<1>4. /\ DOMAIN files' = Paths
      /\ \A p \in Paths : files'[p] = IF p = PathOf(w) THEN Put(w).content ELSE files[p]
  BY <1>1, <1>3
<1>5. Put(w).content # NoContent
  BY ContentsAreContents
<1>6. NoTornFile'
  BY <1>4 DEF StoreInv, NoTornFile
<1>7. AcknowledgedPutsAreKept'
  <2> SUFFICES ASSUME NEW v \in Writers, pc'[v] = "ok"
               PROVE  /\ files'[PathOf(v)] # NoContent
                      /\ Put(v).kind = "trace" => files'[PathOf(v)] = Put(v).content
    BY DEF AcknowledgedPutsAreKept
  <2>1. CASE PathOf(v) = PathOf(w)
    BY <1>3, <1>4, <1>5, <2>1, TraceIdsAreFresh
  <2>2. CASE PathOf(v) # PathOf(w)
    BY <1>2, <1>3, <1>4, <2>2 DEF StoreInv, AcknowledgedPutsAreKept
  <2> QED
    BY <2>1, <2>2
<1>8. FileInv'
  BY <1>2, <1>3, <1>4, <1>5, TraceIdsAreFresh DEF StoreInv, FileInv
<1>9. FileTypes'
  <2>1. files \in [Paths -> Contents] /\ Put(w).content \in Contents
    BY DEF StoreInv, TypeOK, Contents
  <2> QED
    BY <1>3, <2>1 DEF FileTypes
<1> QED
  BY <1>6, <1>7, <1>8, <1>9

\* The other temp files of live puts are as they were.
LEMMA TempInvFrame ==
  ASSUME StoreInv, NEW w \in Writers, NEW to \in PcValues,
         pc' = [pc EXCEPT ![w] = to], temp' = temp,
         counter' \in {counter, counter + 1}, pid' = pid,
         \A v \in Writers : v # w /\ Live(v) =>
           temp[v] \in DOMAIN temps' /\ temps'[temp[v]] = temps[temp[v]],
         to \in {"write", "rename"} =>
           /\ Live(w) /\ temp[w] \in DOMAIN temps'
           /\ to = "rename" => temps'[temp[w]] = Put(w).content
  PROVE  TempInv'
<1>1. pc \in [Writers -> PcValues] /\ counter \in Nat
  BY DEF StoreInv, TypeOK
<1>2. \A v \in Writers : pc'[v] = IF v = w THEN to ELSE pc[v]
  BY <1>1
<1>3. \A v \in Writers : Live(v)' => Live(v)
  BY <1>2 DEF Live
<1> SUFFICES ASSUME NEW v \in Writers, Live(v)'
             PROVE  /\ temp[v] \in DOMAIN temps'
                    /\ temp[v][2] = pid /\ temp[v][3] \in Nat /\ temp[v][3] < counter'
                    /\ pc'[v] = "rename" => temps'[temp[v]] = Put(v).content
                    /\ \A u \in Writers : Live(u)' /\ temp[u] = temp[v] => u = v
  BY DEF TempInv
<1>4. /\ temp[v][2] = pid /\ temp[v][3] \in Nat /\ temp[v][3] < counter
      /\ pc[v] = "rename" => temps[temp[v]] = Put(v).content
      /\ \A u \in Writers : Live(u) /\ temp[u] = temp[v] => u = v
  BY <1>3 DEF StoreInv, TempInv
<1>5. temp[v][3] < counter'
  BY <1>1, <1>4
<1>6. CASE v = w
  BY <1>2, <1>3, <1>4, <1>5, <1>6 DEF Live
<1>7. CASE v # w
  BY <1>2, <1>3, <1>4, <1>5, <1>7 DEF Live
<1> QED
  BY <1>6, <1>7

LEMMA StepStoreInv == StoreInv /\ [Next]_vars => StoreInv'
<1> SUFFICES ASSUME StoreInv, [Next]_vars PROVE StoreInv'
  OBVIOUS
<1> USE DEF StoreInv
<1>0. TempTypes
  BY DEF TypeOK, TempTypes
<1>1. CASE UNCHANGED vars
  BY <1>1 DEF vars, TypeOK, NoTornFile, AcknowledgedPutsAreKept, TempInv, FileInv,
              NameInv, Live
<1>2. ASSUME NEW w \in Writers, Begin(w) PROVE StoreInv'
  <2>1. /\ pc[w] = "idle" /\ pc' = [pc EXCEPT ![w] = "look"]
        /\ UNCHANGED <<files, temps, temp, pid, usedPids, counter, restarts, diskFailed>>
    BY <1>2 DEF Begin, Goto, process
  <2>2. "look" \in PcValues
    BY DEF PcValues
  <2>3. NoTornFile' /\ AcknowledgedPutsAreKept' /\ FileInv' /\ pc' \in [Writers -> PcValues]
    BY <2>1, <2>2, MovesOn
  <2>4. TempInv'
    BY <2>1, <2>2, TempInvFrame DEF TempInv
  <2>5. TypeOK' /\ NameInv'
    BY <2>1, <2>3 DEF TypeOK, NameInv
  <2> QED
    BY <2>1, <2>3, <2>4, <2>5
<1>3. ASSUME NEW w \in Writers, Look(w) PROVE StoreInv'
  <2>1. /\ pc[w] = "look" /\ pc' = [pc EXCEPT ![w] = LookResult(w)]
        /\ UNCHANGED <<files, temps, temp, pid, usedPids, counter, restarts, diskFailed>>
    BY <1>3 DEF Look, Goto, process
  <2>2. /\ LookResult(w) \in {"create", "exists", "ok", "conflict"}
        /\ LookResult(w) # "create" => files[PathOf(w)] # NoContent
        /\ LookResult(w) = "ok" => Put(w).kind # "trace"
    BY DEF LookResult
  <2>3. LookResult(w) \in PcValues
    BY <2>2 DEF PcValues
  <2>4. NoTornFile' /\ AcknowledgedPutsAreKept' /\ FileInv' /\ pc' \in [Writers -> PcValues]
    BY <2>1, <2>2, <2>3, MovesOn
  <2>5. TempInv'
    BY <2>1, <2>2, <2>3, TempInvFrame DEF TempInv
  <2>6. TypeOK' /\ NameInv'
    BY <2>1, <2>2, <2>4 DEF TypeOK, NameInv
  <2> QED
    BY <2>1, <2>4, <2>5, <2>6
<1>4. ASSUME NEW w \in Writers, Create(w) PROVE StoreInv'
  <2> DEFINE t == TempName(w)
             to == IF t \in DOMAIN temps THEN "io_error" ELSE "write"
  <2>1. /\ pc[w] = "create" /\ pc' = [pc EXCEPT ![w] = to]
        /\ temps' = IF t \in DOMAIN temps THEN WithoutTemp(t) ELSE WithTemp(t, Partial)
        /\ temp' = [temp EXCEPT ![w] = t]
        /\ counter' = counter + 1
        /\ UNCHANGED <<files, pid, usedPids, restarts, diskFailed>>
    BY <1>4 DEF Create, Goto
  <2>2. to \in PcValues /\ to \notin {"ok", "exists", "conflict", "rename"}
    BY DEF PcValues
  <2>3. /\ t[2] = pid /\ t[3] = counter /\ counter \in Nat
        /\ \A v \in Writers : Live(v) => temp[v] # t
        /\ ~ReusePids => t \notin DOMAIN temps
    BY DrawnNameIsNew
  <2>4. NoTornFile' /\ AcknowledgedPutsAreKept' /\ FileInv' /\ pc' \in [Writers -> PcValues]
    <3> HIDE DEF to
    <3> QED
      BY <2>1, <2>2, MovesOn
  <2>5. /\ \A v \in Writers : temp'[v] = IF v = w THEN t ELSE temp[v]
        /\ \A v \in Writers : pc'[v] = IF v = w THEN to ELSE pc[v]
    BY <2>1 DEF TypeOK
  <2>6. /\ t \notin DOMAIN temps => DOMAIN temps' = DOMAIN temps \cup {t}
        /\ t \in DOMAIN temps => DOMAIN temps' = DOMAIN temps \ {t}
        /\ \A u \in DOMAIN temps : u # t => temps'[u] = temps[u]
    <3> HIDE DEF t, to
    <3>1. CASE t \in DOMAIN temps
      BY <2>1, <3>1 DEF WithoutTemp
    <3>2. CASE t \notin DOMAIN temps
      BY <2>1, <3>2 DEF WithTemp
    <3> QED
      BY <3>1, <3>2
  <2>7. TempInv'
    <3> HIDE DEF t
    <3> SUFFICES ASSUME NEW v \in Writers, Live(v)'
                 PROVE  /\ temp'[v] \in DOMAIN temps'
                        /\ temp'[v][2] = pid /\ temp'[v][3] \in Nat /\ temp'[v][3] < counter'
                        /\ pc'[v] = "rename" => temps'[temp'[v]] = Put(v).content
                        /\ \A u \in Writers : Live(u)' /\ temp'[u] = temp'[v] => u = v
      BY <2>1 DEF TempInv
    <3>1. \A u \in Writers : u # w /\ Live(u)' => Live(u)
      BY <2>5 DEF Live
    <3>2. CASE v = w
      BY <2>1, <2>3, <2>5, <2>6, <3>1, <3>2 DEF Live
    <3>3. CASE v # w
      <4>1. /\ temp[v] \in DOMAIN temps
            /\ temp[v][2] = pid /\ temp[v][3] \in Nat /\ temp[v][3] < counter
            /\ pc[v] = "rename" => temps[temp[v]] = Put(v).content
            /\ \A u \in Writers : Live(u) /\ temp[u] = temp[v] => u = v
        BY <3>1, <3>3 DEF TempInv
      <4> QED
        BY <2>1, <2>3, <2>5, <2>6, <3>1, <3>3, <4>1
    <3> QED
      BY <3>2, <3>3
  <2>8. NameInv'
    <3> HIDE DEF t
    <3> SUFFICES ASSUME ~ReusePids
                 PROVE  /\ pid' \in usedPids'
                        /\ \A u \in DOMAIN temps' :
                             u[2] \in usedPids' /\ u[3] \in Nat /\ (u[2] = pid' => u[3] < counter')
                        /\ \A v \in Writers : pc'[v] = "io_error" => v \in diskFailed'
      BY DEF NameInv
    <3>1. /\ pid \in usedPids
          /\ \A u \in DOMAIN temps : u[2] \in usedPids /\ u[3] \in Nat /\ (u[2] = pid => u[3] < counter)
          /\ \A v \in Writers : pc[v] = "io_error" => v \in diskFailed
      BY DEF NameInv
    <3>2. to = "write"
      BY <2>3
    <3>3. ASSUME NEW u \in DOMAIN temps, u[2] = pid PROVE u[3] < counter + 1
      <4>1. u[3] \in Nat /\ u[3] < counter
        BY <3>1, <3>3
      <4> QED
        BY <2>3, <4>1
    <3> QED
      BY <2>1, <2>3, <2>5, <2>6, <3>1, <3>2, <3>3
  <2>9. TypeOK'
    <3>1. t \in TempNames /\ Partial \in Contents
      BY NamesAreTempNames DEF Contents
    <3> HIDE DEF t
    <3>2. DOMAIN temps' \subseteq TempNames /\ temps' \in [DOMAIN temps' -> Contents]
      BY <1>0, <2>1, <3>1, TempsKeepTypes
    <3>3. temp' \in [Writers -> TempNames \cup {NoTemp}]
      BY <1>0, <2>1, <3>1 DEF TempTypes
    <3> QED
      BY <2>1, <2>3, <2>4, <3>2, <3>3 DEF TypeOK
  <2> QED
    BY <2>4, <2>5, <2>7, <2>8, <2>9
<1>5. ASSUME NEW w \in Writers, Write(w) PROVE StoreInv'
  <2>1. /\ pc[w] = "write" /\ pc' = [pc EXCEPT ![w] = "rename"]
        /\ temps' = WithTemp(temp[w], Put(w).content)
        /\ UNCHANGED <<files, temp, pid, usedPids, counter, restarts, diskFailed>>
    BY <1>5 DEF Write, Goto, process
  <2>2. "rename" \in PcValues
    BY DEF PcValues
  <2>3. NoTornFile' /\ AcknowledgedPutsAreKept' /\ FileInv' /\ pc' \in [Writers -> PcValues]
    BY <2>1, <2>2, MovesOn
  <2>4. /\ Live(w) /\ temp[w] \in DOMAIN temps
        /\ \A v \in Writers : Live(v) => temp[v] \in DOMAIN temps
        /\ \A v \in Writers : v # w /\ Live(v) => temp[v] # temp[w]
    BY <2>1 DEF TempInv, Live
  <2>5. /\ DOMAIN temps' = DOMAIN temps
        /\ temps'[temp[w]] = Put(w).content
        /\ \A u \in DOMAIN temps : u # temp[w] => temps'[u] = temps[u]
    BY <2>1, <2>4 DEF WithTemp
  <2>6. TempInv'
    BY <2>1, <2>2, <2>4, <2>5, TempInvFrame
  <2>7. TypeOK' /\ NameInv'
    <3>1. temp[w] \in TempNames /\ Put(w).content \in Contents
      BY <2>4 DEF TypeOK, Contents
    <3>2. DOMAIN temps' \subseteq TempNames /\ temps' \in [DOMAIN temps' -> Contents]
      BY <1>0, <2>1, <3>1, TempsKeepTypes
    <3> QED
      BY <2>1, <2>3, <2>5, <3>2 DEF TypeOK, NameInv
  <2> QED
    BY <2>1, <2>3, <2>6, <2>7
<1>6. ASSUME NEW w \in Writers, Rename(w) PROVE StoreInv'
  <2>1. pc[w] = "rename" /\ Live(w)
    BY <1>6 DEF Rename, Goto, Live
  <2>2. /\ temp[w] \in DOMAIN temps /\ temps[temp[w]] = Put(w).content
        /\ \A v \in Writers : Live(v) => temp[v] \in DOMAIN temps
        /\ \A v \in Writers : v # w /\ Live(v) => temp[v] # temp[w]
    BY <2>1 DEF TempInv
  <2>3. /\ pc' = [pc EXCEPT ![w] = "ok"]
        /\ files' = [files EXCEPT ![PathOf(w)] = Put(w).content]
        /\ temps' = WithoutTemp(temp[w])
        /\ UNCHANGED <<temp, pid, usedPids, counter, restarts, diskFailed>>
    BY <1>6, <2>2 DEF Rename, Goto, process
  <2>4. NoTornFile' /\ AcknowledgedPutsAreKept' /\ FileInv' /\ FileTypes'
    BY <2>1, <2>3, RenameKeepsFiles
  <2>5. /\ DOMAIN temps' = DOMAIN temps \ {temp[w]}
        /\ \A u \in DOMAIN temps' : temps'[u] = temps[u]
    BY <2>3 DEF WithoutTemp
  <2>6. TempInv'
    <3>1. "ok" \in PcValues
      BY DEF PcValues
    <3> QED
      BY <2>2, <2>3, <2>5, <3>1, TempInvFrame, ZenonT(30)
  <2>7. TypeOK' /\ NameInv'
    <3>1. DOMAIN temps' \subseteq TempNames /\ temps' \in [DOMAIN temps' -> Contents]
      BY <1>0, <2>3, TempsKeepTypes
    <3> QED
      BY <2>3, <2>4, <2>5, <3>1 DEF TypeOK, FileTypes, NameInv, PcValues
  <2> QED
    BY <2>3, <2>4, <2>6, <2>7
<1>7. ASSUME NEW w \in Writers, DiskFails(w) PROVE StoreInv'
  <2> DEFINE t == IF pc[w] = "create" THEN TempName(w) ELSE temp[w]
             to == IF pc[w] = "look" /\ Put(w).kind = "trace" THEN "create" ELSE "io_error"
  <2>1. /\ pc[w] \in {"look", "create", "write", "rename"}
        /\ pc' = [pc EXCEPT ![w] = to]
        /\ temps' = temps \/ (pc[w] # "look" /\ temps' = WithoutTemp(t))
        /\ counter' = IF pc[w] = "create" THEN counter + 1 ELSE counter
        /\ diskFailed' = diskFailed \cup {w}
        /\ UNCHANGED <<files, temp, pid, usedPids, restarts>>
    BY <1>7 DEF DiskFails
  <2>2. to \in PcValues /\ to \in {"create", "io_error"}
    BY DEF PcValues
  <2>3. NoTornFile' /\ AcknowledgedPutsAreKept' /\ FileInv' /\ pc' \in [Writers -> PcValues]
    <3> HIDE DEF to
    <3> QED
      BY <2>1, <2>2, MovesOn
  <2>4. pc[w] # "look" => \A v \in Writers : v # w /\ Live(v) => temp[v] # t
    BY <2>1, DrawnNameIsNew DEF TempInv, Live
  <2>5. /\ DOMAIN temps' \subseteq DOMAIN temps
        /\ \A u \in DOMAIN temps' : temps'[u] = temps[u]
        /\ \A u \in DOMAIN temps : pc[w] = "look" \/ u # t => u \in DOMAIN temps'
    <3> HIDE DEF t, to
    <3>1. CASE temps' = temps
      BY <3>1
    <3>2. CASE pc[w] # "look" /\ temps' = WithoutTemp(t)
      BY <3>2 DEF WithoutTemp
    <3> QED
      BY <2>1, <3>1, <3>2
  <2>6. counter \in Nat /\ counter' \in {counter, counter + 1}
    BY <2>1 DEF TypeOK
  <2>7. TempInv'
    <3>1. \A v \in Writers : v # w /\ Live(v) =>
            temp[v] \in DOMAIN temps' /\ temps'[temp[v]] = temps[temp[v]]
      BY <2>4, <2>5 DEF TempInv
    <3> HIDE DEF to, t
    <3> QED
      BY <2>1, <2>2, <2>6, <3>1, TempInvFrame
  <2>8. NameInv'
    <3> HIDE DEF to, t
    <3> SUFFICES ASSUME ~ReusePids
                 PROVE  /\ pid' \in usedPids'
                        /\ \A u \in DOMAIN temps' :
                             u[2] \in usedPids' /\ u[3] \in Nat /\ (u[2] = pid' => u[3] < counter')
                        /\ \A v \in Writers : pc'[v] = "io_error" => v \in diskFailed'
      BY DEF NameInv
    <3>1. /\ pid \in usedPids
          /\ \A u \in DOMAIN temps : u[2] \in usedPids /\ u[3] \in Nat /\ (u[2] = pid => u[3] < counter)
          /\ \A v \in Writers : pc[v] = "io_error" => v \in diskFailed
      BY DEF NameInv
    <3>2. \A v \in Writers : pc'[v] = IF v = w THEN to ELSE pc[v]
      BY <2>1 DEF TypeOK
    <3>3. ASSUME NEW u \in DOMAIN temps', u[2] = pid PROVE u[3] < counter'
      BY <2>5, <2>6, <3>1, <3>3
    <3> QED
      BY <2>1, <2>5, <3>1, <3>2, <3>3
  <2>9. TypeOK'
    <3> HIDE DEF t
    <3>1. DOMAIN temps' \subseteq TempNames /\ temps' \in [DOMAIN temps' -> Contents]
      BY <1>0, <2>1, TempsKeepTypes
    <3> QED
      BY <2>1, <2>3, <2>6, <3>1 DEF TypeOK
  <2> QED
    BY <2>1, <2>3, <2>7, <2>8, <2>9
<1>8. CASE Restart
  <2>1. /\ \A w \in Writers : pc'[w] = IF pc[w] \in {"look", "create", "write", "rename"}
                                       THEN "lost" ELSE pc[w]
        /\ UNCHANGED <<files, temps, temp, diskFailed>>
        /\ counter' = 0
    BY <1>8 DEF Restart
  <2>2. PICK p \in IF ReusePids THEN Pids ELSE Pids \ usedPids :
          pid' = p /\ usedPids' = usedPids \cup {p}
    BY <1>8 DEF Restart
  <2>3. TypeOK'
    BY <1>8, <2>2, RestartBound, ReuseIsBoolean DEF Restart, TypeOK, PcValues
  <2>4. NoTornFile' /\ AcknowledgedPutsAreKept' /\ FileInv'
    BY <2>1 DEF NoTornFile, AcknowledgedPutsAreKept, FileInv
  <2>5. TempInv'
    BY <2>1 DEF TempInv, Live
  <2>6. NameInv'
    BY <2>1, <2>2 DEF NameInv
  <2> QED
    BY <2>1, <2>3, <2>4, <2>5, <2>6
<1> QED
  BY <1>1, <1>2, <1>3, <1>4, <1>5, <1>6, <1>7, <1>8 DEF Next

LEMMA StoreInvariant == Spec => []StoreInv
BY InitStoreInv, StepStoreInv, PTL DEF Spec

-----------------------------------------------------------------------------
(* The theorems *)

\* The store's variables have their types through every failure and restart.
THEOREM StoreTypeCorrect == Spec => []TypeOK
<1>1. StoreInv => TypeOK
  BY DEF StoreInv
<1> QED
  BY <1>1, StoreInvariant, PTL

\* Whatever fails and whenever the process dies, a file under its final name
\* holds the whole content of a put of that name, also when process ids are
\* reused: write_atomic renames complete files only.
THEOREM FilesAreWhole == Spec => []NoTornFile
<1>1. StoreInv => NoTornFile
  BY DEF StoreInv
<1> QED
  BY <1>1, StoreInvariant, PTL

\* A put that returned Ok stays readable, a trace with the content it was put
\* with.
THEOREM AcknowledgedStays == Spec => []AcknowledgedPutsAreKept
<1>1. StoreInv => AcknowledgedPutsAreKept
  BY DEF StoreInv
<1> QED
  BY <1>1, StoreInvariant, PTL

\* As long as process ids are not reused, a put fails with an I/O error only when
\* the disk failed it: the names of temp files never collide.
THEOREM PutsFailRightly ==
  ASSUME ~ReusePids
  PROVE  Spec => []PutsFailForACause
<1>1. StoreInv => PutsFailForACause
  BY DEF StoreInv, NameInv, FileInv, PutsFailForACause
<1> QED
  BY <1>1, StoreInvariant, PTL

-----------------------------------------------------------------------------
(* The refinement *)

\* When one put moves on, its stage is the only one that may change.
LEMMA StageMoves ==
  ASSUME TypeOK, NEW w \in Writers, NEW to, pc' = [pc EXCEPT ![w] = to]
  PROVE  /\ [v \in Writers |-> StageOf(v)]' =
              [[v \in Writers |-> StageOf(v)] EXCEPT ![w] = StageOf(w)']
         /\ pc'[w] = to
<1>1. \A v \in Writers : pc'[v] = IF v = w THEN to ELSE pc[v]
  BY DEF TypeOK
<1>2. ASSUME NEW v \in Writers, v # w PROVE StageOf(v)' = StageOf(v)
  BY <1>1, <1>2 DEF StageOf
<1> QED
  BY <1>1, <1>2

LEMMA StepRefines ==
  ASSUME StoreInv, StoreInv', [Next]_vars
  PROVE  [Abstract!Next]_(Abstract!vars)
<1> DEFINE Stage == [v \in Writers |-> StageOf(v)]
<1>0. TypeOK /\ TypeOK'
  BY DEF StoreInv
<1>1. CASE UNCHANGED vars
  BY <1>1 DEF vars, StageOf, Abstract!vars
<1>2. ASSUME NEW w \in Writers, Begin(w) PROVE Abstract!Begin(w)
  <2>1. pc[w] = "idle" /\ pc' = [pc EXCEPT ![w] = "look"] /\ files' = files
    BY <1>2 DEF Begin, Goto
  <2>2. Stage' = [Stage EXCEPT ![w] = StageOf(w)'] /\ pc'[w] = "look"
    BY <1>0, <2>1, StageMoves
  <2>3. StageOf(w) = "idle" /\ StageOf(w)' = "look"
    BY <2>1, <2>2 DEF StageOf
  <2> QED
    BY <2>1, <2>2, <2>3 DEF Abstract!Begin
<1>3. ASSUME NEW w \in Writers, Look(w) PROVE Abstract!Look(w)
  <2>1. pc[w] = "look" /\ pc' = [pc EXCEPT ![w] = LookResult(w)] /\ files' = files
    BY <1>3 DEF Look, Goto
  <2>2. Stage' = [Stage EXCEPT ![w] = StageOf(w)'] /\ pc'[w] = LookResult(w)
    BY <1>0, <2>1, StageMoves
  <2>3. /\ StageOf(w) = "look"
        /\ StageOf(w)' = IF files[PathOf(w)] = NoContent THEN "write"
                         ELSE IF Put(w).kind = "trace" THEN "failed"
                         ELSE IF files[PathOf(w)] = Put(w).content THEN "ok" ELSE "failed"
    BY <2>1, <2>2 DEF StageOf, LookResult
  <2> QED
    BY <2>1, <2>2, <2>3 DEF Abstract!Look, Abstract!PathOf, PathOf
<1>4. ASSUME NEW w \in Writers, Create(w) PROVE Abstract!Fail(w) \/ UNCHANGED Abstract!vars
  <2> DEFINE to == IF TempName(w) \in DOMAIN temps THEN "io_error" ELSE "write"
  <2>1. pc[w] = "create" /\ pc' = [pc EXCEPT ![w] = to] /\ files' = files
    BY <1>4 DEF Create, Goto
  <2>2. Stage' = [Stage EXCEPT ![w] = StageOf(w)'] /\ pc'[w] = to
    BY <1>0, <2>1, StageMoves
  <2>3. StageOf(w) = "write" /\ StageOf(w)' \in {"write", "failed"}
    BY <2>1, <2>2 DEF StageOf
  <2> QED
    BY <2>1, <2>2, <2>3 DEF Abstract!Fail, Abstract!vars
<1>5. ASSUME NEW w \in Writers, Write(w) PROVE UNCHANGED Abstract!vars
  <2>1. pc[w] = "write" /\ pc' = [pc EXCEPT ![w] = "rename"] /\ files' = files
    BY <1>5 DEF Write, Goto
  <2>2. Stage' = [Stage EXCEPT ![w] = StageOf(w)'] /\ pc'[w] = "rename"
    BY <1>0, <2>1, StageMoves
  <2>3. StageOf(w) = "write" /\ StageOf(w)' = "write"
    BY <2>1, <2>2 DEF StageOf
  <2> QED
    BY <2>1, <2>2, <2>3 DEF Abstract!vars
<1>6. ASSUME NEW w \in Writers, Rename(w) PROVE Abstract!Write(w)
  <2>1. pc[w] = "rename" /\ temp[w] \in DOMAIN temps /\ temps[temp[w]] = Put(w).content
    BY <1>6 DEF Rename, Goto, StoreInv, TempInv, Live
  <2>2. /\ pc' = [pc EXCEPT ![w] = "ok"]
        /\ files' = [files EXCEPT ![PathOf(w)] = Put(w).content]
    BY <1>6, <2>1 DEF Rename, Goto
  <2>3. Stage' = [Stage EXCEPT ![w] = StageOf(w)'] /\ pc'[w] = "ok"
    BY <1>0, <2>2, StageMoves
  <2>4. StageOf(w) = "write" /\ StageOf(w)' = "ok"
    BY <2>1, <2>3 DEF StageOf
  <2> QED
    BY <2>2, <2>3, <2>4 DEF Abstract!Write, Abstract!PathOf, PathOf
<1>7. ASSUME NEW w \in Writers, DiskFails(w) PROVE Abstract!Fail(w) \/ Abstract!Look(w)
  <2> DEFINE to == IF pc[w] = "look" /\ Put(w).kind = "trace" THEN "create" ELSE "io_error"
  <2>1. /\ pc[w] \in {"look", "create", "write", "rename"}
        /\ pc' = [pc EXCEPT ![w] = to] /\ files' = files
    BY <1>7 DEF DiskFails
  <2>2. Stage' = [Stage EXCEPT ![w] = StageOf(w)'] /\ pc'[w] = to
    BY <1>0, <2>1, StageMoves
  <2>3. CASE pc[w] = "look" /\ Put(w).kind = "trace"
    <3>1. files[PathOf(w)] = NoContent
      BY <2>3 DEF StoreInv, FileInv
    <3>2. StageOf(w) = "look" /\ StageOf(w)' = "write"
      BY <2>2, <2>3 DEF StageOf
    <3> QED
      BY <2>1, <2>2, <3>1, <3>2 DEF Abstract!Look, Abstract!PathOf, PathOf
  <2>4. CASE ~(pc[w] = "look" /\ Put(w).kind = "trace")
    <3>1. StageOf(w) \in {"look", "write"} /\ StageOf(w)' = "failed"
      BY <2>1, <2>2, <2>4 DEF StageOf
    <3> QED
      BY <2>1, <2>2, <3>1 DEF Abstract!Fail
  <2> QED
    BY <2>3, <2>4
<1>8. CASE Restart
  <2>1. /\ \A w \in Writers : pc'[w] = IF pc[w] \in {"look", "create", "write", "rename"}
                                       THEN "lost" ELSE pc[w]
        /\ files' = files
    BY <1>8 DEF Restart
  <2>2. ASSUME NEW w \in Writers
        PROVE  StageOf(w)' = IF StageOf(w) \in {"look", "write"} THEN "failed" ELSE StageOf(w)
    BY <1>0, <2>1 DEF StageOf, TypeOK, PcValues
  <2>3. Stage' = [w \in Writers |-> IF Stage[w] \in {"look", "write"} THEN "failed" ELSE Stage[w]]
    BY <2>2
  <2>4. Abstract!Die
    BY <2>1, <2>3 DEF Abstract!Die
  <2> QED
    BY <2>4 DEF Abstract!Next
<1> QED
  <2>1. CASE Next
    BY <2>1, <1>2, <1>3, <1>4, <1>5, <1>6, <1>7, <1>8 DEF Next, Abstract!Next
  <2> QED
    BY <2>1, <1>1

\* Seen from outside the store is PutStore: a put looks, and then replaces its
\* file in one step with its whole content or fails and changes nothing, though
\* the code takes a file-system call for each part and may die in between.
THEOREM StoreImplementsPutStore == Spec => ImplementsPutStore
<1>1. Init => Abstract!Init
  BY DEF Init, Abstract!Init, StageOf
<1>2. StoreInv /\ StoreInv' /\ [Next]_vars => [Abstract!Next]_(Abstract!vars)
  BY StepRefines
<1> QED
  BY <1>1, <1>2, StoreInvariant, PTL DEF Spec, ImplementsPutStore, Abstract!Spec
=============================================================================
