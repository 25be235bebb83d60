-------------------------- MODULE KeyConfigProofs --------------------------
(***************************************************************************)
(* Proofs about KeyConfig, for any servers, file names and crashes: the    *)
(* lock keeps servers apart from looking for a file to having written it,  *)
(* so that what was written stays, and belongs together.                   *)
(***************************************************************************)
EXTENDS KeyConfig, TLAPS

\* The order in which files appear, whoever crashed before the next one: the
\* CA's certificate comes after its key, a server's certificate after both,
\* its key last.
FilesInOrder ==
  /\ ~Written(caKey) => caCert = Absent
  /\ Written(caCert) => caCert = caKey
  /\ \A n \in Names :
       /\ Written(cert[n]) => Written(caKey) /\ cert[n].signer = caKey
       /\ ~Written(cert[n]) => key[n] = Absent
       /\ Written(cert[n]) /\ Written(key[n]) => cert[n].key = key[n]

CaSteps == {"openCaKey", "writeCaKey", "caCert", "writeCaCert"}
ServerSteps == {"cert", "writeCert", "key", "writeKey"}

\* What the server that holds the lock relies on: nobody else has touched the
\* files since it looked for them.
Section(s) ==
  /\ step[s] \in {"lock", "caKey"} => signer[s] = Absent
  /\ step[s] \in CaSteps => fresh[s] # Absent /\ signer[s] = fresh[s]
  /\ step[s] = "openCaKey" => caKey = Absent
  /\ step[s] = "writeCaKey" => caKey = Blank
  /\ step[s] = "caCert" => caKey = fresh[s] /\ caCert = Absent
  /\ step[s] = "writeCaCert" => caKey = fresh[s] /\ caCert = Blank
  /\ step[s] \in {"server"} \union ServerSteps => signer[s] \in {Absent, caKey}
  /\ step[s] \in ServerSteps => fresh[s] # Absent /\ signer[s] # Absent
  /\ step[s] = "cert" => cert[nameOf[s]] = Absent
  /\ step[s] = "writeCert" => cert[nameOf[s]] = Blank
  /\ step[s] \in {"key", "writeKey"} =>
       Written(cert[nameOf[s]]) /\ cert[nameOf[s]].key = fresh[s]
  /\ step[s] = "key" => key[nameOf[s]] = Absent
  /\ step[s] = "writeKey" => key[nameOf[s]] = Blank

IInv == TypeOK /\ FilesInOrder /\ \A s \in Servers : Section(s)

\* Generated keys are no file marks, and servers are not nobody.
LEMMA KeysWritten ==
  ASSUME TypeOK
  PROVE  /\ Keys \subseteq Nat /\ \A k \in Keys : Written(k)
         /\ \A c \in [key : Keys, signer : Keys] : Written(c)
<1>1. Keys \subseteq 0..MaxKeys BY ConfigAssumption DEF Keys, TypeOK
<1>2. \A k \in Keys : Written(k) BY <1>1, ConfigAssumption DEF Written
<1>3. [key : Keys, signer : Keys] \subseteq [key : 0..MaxKeys, signer : 0..MaxKeys]
  BY <1>1
<1> QED BY <1>1, <1>2, <1>3, ConfigAssumption DEF Written

\* A server outside of the section relies on no file.
LEMMA OutsideTrivial ==
  ASSUME NEW s \in Servers, ~Holding(s), step[s] = "lock" => signer[s] = Absent
  PROVE  Section(s)
BY DEF Holding, Section, CaSteps, ServerSteps

LEMMA InitHolds == Init => IInv
<1> SUFFICES ASSUME Init PROVE IInv
  OBVIOUS
<1> USE ConfigAssumption
<1>1. TypeOK BY DEF Init, TypeOK, Keys, Steps, Holding
<1>2. FilesInOrder BY DEF Init, FilesInOrder, Written
<1>3. \A s \in Servers : Section(s)
  BY OutsideTrivial DEF Init, Holding
<1> QED BY <1>1, <1>2, <1>3 DEF IInv

\* A step that leaves the files alone and gets no server into the section, or
\* gets one to its first step.
LEMMA OutsideKeeps ==
  ASSUME IInv, NEW s \in Servers, NEW next \in Steps,
         step' = [step EXCEPT ![s] = next],
         UNCHANGED <<caKey, caCert, cert, key, issued>>,
         dir' \in BOOLEAN, crashes' \in 0..MaxCrashes,
         \A t \in Servers : t # s => signer'[t] = signer[t] /\ fresh'[t] = fresh[t],
         signer' \in [Servers -> Keys \union {Absent}],
         fresh' \in [Servers -> Keys \union {Absent}],
         lock' \in Servers \union {Nobody},
         \A t \in Servers : Holding(t)' <=> (lock' = t),
         next \in {"down", "lock", "ready", "failed", "caKey"},
         next \in {"lock", "caKey"} => signer'[s] = Absent
  PROVE  IInv'
<1>1. TypeOK' BY DEF IInv, TypeOK, Keys
<1>2. FilesInOrder' BY DEF IInv, FilesInOrder, Written
<1>3. \A t \in Servers : Section(t)'
  <2>1. step'[s] = next BY DEF IInv, TypeOK
  <2>2. Section(s)' BY <2>1 DEF Section, CaSteps, ServerSteps
  <2>3. ASSUME NEW t \in Servers, t # s PROVE Section(t)'
    BY <2>3 DEF IInv, TypeOK, Section, Written
  <2> QED BY <2>2, <2>3
<1> QED BY <1>1, <1>2, <1>3 DEF IInv

LEMMA StartKeeps == ASSUME NEW s \in Servers, IInv, Start(s) PROVE IInv'
<1> DEFINE next == IF dir THEN "lock" ELSE "down"
<1>1. \A t \in Servers : Holding(t)' <=> (lock' = t)
  BY DEF IInv, TypeOK, Start, Goto, Holding, Steps
<1>2. next \in {"down", "lock"} /\ step' = [step EXCEPT ![s] = next]
  BY DEF Start, Goto
<1>3. signer'[s] = Absent BY DEF Start, IInv, TypeOK
<1> HIDE DEF next
<1> QED BY <1>1, <1>2, <1>3, OutsideKeeps DEF Start, IInv, TypeOK, Steps

LEMMA WaitLockKeeps == ASSUME NEW s \in Servers, IInv, WaitLock(s) PROVE IInv'
<1>1. \A t \in Servers : Holding(t)' <=> (lock' = t)
  BY ConfigAssumption DEF IInv, TypeOK, WaitLock, Goto, Holding, Steps
<1>2. signer[s] = Absent BY DEF WaitLock, IInv, Section
<1> QED BY <1>1, <1>2, OutsideKeeps
        DEF WaitLock, Goto, IInv, TypeOK, Steps, files

LEMMA LeaveKeeps ==
  ASSUME NEW s \in Servers, NEW next \in {"down", "ready", "failed"}, IInv,
         Leave(s, next), UNCHANGED <<files, signer, fresh, issued>>,
         crashes' \in 0..MaxCrashes
  PROVE  IInv'
<1>1. \A t \in Servers : Holding(t)' <=> (lock' = t)
  BY ConfigAssumption DEF IInv, TypeOK, Leave, Goto, Holding, Steps
<1>2. lock' \in Servers \union {Nobody} BY DEF Leave, IInv, TypeOK
<1> QED BY <1>1, <1>2, OutsideKeeps DEF Leave, Goto, IInv, TypeOK, Steps, files

\* A step of the server in the section: the lock is its, so others are outside
\* of it, and what is left to show is about the files it changes.
LEMMA InsideKeeps ==
  ASSUME IInv, NEW s \in Servers, Holding(s), NEW next \in Steps,
         next \notin {"down", "lock", "ready", "failed", "caKey"},
         step' = [step EXCEPT ![s] = next], UNCHANGED <<dir, lock, crashes>>,
         \A t \in Servers : t # s => signer'[t] = signer[t],
         caKey' \in Keys' \union {Absent, Blank},
         caCert' \in Keys' \union {Absent, Blank},
         cert' \in [Names -> [key : Keys', signer : Keys'] \union {Absent, Blank}],
         key' \in [Names -> Keys' \union {Absent, Blank}],
         signer' \in [Servers -> Keys' \union {Absent}],
         fresh' \in [Servers -> Keys' \union {Absent}],
         issued' \in 0..MaxKeys, FilesInOrder',
         step'[s] = next => Section(s)'
  PROVE  IInv'
<1>1. lock = s /\ \A t \in Servers : t # s => ~Holding(t)
  BY DEF IInv, TypeOK
<1>2. step'[s] = next /\ \A t \in Servers : t # s => step'[t] = step[t]
  BY DEF IInv, TypeOK
<1>3. Section(s)' BY <1>2
<1>4. ASSUME NEW t \in Servers, t # s PROVE Section(t)'
  BY <1>1, <1>2, <1>4 DEF IInv, Holding, Section, CaSteps, ServerSteps
<1>5. step' \in [Servers -> Steps] BY DEF IInv, TypeOK
<1>6. \A t \in Servers : Holding(t)' <=> (lock' = t)
  BY <1>1, <1>2 DEF Holding
<1>7. TypeOK' BY <1>5, <1>6 DEF IInv, TypeOK
<1> QED BY <1>3, <1>4, <1>7 DEF IInv

\* The types, without the part about the lock.
LEMMA Typed ==
  ASSUME TypeOK
  PROVE  /\ caKey \in Keys \union {Absent, Blank}
         /\ caCert \in Keys \union {Absent, Blank}
         /\ cert \in [Names -> [key : Keys, signer : Keys] \union {Absent, Blank}]
         /\ key \in [Names -> Keys \union {Absent, Blank}]
         /\ step \in [Servers -> Steps]
         /\ signer \in [Servers -> Keys \union {Absent}]
         /\ fresh \in [Servers -> Keys \union {Absent}]
         /\ issued \in 0..MaxKeys
BY DEF TypeOK

LEMMA GenerateTypes ==
  ASSUME TypeOK, NEW s \in Servers, Generate(s)
  PROVE  /\ issued' \in 0..MaxKeys /\ Keys \subseteq Keys'
         /\ fresh' \in [Servers -> Keys' \union {Absent}]
         /\ fresh'[s] \in Keys' /\ fresh'[s] = issued' /\ fresh'[s] # Absent
<1>1. issued' \in 0..MaxKeys /\ issued' = issued + 1 /\ issued \in Nat
  BY ConfigAssumption DEF TypeOK, Generate
<1>2. Keys \subseteq Keys' /\ issued' \in Keys' BY <1>1 DEF Keys
<1>3. fresh' = [fresh EXCEPT ![s] = issued'] BY <1>1 DEF Generate
<1>4. fresh \in [Servers -> Keys \union {Absent}] BY DEF TypeOK
<1>5. issued' # Absent BY <1>1, ConfigAssumption
<1> QED BY <1>1, <1>2, <1>3, <1>4, <1>5

LEMMA CaKeyKeeps == ASSUME NEW s \in Servers, IInv, CaKey(s) PROVE IInv'
<1> USE Typed DEF IInv
<1>0. /\ step[s] = "caKey" /\ Holding(s) /\ signer[s] = Absent
      /\ UNCHANGED <<dir, caKey, caCert, cert, key, lock, crashes>>
  BY DEF CaKey, Holding, Section, files
<1>1. FilesInOrder' BY <1>0 DEF FilesInOrder, Written
<1>2. CASE caKey # Absent
  <2>1. /\ signer' = [signer EXCEPT ![s] = IF caKey = Blank THEN Absent ELSE caKey]
        /\ step' = [step EXCEPT ![s] = "server"] /\ UNCHANGED <<fresh, issued>>
    BY <1>2 DEF CaKey, Goto
  <2>2. signer' \in [Servers -> Keys \union {Absent}]
        /\ signer'[s] \in {Absent, caKey}
    BY <2>1
  <2>3. \A t \in Servers : t # s => signer'[t] = signer[t] BY <2>1
  <2>4. step'[s] = "server" => Section(s)'
    BY <1>0, <2>1, <2>2 DEF Section, CaSteps, ServerSteps
  <2>5. Keys' = Keys BY <2>1 DEF Keys
  <2> QED BY <1>0, <1>1, <2>1, <2>2, <2>3, <2>4, <2>5, InsideKeeps DEF Steps
<1>3. CASE caKey = Absent /\ ~auto[s]
  <2>1. step' = [step EXCEPT ![s] = "server"] /\ UNCHANGED <<signer, fresh, issued>>
    BY <1>3 DEF CaKey, Goto
  <2>4. step'[s] = "server" => Section(s)'
    BY <1>0, <2>1 DEF Section, CaSteps, ServerSteps
  <2>5. Keys' = Keys BY <2>1 DEF Keys
  <2> QED BY <1>0, <1>1, <2>1, <2>4, <2>5, InsideKeeps DEF Steps
<1>4. CASE caKey = Absent /\ auto[s]
  <2>1. /\ Generate(s) /\ signer' = [signer EXCEPT ![s] = issued']
        /\ step' = [step EXCEPT ![s] = "openCaKey"]
    BY <1>4 DEF CaKey, Goto
  <2>2. /\ issued' \in 0..MaxKeys /\ Keys \subseteq Keys'
        /\ fresh' \in [Servers -> Keys' \union {Absent}]
        /\ fresh'[s] \in Keys' /\ fresh'[s] = issued' /\ fresh'[s] # Absent
    BY <2>1, GenerateTypes
  <2>3. /\ signer' \in [Servers -> Keys' \union {Absent}] /\ signer'[s] = fresh'[s]
        /\ \A t \in Servers : t # s => signer'[t] = signer[t]
    BY <2>1, <2>2
  <2>4. step'[s] = "openCaKey" => Section(s)'
    BY <1>0, <1>4, <2>2, <2>3 DEF Section, CaSteps, ServerSteps
  <2>5. /\ caKey' \in Keys' \union {Absent, Blank}
        /\ caCert' \in Keys' \union {Absent, Blank}
    BY <1>0, <2>2
  <2>6. cert' \in [Names -> [key : Keys', signer : Keys'] \union {Absent, Blank}]
    <3>1. [key : Keys, signer : Keys] \subseteq [key : Keys', signer : Keys']
      BY <2>2
    <3> QED BY <1>0, <3>1
  <2>7. key' \in [Names -> Keys' \union {Absent, Blank}] BY <1>0, <2>2
  <2> QED BY <1>0, <1>1, <2>1, <2>2, <2>3, <2>4, <2>5, <2>6, <2>7, InsideKeeps
          DEF Steps
<1> QED BY <1>2, <1>3, <1>4 DEF CaKey

LEMMA OpenCaKeyKeeps == ASSUME NEW s \in Servers, IInv, OpenCaKey(s) PROVE IInv'
<1> USE Typed DEF IInv
<1>1. /\ step[s] = "openCaKey" /\ Holding(s) /\ caKey = Absent /\ caKey' = Blank
      /\ step' = [step EXCEPT ![s] = "writeCaKey"]
      /\ UNCHANGED <<dir, caCert, cert, key, lock, signer, fresh, issued, crashes>>
  BY DEF OpenCaKey, Holding, Goto, Section
<1>2. FilesInOrder' BY <1>1 DEF FilesInOrder, Written
<1>3. step'[s] = "writeCaKey" => Section(s)'
  BY <1>1 DEF Section, CaSteps, ServerSteps
<1>4. Keys' = Keys BY <1>1 DEF Keys
<1> QED BY <1>1, <1>2, <1>3, <1>4, InsideKeeps DEF Steps

LEMMA WriteCaKeyKeeps == ASSUME NEW s \in Servers, IInv, WriteCaKey(s) PROVE IInv'
<1> USE Typed DEF IInv
<1>1. /\ step[s] = "writeCaKey" /\ Holding(s) /\ caKey = Blank
      /\ caKey' = fresh[s] /\ fresh[s] \in Keys /\ signer[s] = fresh[s]
      /\ step' = [step EXCEPT ![s] = "caCert"]
      /\ UNCHANGED <<dir, caCert, cert, key, lock, signer, fresh, issued, crashes>>
  BY DEF WriteCaKey, Holding, Goto, Section, CaSteps
<1>2. caCert = Absent /\ \A n \in Names : ~Written(cert[n])
  BY <1>1 DEF FilesInOrder, Written
<1>3. FilesInOrder' BY <1>1, <1>2 DEF FilesInOrder, Written
<1>4. fresh[s] # Absent BY <1>1 DEF Section, CaSteps
<1>5. step'[s] = "caCert" => Section(s)'
  BY <1>1, <1>2, <1>4 DEF Section, CaSteps, ServerSteps
<1>6. Keys' = Keys BY <1>1 DEF Keys
<1> QED BY <1>1, <1>3, <1>5, <1>6, InsideKeeps DEF Steps

LEMMA CaCertKeeps == ASSUME NEW s \in Servers, IInv, CaCert(s) PROVE IInv'
<1> USE Typed DEF IInv
<1>1. /\ step[s] = "caCert" /\ Holding(s) /\ caKey = fresh[s] /\ caCert = Absent
      /\ caCert' = Blank /\ fresh[s] # Absent /\ signer[s] = fresh[s]
      /\ step' = [step EXCEPT ![s] = "writeCaCert"]
      /\ UNCHANGED <<dir, caKey, cert, key, lock, signer, fresh, issued, crashes>>
  BY DEF CaCert, Holding, Goto, Section, CaSteps
<1>2. fresh[s] \in Keys BY <1>1
<1>3. Written(caKey) BY <1>1, <1>2, KeysWritten
<1>4. FilesInOrder' BY <1>1, <1>3 DEF FilesInOrder, Written
<1>5. step'[s] = "writeCaCert" => Section(s)'
  BY <1>1 DEF Section, CaSteps, ServerSteps
<1>6. Keys' = Keys BY <1>1 DEF Keys
<1> QED BY <1>1, <1>4, <1>5, <1>6, InsideKeeps DEF Steps

LEMMA WriteCaCertKeeps ==
  ASSUME NEW s \in Servers, IInv, WriteCaCert(s) PROVE IInv'
<1> USE Typed DEF IInv
<1>1. /\ step[s] = "writeCaCert" /\ Holding(s) /\ caKey = fresh[s]
      /\ caCert' = fresh[s] /\ fresh[s] # Absent /\ signer[s] = fresh[s]
      /\ step' = [step EXCEPT ![s] = "server"]
      /\ UNCHANGED <<dir, caKey, cert, key, lock, signer, fresh, issued, crashes>>
  BY DEF WriteCaCert, Holding, Goto, Section, CaSteps
<1>2. fresh[s] \in Keys BY <1>1
<1>3. Written(caKey) BY <1>1, <1>2, KeysWritten
<1>4. FilesInOrder' BY <1>1, <1>3 DEF FilesInOrder, Written
<1>5. step'[s] = "server" => Section(s)'
  BY <1>1 DEF Section, CaSteps, ServerSteps
<1>6. Keys' = Keys BY <1>1 DEF Keys
<1> QED BY <1>1, <1>2, <1>4, <1>5, <1>6, InsideKeeps DEF Steps

LEMMA ServerCertKeeps == ASSUME NEW s \in Servers, IInv, ServerCert(s) PROVE IInv'
<1> USE Typed DEF IInv
<1>1. /\ step[s] = "server" /\ Holding(s) /\ cert[nameOf[s]] = Absent
      /\ signer[s] = caKey /\ signer[s] # Absent /\ Generate(s)
      /\ step' = [step EXCEPT ![s] = "cert"]
      /\ UNCHANGED <<dir, caKey, caCert, cert, key, lock, signer, crashes>>
  BY DEF ServerCert, ServerCertExists, Holding, Goto, Section, files
<1>2. /\ issued' \in 0..MaxKeys /\ Keys \subseteq Keys'
      /\ fresh' \in [Servers -> Keys' \union {Absent}]
      /\ fresh'[s] # Absent
  BY <1>1, GenerateTypes
<1>3. FilesInOrder' BY <1>1 DEF FilesInOrder, Written
<1>4. step'[s] = "cert" => Section(s)'
  BY <1>1, <1>2 DEF Section, CaSteps, ServerSteps
<1>5. cert' \in [Names -> [key : Keys', signer : Keys'] \union {Absent, Blank}]
  <2>1. [key : Keys, signer : Keys] \subseteq [key : Keys', signer : Keys']
    BY <1>2
  <2> QED BY <1>1, <2>1
<1>6. /\ caKey' \in Keys' \union {Absent, Blank}
      /\ caCert' \in Keys' \union {Absent, Blank}
      /\ key' \in [Names -> Keys' \union {Absent, Blank}]
      /\ signer' \in [Servers -> Keys' \union {Absent}]
  BY <1>1, <1>2
<1> QED BY <1>1, <1>2, <1>3, <1>4, <1>5, <1>6, InsideKeeps DEF Steps

LEMMA OpenCertKeeps == ASSUME NEW s \in Servers, IInv, OpenCert(s) PROVE IInv'
<1> USE Typed, ConfigAssumption DEF IInv
<1>1. /\ step[s] = "cert" /\ Holding(s) /\ cert[nameOf[s]] = Absent
      /\ signer[s] = caKey /\ signer[s] # Absent /\ fresh[s] # Absent
      /\ cert' = [cert EXCEPT ![nameOf[s]] = Blank]
      /\ step' = [step EXCEPT ![s] = "writeCert"]
      /\ UNCHANGED <<dir, caKey, caCert, key, lock, signer, fresh, issued, crashes>>
  BY DEF OpenCert, Holding, Goto, Section, ServerSteps
<1>2. \A n \in Names : cert'[n] = IF n = nameOf[s] THEN Blank ELSE cert[n]
  BY <1>1
<1>3. FilesInOrder' BY <1>1, <1>2 DEF FilesInOrder, Written
<1>4. step'[s] = "writeCert" => Section(s)'
  BY <1>1, <1>2 DEF Section, CaSteps, ServerSteps
<1>5. Keys' = Keys BY <1>1 DEF Keys
<1> QED BY <1>1, <1>3, <1>4, <1>5, InsideKeeps DEF Steps

LEMMA WriteCertKeeps == ASSUME NEW s \in Servers, IInv, WriteCert(s) PROVE IInv'
<1> USE Typed, ConfigAssumption DEF IInv
<1> DEFINE c == [key |-> fresh[s], signer |-> signer[s]]
<1>1. /\ step[s] = "writeCert" /\ Holding(s) /\ cert[nameOf[s]] = Blank
      /\ signer[s] = caKey /\ signer[s] # Absent /\ fresh[s] # Absent
      /\ cert' = [cert EXCEPT ![nameOf[s]] = c]
      /\ step' = [step EXCEPT ![s] = "key"]
      /\ UNCHANGED <<dir, caKey, caCert, key, lock, signer, fresh, issued, crashes>>
  BY DEF WriteCert, Holding, Goto, Section, ServerSteps
<1>2. fresh[s] \in Keys /\ signer[s] \in Keys BY <1>1
<1>3. /\ c \in [key : Keys, signer : Keys] /\ c.key = fresh[s] /\ c.signer = caKey
  BY <1>1, <1>2
<1>4. Written(c) /\ Written(caKey) BY <1>1, <1>2, <1>3, KeysWritten
<1> HIDE DEF c
<1>5. \A n \in Names : cert'[n] = IF n = nameOf[s] THEN c ELSE cert[n]
  BY <1>1
<1>6. key[nameOf[s]] = Absent BY <1>1 DEF FilesInOrder, Written
<1>7. FilesInOrder' BY <1>1, <1>3, <1>4, <1>5, <1>6 DEF FilesInOrder, Written
<1>8. step'[s] = "key" => Section(s)'
  BY <1>1, <1>3, <1>4, <1>5, <1>6 DEF Section, CaSteps, ServerSteps, Written
<1>9. Keys' = Keys BY <1>1 DEF Keys
<1>10. cert' \in [Names -> [key : Keys, signer : Keys] \union {Absent, Blank}]
  BY <1>1, <1>3
<1> QED BY <1>1, <1>7, <1>8, <1>9, <1>10, InsideKeeps DEF Steps

LEMMA ServerKeyKeeps == ASSUME NEW s \in Servers, IInv, ServerKey(s) PROVE IInv'
<1> USE Typed, ConfigAssumption DEF IInv
<1>1. /\ step[s] = "key" /\ Holding(s) /\ key[nameOf[s]] = Absent
      /\ Written(cert[nameOf[s]]) /\ cert[nameOf[s]].key = fresh[s]
      /\ signer[s] = caKey /\ signer[s] # Absent /\ fresh[s] # Absent
      /\ key' = [key EXCEPT ![nameOf[s]] = Blank]
      /\ step' = [step EXCEPT ![s] = "writeKey"]
      /\ UNCHANGED <<dir, caKey, caCert, cert, lock, signer, fresh, issued, crashes>>
  BY DEF ServerKey, Holding, Goto, Section, ServerSteps
<1>2. \A n \in Names : key'[n] = IF n = nameOf[s] THEN Blank ELSE key[n]
  BY <1>1
<1>3. FilesInOrder' BY <1>1, <1>2 DEF FilesInOrder, Written
<1>4. step'[s] = "writeKey" => Section(s)'
  BY <1>1, <1>2 DEF Section, CaSteps, ServerSteps, Written
<1>5. Keys' = Keys BY <1>1 DEF Keys
<1> QED BY <1>1, <1>3, <1>4, <1>5, InsideKeeps DEF Steps

\* The last step writes the key and leaves the section at once.
LEMMA WriteKeyKeeps == ASSUME NEW s \in Servers, IInv, WriteKey(s) PROVE IInv'
<1> USE Typed, ConfigAssumption DEF IInv
<1>1. /\ step[s] = "writeKey" /\ Holding(s) /\ lock = s
      /\ Written(cert[nameOf[s]]) /\ cert[nameOf[s]].key = fresh[s]
      /\ key' = [key EXCEPT ![nameOf[s]] = fresh[s]]
      /\ step' = [step EXCEPT ![s] = "ready"] /\ lock' = Nobody
      /\ UNCHANGED <<dir, caKey, caCert, cert, signer, fresh, issued, crashes>>
  BY DEF WriteKey, Leave, Holding, Goto, Section, TypeOK
<1>2. fresh[s] \in Keys BY <1>1 DEF Section, ServerSteps
<1>3. \A n \in Names : key'[n] = IF n = nameOf[s] THEN fresh[s] ELSE key[n]
  BY <1>1
<1>4. FilesInOrder' BY <1>1, <1>3 DEF FilesInOrder, Written
<1>5. \A t \in Servers : step'[t] = IF t = s THEN "ready" ELSE step[t]
  BY <1>1
<1>6. \A t \in Servers : ~Holding(t)'
  BY <1>1, <1>5 DEF Holding, TypeOK
<1>7. TypeOK'
  <2>1. Keys' = Keys BY <1>1 DEF Keys
  <2>2. key' \in [Names -> Keys \union {Absent, Blank}] BY <1>1, <1>2
  <2>3. step' \in [Servers -> Steps] BY <1>1 DEF Steps
  <2>4. \A t \in Servers : Holding(t)' <=> (lock' = t) BY <1>1, <1>6
  <2> QED BY <1>1, <2>1, <2>2, <2>3, <2>4 DEF TypeOK
<1>8. \A t \in Servers : Section(t)'
  BY <1>1, <1>5, <1>6 DEF Section, Holding, CaSteps, ServerSteps
<1> QED BY <1>4, <1>7, <1>8
----------------------------------------------------------------------------
LEMMA StepKeeps == IInv /\ [Next]_vars => IInv'
<1> SUFFICES ASSUME IInv, [Next]_vars PROVE IInv'
  OBVIOUS
<1>1. ASSUME NEW s \in Servers, Run(s) PROVE IInv'
  <2>1. CASE Start(s) BY <2>1, StartKeeps
  <2>2. CASE CaKey(s) BY <2>2, CaKeyKeeps
  <2>3. CASE OpenCaKey(s) BY <2>3, OpenCaKeyKeeps
  <2>4. CASE WriteCaKey(s) BY <2>4, WriteCaKeyKeeps
  <2>5. CASE CaCert(s) BY <2>5, CaCertKeeps
  <2>6. CASE WriteCaCert(s) BY <2>6, WriteCaCertKeeps
  <2>7. CASE ServerDone(s)
    BY <2>7, LeaveKeeps DEF ServerDone, IInv, TypeOK
  <2>8. CASE ServerFails(s)
    BY <2>8, LeaveKeeps DEF ServerFails, IInv, TypeOK
  <2>9. CASE ServerCert(s) BY <2>9, ServerCertKeeps
  <2>10. CASE OpenCert(s) BY <2>10, OpenCertKeeps
  <2>11. CASE WriteCert(s) BY <2>11, WriteCertKeeps
  <2>12. CASE ServerKey(s) BY <2>12, ServerKeyKeeps
  <2>13. CASE WriteKey(s) BY <2>13, WriteKeyKeeps
  <2> QED BY <1>1, <2>1, <2>2, <2>3, <2>4, <2>5, <2>6, <2>7, <2>8, <2>9, <2>10,
             <2>11, <2>12, <2>13 DEF Run
<1>2. ASSUME NEW s \in Servers, Crash(s) PROVE IInv'
  <2>1. crashes' \in 0..MaxCrashes
    BY <1>2, ConfigAssumption DEF Crash, IInv, TypeOK
  <2> QED BY <1>2, <2>1, LeaveKeeps DEF Crash
<1>3. CASE UNCHANGED vars
  BY <1>3 DEF vars, files, IInv, TypeOK, FilesInOrder, Section, Holding, Keys,
              Written, CaSteps, ServerSteps
<1> QED BY <1>1, <1>2, <1>3, WaitLockKeeps DEF Next

LEMMA Inductive == Spec => []IInv
BY InitHolds, StepKeeps, PTL DEF Spec

\* The files, the lock and the servers' local state have their types, and a
\* server between looking for a file and having written it holds the lock,
\* however many servers start and crash (InitializeKeys, obtainLock,
\* clearLock).
THEOREM TypeCorrect == Spec => []TypeOK
<1>1. IInv => TypeOK BY DEF IInv
<1> QED BY <1>1, Inductive, PTL

\* Files that were written belong together: the CA's certificate to its key,
\* a server's certificate to its key and to the CA (RootKeyExists,
\* generateCert, writeKeyAndCerts under the lock).
THEOREM PairsMatchCorrect == Spec => []PairsMatch
<1>1. IInv => PairsMatch BY DEF IInv, FilesInOrder, PairsMatch
<1> QED BY <1>1, Inductive, PTL

\* What was written stays in one step.
Stays ==
  /\ Written(caKey) => caKey' = caKey
  /\ \A n \in Names : /\ Written(cert[n]) => cert'[n] = cert[n]
                      /\ Written(key[n]) => key'[n] = key[n]

LEMMA StepStays == ASSUME IInv, [Next]_vars PROVE Stays
<1> USE ConfigAssumption DEF Written, Stays
<1>1. ASSUME NEW s \in Servers, OpenCaKey(s) PROVE Stays
  BY <1>1 DEF OpenCaKey, IInv, Section
<1>2. ASSUME NEW s \in Servers, WriteCaKey(s) PROVE Stays
  BY <1>2 DEF WriteCaKey, IInv, Section
<1>3. ASSUME NEW s \in Servers, OpenCert(s) PROVE Stays
  BY <1>3 DEF OpenCert, IInv, TypeOK, Section
<1>4. ASSUME NEW s \in Servers, WriteCert(s) PROVE Stays
  BY <1>4 DEF WriteCert, IInv, TypeOK, Section
<1>5. ASSUME NEW s \in Servers, ServerKey(s) PROVE Stays
  BY <1>5 DEF ServerKey, IInv, TypeOK, Section
<1>6. ASSUME NEW s \in Servers, WriteKey(s) PROVE Stays
  BY <1>6 DEF WriteKey, IInv, TypeOK, Section
<1>7. ASSUME NEW s \in Servers,
             \/ Start(s) \/ CaKey(s) \/ CaCert(s) \/ WriteCaCert(s)
             \/ ServerDone(s) \/ ServerFails(s) \/ ServerCert(s)
             \/ WaitLock(s) \/ Crash(s)
      PROVE  Stays
  BY <1>7 DEF Start, CaKey, CaCert, WriteCaCert, ServerDone, ServerFails,
              ServerCert, WaitLock, Crash, files
<1>8. CASE UNCHANGED vars BY <1>8 DEF vars, files
<1> QED BY <1>1, <1>2, <1>3, <1>4, <1>5, <1>6, <1>7, <1>8 DEF Next, Run

\* A CA key, a certificate or a key that was written is never replaced: a
\* server only opens for writing what it found absent under the lock, and
\* nobody else came in between.
THEOREM WrittenStaysCorrect == Spec => WrittenStays
<1>1. IInv /\ [Next]_vars => [Stays]_vars BY StepStays
<1> QED BY <1>1, Inductive, PTL DEF Spec, WrittenStays, Stays
----------------------------------------------------------------------------
(* Without a crash nothing is left half done: the safety half of           *)
(* EveryoneReady, whose other half needs fairness.                         *)

CaWhole == caKey = Absent \/ (Written(caKey) /\ Written(caCert))
CertWhole(n) == cert[n] = Absent \/ (Written(cert[n]) /\ Written(key[n]))

\* No server fails, and one that is ready has what it serves with.
NobodyFails ==
  \A s \in Servers :
    step[s] # "failed" /\ (step[s] = "ready" /\ auto[s] => Usable(nameOf[s]))

\* Only the server that holds the lock has files half written.
Whole ==
  /\ (\A s \in Servers : step[s] \notin CaSteps) => CaWhole
  /\ \A n \in Names :
       (\A s \in Servers : nameOf[s] = n => step[s] \notin ServerSteps) => CertWhole(n)
  /\ \A s \in Servers : step[s] = "server" /\ auto[s] => signer[s] # Absent
  /\ NobodyFails

LEMMA HolderAlone ==
  ASSUME IInv, NEW s \in Servers, Holding(s)
  PROVE  \A t \in Servers : t # s => step[t] \notin CaSteps \union ServerSteps
BY DEF IInv, TypeOK, Holding, CaSteps, ServerSteps

\* What was usable stays so.
LEMMA UsableStays ==
  ASSUME IInv, [Next]_vars
  PROVE  \A n \in Names : Usable(n) => Usable(n)'
<1>1. Stays BY StepStays
<1>2. ASSUME Written(caCert), caCert' # caCert PROVE FALSE
  <2>1. PICK s \in Servers : CaCert(s) \/ WriteCaCert(s)
    BY <1>2
    DEF Next, Run, Start, CaKey, OpenCaKey, WriteCaKey, ServerDone, ServerFails, ServerCert, OpenCert,
        WriteCert, ServerKey, WriteKey, WaitLock, Crash, files, vars
  <2>2. caCert \in {Absent, Blank} BY <2>1 DEF CaCert, WriteCaCert, IInv, Section
  <2> QED BY <1>2, <2>2 DEF Written
<1> QED BY <1>1, <1>2 DEF Stays, Usable

\* What a step of server s has to do for the files to be whole after it.
LEMMA WholeMoves ==
  ASSUME IInv, Whole, [Next]_vars, NEW s \in Servers, NEW next \in Steps,
         step' = [step EXCEPT ![s] = next], next # "failed",
         \A t \in Servers : t # s => signer'[t] = signer[t],
         next = "server" /\ auto[s] => signer'[s] # Absent,
         \/ next \in CaSteps \/ CaWhole'
         \/ step[s] \notin CaSteps /\ UNCHANGED <<caKey, caCert>>,
         \A n \in Names : n # nameOf[s] => cert'[n] = cert[n] /\ key'[n] = key[n],
         \/ next \in ServerSteps \/ CertWhole(nameOf[s])'
         \/ step[s] \notin ServerSteps /\ UNCHANGED <<cert, key>>,
         next = "ready" /\ auto[s] => Usable(nameOf[s])'
  PROVE  Whole'
<1>1. step'[s] = next /\ \A t \in Servers : t # s => step'[t] = step[t] BY DEF IInv, TypeOK
<1>2. nameOf[s] \in Names /\ \A t \in Servers : nameOf[t] \in Names BY ConfigAssumption
<1>3. (\A t \in Servers : step'[t] \notin CaSteps) => CaWhole'
  <2> SUFFICES ASSUME \A t \in Servers : step'[t] \notin CaSteps, ~CaWhole' PROVE FALSE
    OBVIOUS
  <2>1. step[s] \notin CaSteps /\ UNCHANGED <<caKey, caCert>> BY <1>1
  <2>2. \A t \in Servers : step[t] \notin CaSteps BY <1>1, <2>1
  <2> QED BY <2>1, <2>2 DEF Whole, CaWhole, Written
<1>4. ASSUME NEW n \in Names, \A t \in Servers : nameOf[t] = n => step'[t] \notin ServerSteps
      PROVE  CertWhole(n)'
  <2>1. CASE n # nameOf[s]
    <3>1. \A t \in Servers : nameOf[t] = n => step[t] \notin ServerSteps BY <1>1, <1>4, <2>1
    <3> QED BY <2>1, <3>1 DEF Whole, CertWhole, Written
  <2>2. CASE n = nameOf[s] /\ step[s] \notin ServerSteps /\ UNCHANGED <<cert, key>>
    <3>1. \A t \in Servers : nameOf[t] = n => step[t] \notin ServerSteps BY <1>1, <1>4, <2>2
    <3> QED BY <2>2, <3>1 DEF Whole, CertWhole, Written
  <2> QED BY <1>1, <1>4, <2>1, <2>2
<1>5. \A t \in Servers : step'[t] = "server" /\ auto[t] => signer'[t] # Absent BY <1>1 DEF Whole
<1>6. NobodyFails' BY <1>1, <1>2, UsableStays DEF Whole, NobodyFails
<1> QED BY <1>3, <1>4, <1>5, <1>6 DEF Whole

LEMMA WholeRun ==
  ASSUME IInv, Whole, NEW s \in Servers, Run(s) \/ WaitLock(s)
  PROVE  Whole'
<1> USE ConfigAssumption
<1>0. [Next]_vars /\ IInv' BY StepKeeps DEF Next
<1>T. nameOf[s] \in Names /\ Section(s) /\ step \in [Servers -> Steps] BY DEF IInv, TypeOK
<1> HIDE DEF Usable
<1>1. CASE Start(s) \/ WaitLock(s)
  <2>1. PICK next \in {"lock", "down", "caKey"} :
          step' = [step EXCEPT ![s] = next] /\ step[s] \in {"down", "lock"}
    BY <1>1 DEF Start, WaitLock, Goto
  <2>2. /\ UNCHANGED <<caKey, caCert, cert, key>>
        /\ \A t \in Servers : t # s => signer'[t] = signer[t]
    BY <1>1 DEF Start, WaitLock, files, IInv, TypeOK
  <2> QED BY <1>0, <2>1, <2>2, WholeMoves DEF Steps, CaSteps, ServerSteps
<1>2. CASE CaKey(s)
  <2>1. /\ step[s] = "caKey" /\ UNCHANGED <<caKey, caCert, cert, key>>
        /\ \A t \in Servers : t # s => signer'[t] = signer[t]
    BY <1>2 DEF CaKey, files, IInv, TypeOK
  <2>2. CaWhole
    <3>1. \A t \in Servers : t # s => step[t] \notin CaSteps BY <2>1, HolderAlone DEF Holding
    <3> QED BY <2>1, <3>1 DEF Whole, CaSteps
  <2>3. CASE caKey # Absent
    <3>1. Written(caKey) BY <2>2, <2>3 DEF CaWhole
    <3>2. step' = [step EXCEPT ![s] = "server"] /\ signer'[s] # Absent
      BY <1>2, <2>3, <3>1 DEF CaKey, Goto, Written, IInv, TypeOK
    <3> QED BY <1>0, <2>1, <3>2, WholeMoves DEF Steps, CaSteps, ServerSteps
  <2>4. CASE caKey = Absent /\ ~auto[s]
    <3>1. step' = [step EXCEPT ![s] = "server"] BY <1>2, <2>4 DEF CaKey, Goto
    <3> QED BY <1>0, <2>1, <2>4, <3>1, WholeMoves DEF Steps, CaSteps, ServerSteps
  <2>5. CASE caKey = Absent /\ auto[s]
    <3>1. step' = [step EXCEPT ![s] = "openCaKey"] BY <1>2, <2>5 DEF CaKey, Goto
    <3> QED BY <1>0, <2>1, <3>1, WholeMoves DEF Steps, CaSteps, ServerSteps
  <2> QED BY <2>3, <2>4, <2>5
<1>3. CASE OpenCaKey(s) \/ WriteCaKey(s) \/ CaCert(s)
  <2>1. PICK next \in {"writeCaKey", "caCert", "writeCaCert"} : step' = [step EXCEPT ![s] = next]
    BY <1>3 DEF OpenCaKey, WriteCaKey, CaCert, Goto
  <2>2. UNCHANGED <<cert, key, signer>> /\ step[s] \in CaSteps
    BY <1>3 DEF OpenCaKey, WriteCaKey, CaCert, CaSteps
  <2> QED BY <1>0, <2>1, <2>2, WholeMoves DEF Steps, CaSteps, ServerSteps
<1>4. CASE WriteCaCert(s)
  <2>1. /\ step[s] = "writeCaCert" /\ step' = [step EXCEPT ![s] = "server"]
        /\ UNCHANGED <<caKey, cert, key, signer>> /\ caCert' = fresh[s]
    BY <1>4 DEF WriteCaCert, Goto
  <2>2. caKey = fresh[s] /\ fresh[s] # Absent /\ signer[s] = fresh[s]
    BY <1>T, <2>1 DEF Section, CaSteps
  <2>3. Written(fresh[s]) BY <2>2, KeysWritten DEF IInv, TypeOK
  <2>4. CaWhole' BY <2>1, <2>2, <2>3 DEF CaWhole
  <2> QED BY <1>0, <2>1, <2>2, <2>4, WholeMoves DEF Steps, CaSteps, ServerSteps
<1>5. ASSUME step[s] = "server" PROVE CertWhole(nameOf[s]) /\ CaWhole
  <2>1. \A t \in Servers : step[t] \notin CaSteps \union ServerSteps
    BY <1>5, HolderAlone DEF Holding, CaSteps, ServerSteps
  <2> QED BY <1>T, <2>1 DEF Whole
<1>6. CASE ServerDone(s)
  <2>1. /\ step[s] = "server" /\ UNCHANGED <<caKey, caCert, cert, key, signer>>
        /\ step' = [step EXCEPT ![s] = "ready"] /\ (cert[nameOf[s]] # Absent \/ ~auto[s])
    BY <1>6 DEF ServerDone, ServerCertExists, Leave, Goto, files
  <2>2. auto[s] => Usable(nameOf[s])
    <3> SUFFICES ASSUME auto[s] PROVE Usable(nameOf[s])
      OBVIOUS
    <3>1. Written(cert[nameOf[s]]) /\ Written(key[nameOf[s]]) BY <1>5, <2>1 DEF CertWhole
    <3>2. Written(caKey) BY <1>T, <3>1 DEF IInv, FilesInOrder
    <3>3. Written(caCert) BY <1>5, <2>1, <3>2 DEF CaWhole, Written
    <3> QED BY <3>1, <3>2, <3>3 DEF Usable
  <2>3. auto[s] => Usable(nameOf[s])' BY <1>0, <1>T, <2>2, UsableStays
  <2> QED BY <1>0, <2>1, <2>3, WholeMoves DEF Steps, CaSteps, ServerSteps
<1>7. CASE ServerFails(s)
  BY <1>7 DEF ServerFails, Whole
<1>8. CASE ServerCert(s)
  <2>1. /\ step[s] = "server" /\ UNCHANGED <<caKey, caCert, cert, key, signer>>
        /\ step' = [step EXCEPT ![s] = "cert"]
    BY <1>8 DEF ServerCert, Goto, files
  <2> QED BY <1>0, <2>1, WholeMoves DEF Steps, CaSteps, ServerSteps
<1>9. CASE OpenCert(s) \/ WriteCert(s) \/ ServerKey(s)
  <2>1. PICK next \in {"writeCert", "key", "writeKey"} : step' = [step EXCEPT ![s] = next]
    BY <1>9 DEF OpenCert, WriteCert, ServerKey, Goto
  <2>2. UNCHANGED <<caKey, caCert, signer>> /\ step[s] \in ServerSteps
    BY <1>9 DEF OpenCert, WriteCert, ServerKey, ServerSteps
  <2>3. \A n \in Names : n # nameOf[s] => cert'[n] = cert[n] /\ key'[n] = key[n]
    BY <1>9 DEF OpenCert, WriteCert, ServerKey, IInv, TypeOK
  <2> QED BY <1>0, <2>1, <2>2, <2>3, WholeMoves DEF Steps, CaSteps, ServerSteps
<1>10. CASE WriteKey(s)
  <2>1. /\ step[s] = "writeKey" /\ step' = [step EXCEPT ![s] = "ready"]
        /\ UNCHANGED <<caKey, caCert, cert, signer>> /\ key' = [key EXCEPT ![nameOf[s]] = fresh[s]]
    BY <1>10 DEF WriteKey, Leave, Goto
  <2>2. Written(cert[nameOf[s]]) /\ fresh[s] # Absent BY <1>T, <2>1 DEF Section, ServerSteps
  <2>3. Written(fresh[s]) BY <2>2, KeysWritten DEF IInv, TypeOK
  <2>4. key'[nameOf[s]] = fresh[s] /\ \A n \in Names : n # nameOf[s] => key'[n] = key[n]
    BY <1>T, <2>1 DEF IInv, TypeOK
  <2>5. Written(caKey) BY <1>T, <2>2 DEF IInv, FilesInOrder
  <2>6. CaWhole
    <3>1. \A t \in Servers : step[t] \notin CaSteps
      BY <2>1, HolderAlone DEF Holding, CaSteps, ServerSteps
    <3> QED BY <3>1 DEF Whole
  <2>7. Usable(nameOf[s])'
    BY <2>1, <2>2, <2>3, <2>4, <2>5, <2>6 DEF Usable, CaWhole, Written
  <2>8. CertWhole(nameOf[s])' BY <2>1, <2>2, <2>3, <2>4 DEF CertWhole
  <2> QED BY <1>0, <2>1, <2>4, <2>7, <2>8, WholeMoves DEF Steps, CaSteps, ServerSteps
<1> QED
  BY <1>1, <1>2, <1>3, <1>4, <1>6, <1>7, <1>8, <1>9, <1>10 DEF Run

NobodyFailsUncrashed == crashes = 0 => NobodyFails

\* As long as no server crashes none fails for want of a CA key, and each that
\* may generate keys and is ready has a key and certificate and the CA they
\* belong to, however servers share names, the directory and the lock.
THEOREM NobodyFailsCorrect == Spec => []NobodyFailsUncrashed
<1> DEFINE WInv == IInv /\ (crashes = 0 => Whole)
<1>1. Init => WInv
  <2>1. Init => IInv BY InitHolds
  <2>2. Init => Whole
    BY ConfigAssumption DEF Init, Whole, CaWhole, CertWhole, NobodyFails, CaSteps, ServerSteps
  <2> QED BY <2>1, <2>2
<1>2. WInv /\ [Next]_vars => WInv'
  <2> SUFFICES ASSUME WInv, [Next]_vars, crashes' = 0 PROVE Whole'
    BY StepKeeps
  <2>1. ASSUME NEW s \in Servers, Crash(s) PROVE FALSE
    BY <2>1, ConfigAssumption DEF Crash, IInv, TypeOK
  <2>2. ASSUME NEW s \in Servers, Run(s) \/ WaitLock(s) PROVE Whole'
    <3>1. crashes' = crashes
      BY <2>2
      DEF Run, Start, CaKey, OpenCaKey, WriteCaKey, CaCert, WriteCaCert, ServerDone, ServerFails,
          ServerCert, OpenCert, WriteCert, ServerKey, WriteKey, WaitLock
    <3> QED BY <2>2, <3>1, WholeRun
  <2>3. CASE UNCHANGED vars
    BY <2>3 DEF vars, files, Whole, CaWhole, CertWhole, NobodyFails, Usable, Written
  <2> QED BY <2>1, <2>2, <2>3 DEF Next
<1>3. WInv => NobodyFailsUncrashed BY DEF NobodyFailsUncrashed, Whole
<1> QED BY <1>1, <1>2, <1>3, PTL DEF Spec
=============================================================================
