----------------------------- MODULE KeyConfig -----------------------------
(***************************************************************************)
(* GetKeyConfig and InitializeKeys of pkg/keysupport: servers that share a *)
(* certificate directory load or generate, at their start and under a file *)
(* lock, the key pair of their certificate authority (CA) and then the     *)
(* certificate and key that each serves TLS with. A server may crash at    *)
(* any point and is started again; what it wrote stays.                    *)
(*                                                                         *)
(* A generated key is a number. os.WriteFile empties a file before it      *)
(* writes it: between the two the file is Blank.                           *)
(***************************************************************************)
EXTENDS Naturals

CONSTANTS
  Servers,     \* the processes that call InitializeKeys
  Names,       \* the names of the servers' certificate and key files
  nameOf,      \* nameOf[s]: the files server s is configured with
  auto,        \* auto[s]: HEXA_AUTO_SELFSIGN allows s to generate keys
  Absent,      \* no such file
  Blank,       \* a file without content
  Nobody,      \* the lock is free
  MaxCrashes,  \* bound: crashes
  MaxKeys      \* bound: keys generated

ASSUME ConfigAssumption ==
  /\ nameOf \in [Servers -> Names] /\ auto \in [Servers -> BOOLEAN]
  /\ MaxKeys \in Nat /\ MaxCrashes \in Nat
  /\ Nobody \notin Servers
  /\ Absent # Blank /\ {Absent, Blank} \intersect Nat = {}
  /\ {Absent, Blank} \intersect [key : 0..MaxKeys, signer : 0..MaxKeys] = {}

VARIABLES
  dir,      \* the directory exists
  caKey,    \* the CA's key file: Absent, Blank or a key
  caCert,   \* the CA's certificate file: Absent, Blank or the key it is for
  cert,     \* cert[n]: Absent, Blank or [key, signer]
  key,      \* key[n]: Absent, Blank or a key
  lock,     \* who holds the directory's lock file
  step,     \* step[s]: what server s does next
  signer,   \* signer[s]: config.CaPrivKey, Absent for nil
  fresh,    \* fresh[s]: the key generated for the files being written
  issued,   \* keys 1..issued have been generated
  crashes   \* how many servers crashed

files == <<dir, caKey, caCert, cert, key>>
vars == <<files, lock, step, signer, fresh, issued, crashes>>

Steps == {"down", "lock", "caKey", "openCaKey", "writeCaKey", "caCert",
          "writeCaCert", "server", "cert", "writeCert", "key", "writeKey",
          "ready", "failed"}

Init ==
  /\ dir \in BOOLEAN
  /\ caKey = Absent /\ caCert = Absent
  /\ cert = [n \in Names |-> Absent] /\ key = [n \in Names |-> Absent]
  /\ lock = Nobody
  /\ step = [s \in Servers |-> "down"]
  /\ signer = [s \in Servers |-> Absent]
  /\ fresh = [s \in Servers |-> Absent]
  /\ issued = 0 /\ crashes = 0

Goto(s, next) == step' = [step EXCEPT ![s] = next]

\* GetKeyConfig as a server starts: it panics unless Mkdir reports that the
\* directory was there, so also when Mkdir has just made it.
Start(s) ==
  /\ step[s] = "down"
  /\ dir' = TRUE
  /\ Goto(s, IF dir THEN "lock" ELSE "down")
  /\ signer' = [signer EXCEPT ![s] = Absent]
  /\ fresh' = [fresh EXCEPT ![s] = Absent]
  /\ UNCHANGED <<caKey, caCert, cert, key, lock, issued, crashes>>

\* Mutant: the lock is not waited for.
WaitLock_NoLock(s) ==
  /\ step[s] = "lock"
  /\ Goto(s, "caKey")
  /\ UNCHANGED <<files, lock, signer, fresh, issued, crashes>>

WaitLock(s) ==
  /\ step[s] = "lock" /\ lock = Nobody
  /\ lock' = s
  /\ Goto(s, "caKey")
  /\ UNCHANGED <<files, signer, fresh, issued, crashes>>

\* Every return of InitializeKeys runs the deferred clearLock; the operating
\* system does it for a process that ends.
Leave(s, next) ==
  /\ Goto(s, next)
  /\ lock' = IF lock = s THEN Nobody ELSE lock

Generate(s) ==
  /\ issued < MaxKeys
  /\ issued' = issued + 1
  /\ fresh' = [fresh EXCEPT ![s] = issued + 1]

----------------------------------------------------------------------------
\* RootKeyExists: the key is loaded, or stays nil when the file is all but
\* empty; without the file a key pair is generated, if that is allowed.
CaKey(s) ==
  /\ step[s] = "caKey"
  /\ \/ /\ caKey # Absent
        /\ signer' = [signer EXCEPT ![s] = IF caKey = Blank THEN Absent ELSE caKey]
        /\ Goto(s, "server")
        /\ UNCHANGED <<fresh, issued>>
     \/ /\ caKey = Absent /\ ~auto[s]
        /\ Goto(s, "server")
        /\ UNCHANGED <<signer, fresh, issued>>
     \/ /\ caKey = Absent /\ auto[s]
        /\ Generate(s)
        /\ signer' = [signer EXCEPT ![s] = issued']
        /\ Goto(s, "openCaKey")
  /\ UNCHANGED <<files, lock, crashes>>

OpenCaKey(s) ==
  /\ step[s] = "openCaKey"
  /\ caKey' = Blank
  /\ Goto(s, "writeCaKey")
  /\ UNCHANGED <<dir, caCert, cert, key, lock, signer, fresh, issued, crashes>>

WriteCaKey(s) ==
  /\ step[s] = "writeCaKey"
  /\ caKey' = fresh[s]
  /\ Goto(s, "caCert")
  /\ UNCHANGED <<dir, caCert, cert, key, lock, signer, fresh, issued, crashes>>

CaCert(s) ==
  /\ step[s] = "caCert"
  /\ caCert' = Blank
  /\ Goto(s, "writeCaCert")
  /\ UNCHANGED <<dir, caKey, cert, key, lock, signer, fresh, issued, crashes>>

WriteCaCert(s) ==
  /\ step[s] = "writeCaCert"
  /\ caCert' = fresh[s]
  /\ Goto(s, "server")
  /\ UNCHANGED <<dir, caKey, cert, key, lock, signer, fresh, issued, crashes>>

----------------------------------------------------------------------------
\* Mutant: the server's key is looked for instead of its certificate.
ServerCertExists_Key(n) == key[n] # Absent

ServerCertExists(n) == cert[n] # Absent

\* The server has what it serves with, or may not generate it.
ServerDone(s) ==
  /\ step[s] = "server" /\ (ServerCertExists(nameOf[s]) \/ ~auto[s])
  /\ Leave(s, "ready")
  /\ UNCHANGED <<files, signer, fresh, issued, crashes>>

\* generateCert panics when there is no CA key to sign with.
ServerFails(s) ==
  /\ step[s] = "server" /\ ~ServerCertExists(nameOf[s]) /\ auto[s]
  /\ signer[s] = Absent
  /\ Leave(s, "failed")
  /\ UNCHANGED <<files, signer, fresh, issued, crashes>>

ServerCert(s) ==
  /\ step[s] = "server" /\ ~ServerCertExists(nameOf[s]) /\ auto[s]
  /\ signer[s] # Absent
  /\ Generate(s)
  /\ Goto(s, "cert")
  /\ UNCHANGED <<files, lock, signer, crashes>>

OpenCert(s) ==
  /\ step[s] = "cert"
  /\ cert' = [cert EXCEPT ![nameOf[s]] = Blank]
  /\ Goto(s, "writeCert")
  /\ UNCHANGED <<dir, caKey, caCert, key, lock, signer, fresh, issued, crashes>>

WriteCert(s) ==
  /\ step[s] = "writeCert"
  /\ cert' = [cert EXCEPT ![nameOf[s]] = [key |-> fresh[s], signer |-> signer[s]]]
  /\ Goto(s, "key")
  /\ UNCHANGED <<dir, caKey, caCert, key, lock, signer, fresh, issued, crashes>>

ServerKey(s) ==
  /\ step[s] = "key"
  /\ key' = [key EXCEPT ![nameOf[s]] = Blank]
  /\ Goto(s, "writeKey")
  /\ UNCHANGED <<dir, caKey, caCert, cert, lock, signer, fresh, issued, crashes>>

\* Mutant: clearLock is not called at the end.
WriteKey_KeepsLock(s) ==
  /\ step[s] = "writeKey"
  /\ key' = [key EXCEPT ![nameOf[s]] = fresh[s]]
  /\ Goto(s, "ready")
  /\ UNCHANGED <<dir, caKey, caCert, cert, lock, signer, fresh, issued, crashes>>

WriteKey(s) ==
  /\ step[s] = "writeKey"
  /\ key' = [key EXCEPT ![nameOf[s]] = fresh[s]]
  /\ Leave(s, "ready")
  /\ UNCHANGED <<dir, caKey, caCert, cert, signer, fresh, issued, crashes>>

\* The process ends, wherever it is.
Crash(s) ==
  /\ crashes < MaxCrashes /\ step[s] # "down"
  /\ crashes' = crashes + 1
  /\ Leave(s, "down")
  /\ UNCHANGED <<files, signer, fresh, issued>>

Run(s) ==
  \/ Start(s) \/ CaKey(s) \/ OpenCaKey(s) \/ WriteCaKey(s) \/ CaCert(s)
  \/ WriteCaCert(s) \/ ServerDone(s) \/ ServerFails(s) \/ ServerCert(s)
  \/ OpenCert(s) \/ WriteCert(s) \/ ServerKey(s) \/ WriteKey(s)

Next == \E s \in Servers : Run(s) \/ WaitLock(s) \/ Crash(s)

Spec == Init /\ [][Next]_vars

\* Servers are started and go on; who waits for the lock gets it when it is
\* free often enough.
FairSpec ==
  Spec /\ \A s \in Servers : WF_vars(Run(s)) /\ SF_vars(WaitLock(s))
----------------------------------------------------------------------------
Keys == 1..issued
Written(f) == f \notin {Absent, Blank}

Holding(s) == step[s] \notin {"down", "lock", "ready", "failed"}

\* The type invariant, with what the lock is for: only its holder is between
\* looking for a file and having written it.
TypeOK ==
  /\ dir \in BOOLEAN
  /\ caKey \in Keys \union {Absent, Blank}
  /\ caCert \in Keys \union {Absent, Blank}
  /\ cert \in [Names -> [key : Keys, signer : Keys] \union {Absent, Blank}]
  /\ key \in [Names -> Keys \union {Absent, Blank}]
  /\ lock \in Servers \union {Nobody}
  /\ step \in [Servers -> Steps]
  /\ signer \in [Servers -> Keys \union {Absent}]
  /\ fresh \in [Servers -> Keys \union {Absent}]
  /\ issued \in 0..MaxKeys /\ crashes \in 0..MaxCrashes
  /\ \A s \in Servers : Holding(s) <=> (lock = s)

\* Whatever servers start and crash in whatever order, a CA key or a server's
\* certificate or key that was once written is never replaced.
WrittenStays ==
  [][/\ Written(caKey) => caKey' = caKey
     /\ \A n \in Names : /\ Written(cert[n]) => cert'[n] = cert[n]
                         /\ Written(key[n]) => key'[n] = key[n]]_vars

\* Files that were written belong together: the CA's certificate is for its
\* key, a server's certificate for the server's key, and the CA signed it.
PairsMatch ==
  /\ Written(caCert) => caCert = caKey
  /\ \A n \in Names :
       /\ Written(cert[n]) /\ Written(key[n]) => cert[n].key = key[n]
       /\ Written(cert[n]) => cert[n].signer = caKey

Usable(n) ==
  /\ Written(caKey) /\ Written(caCert)
  /\ Written(cert[n]) /\ Written(key[n])

\* Unless one of them crashes, every server that may generate keys ends up
\* ready, with all the files it needs.
EveryoneReady ==
  [](crashes = 0) =>
    \A s \in Servers :
      <>[](step[s] = "ready" /\ (auto[s] => Usable(nameOf[s])))
=============================================================================
