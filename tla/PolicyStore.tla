---------------------------- MODULE PolicyStore ----------------------------
(***************************************************************************)
(* What a provider that replaces its policies as a whole promises of       *)
(* SetPolicyInfo: every call brings its own policies, they become the      *)
(* store's content at one moment or never, and a call that reported        *)
(* success has had its moment. A call that failed may still have it later: *)
(* its request may be on the way. Where requests are repeated a call that  *)
(* had its moment may have another, even after it reported success.        *)
(***************************************************************************)
CONSTANTS
  Calls,    \* the calls of SetPolicyInfo, each with policies of its own
  Initials  \* the contents the store may start with

VARIABLES
  content,  \* the policies of the store: an initial content, or a call's
  call,     \* call[c]: "new" | "open" | "ok" | "failed"
  taken,    \* the calls that had their moment
  repeats   \* whether requests are repeated, which does not change

Init ==
  /\ content \in Initials
  /\ call = [c \in Calls |-> "new"]
  /\ taken = {}
  /\ repeats \in BOOLEAN

Open(c) ==
  /\ call[c] = "new"
  /\ call' = [call EXCEPT ![c] = "open"]
  /\ UNCHANGED <<content, taken, repeats>>

TakeEffect(c) ==
  /\ call[c] \in {"open", "failed"} /\ c \notin taken
  /\ content' = c
  /\ taken' = taken \union {c}
  /\ UNCHANGED <<call, repeats>>

TakeAgain(c) ==
  /\ repeats /\ c \in taken
  /\ content' = c
  /\ UNCHANGED <<call, taken, repeats>>

Succeed(c) ==
  /\ call[c] = "open" /\ c \in taken
  /\ call' = [call EXCEPT ![c] = "ok"]
  /\ UNCHANGED <<content, taken, repeats>>

Fail(c) ==
  /\ call[c] = "open"
  /\ call' = [call EXCEPT ![c] = "failed"]
  /\ UNCHANGED <<content, taken, repeats>>

Next ==
  \E c \in Calls :
    Open(c) \/ TakeEffect(c) \/ TakeAgain(c) \/ Succeed(c) \/ Fail(c)

Spec == Init /\ [][Next]_<<content, call, taken, repeats>>
=============================================================================
