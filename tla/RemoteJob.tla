------------------------------ MODULE RemoteJob ------------------------------
(***************************************************************************)
(* What a remote compilation promises to dcc_build_somewhere, without      *)
(* connections, tokens or versions: a source that is delivered, a compiler *)
(* that runs once, an object file that is put in place once and only from  *)
(* a compiler that succeeded on the whole source, and an outcome that is   *)
(* success only with that object in place.  A partial object is possible   *)
(* with a failure, when it could not be removed, or left by a client that  *)
(* died.  Session implements it.                                           *)
(***************************************************************************)

VARIABLES
    source,     \* what the server has of the source
    compiler,   \* the compiler's life
    object,     \* the client's output file
    outcome     \* what the client makes of it all

vars == <<source, compiler, object, outcome>>

Init ==
    /\ source = "none" /\ compiler = "idle"
    /\ object = "old" /\ outcome = "pending"

\* The source arrives, perhaps damaged: that is not seen before the compiler is.
Deliver ==
    /\ source = "none" /\ compiler = "idle"
    /\ source' \in {"whole", "corrupt"}
    /\ UNCHANGED <<compiler, object, outcome>>

Compile ==
    /\ source # "none" /\ compiler = "idle"
    /\ compiler' = "running"
    /\ UNCHANGED <<source, object, outcome>>

\* By itself, or killed when the client is gone or the time is up.
CompilerEnds ==
    /\ compiler = "running"
    /\ compiler' \in {"ok", "failed", "killed"}
    /\ UNCHANGED <<source, object, outcome>>

Fetchable ==
    /\ outcome = "pending" /\ compiler = "ok" /\ source = "whole"
    /\ object = "old"

\* The object replaces the old file; both may be lost on the way, or a part
\* of the new one be kept.
Fetch ==
    /\ Fetchable /\ object' \in {"new", "absent", "kept"}
    /\ UNCHANGED <<source, compiler, outcome>>

\* Success is announced with the object in place.  Anything else can be
\* announced at any time, even while the compiler runs.
Succeed ==
    /\ outcome = "pending" /\ object = "new"
    /\ outcome' = "success"
    /\ UNCHANGED <<source, compiler, object>>

Fail ==
    /\ outcome = "pending"
    /\ outcome' = "failure"
    /\ UNCHANGED <<source, compiler, object>>

\* The client dies, perhaps in the middle of the object.
Vanish ==
    /\ outcome = "pending" /\ outcome' = "vanished"
    /\ object' = object \/ (Fetchable /\ object' \in {"absent", "partial"})
    /\ UNCHANGED <<source, compiler>>

Next == Deliver \/ Compile \/ CompilerEnds \/ Fetch \/ Succeed \/ Fail \/ Vanish

Spec == Init /\ [][Next]_vars
=============================================================================
