------------------------------ MODULE Session -------------------------------
(***************************************************************************)
(* One remote compilation over one connection: the client side             *)
(* (dcc_compile_remote, remote.c and clirpc.c) and the server side         *)
(* (dcc_run_job, serve.c and srvrpc.c) exchange the tokens of protocol     *)
(* versions 1 to 3 (2 compresses bulk data, 3 preprocesses on the server   *)
(* as well), while connections break, hosts vanish, files cannot be read,  *)
(* either side gives up early and the compiler may never end.              *)
(*                                                                         *)
(* Tokens that carry a string or a file are one item of the stream, with   *)
(* the value "none" for length 0 and "short" for a body of fewer bytes     *)
(* than its token announced.                                               *)
(***************************************************************************)
EXTENDS Integers, Sequences

CONSTANTS
    Versions,   \* protocol versions the host list may ask for
    Faults      \* what may go wrong

Protover == {"VER_1", "VER_2", "VER_3"}
FaultKind == {"reset", "client_vanishes", "client_killed", "server_vanishes", "timeout",
              "xfile", "open", "local", "unlink", "cpp", "compiler", "lifetime",
              "server", "email", "version"}

ASSUME SessionAssumption ==
    Versions \subseteq Protover /\ Versions # {} /\ Faults \subseteq FaultKind

VARIABLES
    protover,    \* host->protover of the client
    needs_dotd,  \* deps_fname != NULL
    link,        \* "up", "reset", or "silent" when a host has vanished
    open,        \* which side still has its socket open
    inbox,       \* per side, the items on their way to it
    cpc,         \* where dcc_compile_remote is
    c_status, c_ret,
    object, deps,\* the client's output and dependency files
    spc,         \* where dcc_run_job is
    s_ver,       \* protover of the request header
    input,       \* what the server has received to compile
    cc,          \* the compiler process
    status, s_ret, compile_ret,
    job_result

wire == <<link, open, inbox>>
client == <<cpc, c_status, c_ret, object, deps>>
server == <<spc, s_ver, input, cc, status, s_ret, compile_ret, job_result>>
vars == <<protover, needs_dotd, wire, client, server>>

Peer == {"client", "server"}
Other(p) == IF p = "client" THEN "server" ELSE "client"
Token == {"DIST", "CDIR", "ARGC", "NFIL", "DOTI", "DONE", "STAT", "SERR",
          "SOUT", "DOTO", "DOTD", "JUNK"}
FileToken == {"NFIL", "DOTI", "SERR", "SOUT", "DOTO", "DOTD"}
CompilerStatus == {"ok", "error", "signal", "io", "timeout", "failed"}
Value == {"none", "whole", "short"} \cup Protover \cup CompilerStatus
Ret == {"ok", "io", "truncated", "protocol", "other"}
ClientLabel == {"x_dist", "x_cwd", "x_argv", "x_files", "wait_cpp", "x_doti",
                "r_done", "r_stat", "r_serr", "log_email", "r_sout", "r_doto",
                "r_dotd", "out", "done", "gone"}
ServerLabel == {"start", "r_dist", "r_cwd", "r_argv", "scan", "r_input",
                "compiler", "collect", "x_done", "x_stat", "x_serr", "x_sout",
                "x_doto_0", "x_doto", "x_dotd", "out_cleanup", "closed", "gone"}
JobResult == {"none", "compile_ok", "compile_error", "compile_timeout",
              "cli_disconn", "rej_bad_req", "other"}
\* "kept" is a partial file that could not be removed.
FileState == {"old", "absent", "new", "wrong", "partial", "kept"}

TypeOK ==
    /\ protover \in Versions /\ needs_dotd \in BOOLEAN
    /\ link \in {"up", "reset", "silent"}
    /\ open \in [Peer -> BOOLEAN]
    /\ inbox \in [Peer -> Seq([t : Token, v : Value])]
    /\ cpc \in ClientLabel /\ spc \in ServerLabel
    /\ c_status \in CompilerStatus /\ c_ret \in Ret
    /\ object \in FileState /\ deps \in FileState
    /\ s_ver \in Protover \cup {"unset"}
    /\ input \in {"none", "whole", "corrupt"}
    /\ cc \in {"none", "running", "killed"} \cup CompilerStatus
    /\ status \in CompilerStatus /\ s_ret \in Ret
    /\ compile_ret \in {"ok", "io", "timeout", "other"}
    /\ job_result \in JobResult

Init ==
    /\ protover \in Versions /\ needs_dotd \in BOOLEAN
    /\ link = "up" /\ open = [p \in Peer |-> TRUE]
    /\ inbox = [p \in Peer |-> <<>>]
    /\ cpc = "x_dist" /\ c_status = "ok" /\ c_ret = "ok"
    /\ object = "old" /\ deps = "old"
    /\ spc = "start" /\ s_ver = "unset" /\ input = "none" /\ cc = "none"
    /\ status = "ok" /\ s_ret = "ok" /\ compile_ret = "ok"
    /\ job_result = "none"

-----------------------------------------------------------------------------
(* The connection: dcc_readx, dcc_writex and the calls built on them *)

Connected(p) == link = "up" /\ open[Other(p)]

\* dcc_writex succeeds: the bytes arrive, or are lost in a dead connection.
Write(p, item) ==
    /\ inbox' = IF Connected(p) THEN [inbox EXCEPT ![Other(p)] = Append(@, item)]
                                ELSE inbox
    /\ UNCHANGED <<link, open>>

\* dcc_writex fails with EXIT_IO_ERROR.
WriteFails(p) == ~Connected(p) /\ UNCHANGED wire

\* dcc_x_token_int and the calls that send a token with a string.
dcc_x_token(p, tok, v) == Write(p, [t |-> tok, v |-> v])

\* dcc_x_file with compression z returns 0: it ignores the result of sending
\* the body, so after a read error a compressed file is not announced at all
\* and a plain one arrives short.
dcc_x_file(p, tok, v, z) ==
    \/ dcc_x_token(p, tok, v)
    \/ "xfile" \in Faults /\ z /\ UNCHANGED wire
    \/ "xfile" \in Faults /\ ~z /\ dcc_x_token(p, tok, "short")

\* dcc_x_file fails: the file cannot be opened, or the token not be sent.
dcc_x_file_fails(p) == WriteFails(p) \/ ("open" \in Faults /\ UNCHANGED wire)

\* A read of token tok (and its body) at p can complete ...
Readable(p, tok) ==
    /\ inbox[p] # <<>> /\ Head(inbox[p]).t = tok
    /\ Head(inbox[p]).v = "short" => Len(inbox[p]) > 1

\* ... in which case a short body is filled up with the bytes that follow.
Content(p) == IF Head(inbox[p]).v = "short" THEN "corrupt" ELSE Head(inbox[p]).v
Remainders(q) ==
    IF Head(q).v # "short" THEN {Tail(q)}
    ELSE {Tail(Tail(q)), <<[t |-> "JUNK", v |-> "none"]>> \o Tail(Tail(q))}
Consume(p) ==
    /\ \E rest \in Remainders(inbox[p]) : inbox' = [inbox EXCEPT ![p] = rest]
    /\ UNCHANGED <<link, open>>

\* ... or fails with e.  Only the client's socket is non-blocking, so only
\* its reads end after dcc_io_timeout.
Starved(p, tok) ==
    inbox[p] = <<>> \/ (Len(inbox[p]) = 1 /\ Head(inbox[p]) = [t |-> tok, v |-> "short"])
EndOfStream(p) == link = "reset" \/ (link = "up" /\ ~open[Other(p)])
ReadError(p, tok, e) ==
    /\ \/ inbox[p] # <<>> /\ Head(inbox[p]).t # tok /\ e = "protocol"
       \/ Starved(p, "NFIL") /\ inbox[p] # <<>> /\ e = "protocol" \* NAME out of step
       \/ /\ Starved(p, tok) /\ EndOfStream(p)
          /\ e = IF link = "reset" \/ inbox[p] # <<>> THEN "io" ELSE "truncated"
       \/ Starved(p, tok) /\ p = "client" /\ "timeout" \in Faults /\ e = "io"
    /\ UNCHANGED wire

-----------------------------------------------------------------------------
(* The client: dcc_compile_remote *)

ClientOnly == UNCHANGED <<protover, needs_dotd, server>>
ClientFails(e) ==
    cpc' = "out" /\ c_ret' = e /\ UNCHANGED <<c_status, object, deps>>
ClientGoto(l) == cpc' = l /\ UNCHANGED <<c_status, c_ret, object, deps>>

\* dcc_send_header, token by token.
ClientSends(from, tok, v, error, to) ==
    /\ cpc = from
    /\ \/ dcc_x_token("client", tok, v) /\ ClientGoto(to)
       \/ WriteFails("client") /\ \E e \in error : ClientFails(e)
    /\ ClientOnly

dcc_x_req_header ==
    ClientSends("x_dist", "DIST", protover, {"io"},
                IF protover = "VER_3" THEN "x_cwd" ELSE "x_argv")

\* When getcwd fails nothing is sent and that counts as success.
dcc_x_cwd ==
    \/ ClientSends("x_cwd", "CDIR", "whole", {"io"}, "x_argv")
    \/ /\ cpc = "x_cwd" /\ "local" \in Faults /\ ClientGoto("x_argv")
       /\ UNCHANGED wire /\ ClientOnly

\* A failure to send ARGC is EXIT_PROTOCOL_ERROR.
dcc_x_argv == ClientSends("x_argv", "ARGC", "whole", {"io", "protocol"},
                          IF protover = "VER_3" THEN "x_files" ELSE "wait_cpp")

\* dcc_x_many_files: NFIL and all the files; it may fail after some of them.
AfterFiles_AlsoDoti == "wait_cpp" \* fault model: no else branch
AfterFiles == "r_done"
dcc_x_many_files ==
    /\ cpc = "x_files"
    /\ \/ dcc_x_file("client", "NFIL", "whole", FALSE) /\ ClientGoto(AfterFiles)
       \/ dcc_x_file_fails("client") /\ ClientFails("io")
       \/ "open" \in Faults /\ dcc_x_token("client", "NFIL", "short") /\ ClientFails("io")
    /\ ClientOnly

\* dcc_wait_for_cpp; after a cpp failure the connection is just dropped.
dcc_wait_for_cpp(s) ==
    /\ cpc = "wait_cpp"
    /\ s = "ok" \/ "cpp" \in Faults
    /\ c_status' = s
    /\ cpc' = IF s = "ok" THEN "x_doti" ELSE "out"
    /\ UNCHANGED <<wire, c_ret, object, deps>> /\ ClientOnly

SendDoti ==
    /\ cpc = "x_doti"
    /\ \/ dcc_x_file("client", "DOTI", "whole", protover = "VER_2") /\ ClientGoto("r_done")
       \/ dcc_x_file_fails("client") /\ ClientFails("io")
    /\ ClientOnly

\* dcc_r_result_header: the comparison with the expected version is dead code.
dcc_r_result_header ==
    /\ cpc = "r_done"
    /\ \/ Readable("client", "DONE") /\ Consume("client") /\ ClientGoto("r_stat")
       \/ \E e \in Ret : ReadError("client", "DONE", e) /\ ClientFails(e)
    /\ ClientOnly

dcc_r_cc_status ==
    /\ cpc = "r_stat"
    /\ \/ /\ Readable("client", "STAT") /\ Consume("client")
          /\ c_status' = Content("client") /\ cpc' = "r_serr"
          /\ UNCHANGED <<c_ret, object, deps>>
       \/ \E e \in Ret : ReadError("client", "STAT", e) /\ ClientFails(e)
    /\ ClientOnly

\* SERR goes to a file, SOUT to stdout; a local write error is possible too.
ClientReceives(from, tok, to) ==
    /\ cpc = from
    /\ \/ Readable("client", tok) /\ Consume("client") /\ ClientGoto(to)
       \/ \E e \in Ret : ReadError("client", tok, e) /\ ClientFails(e)
       \/ "local" \in Faults /\ Readable("client", tok) /\ UNCHANGED wire /\ ClientFails("io")
    /\ ClientOnly

ReceiveStderr == ClientReceives("r_serr", "SERR", "log_email")
ReceiveStdout == ClientReceives("r_sout", "SOUT", "r_doto")

\* dcc_add_file_to_log_email; its failure returns ret, which is 0.
LogEmail(added) ==
    /\ cpc = "log_email"
    /\ added \/ "email" \in Faults
    /\ ClientGoto(IF added THEN "r_sout" ELSE "out")
    /\ UNCHANGED wire /\ ClientOnly

\* dcc_r_file removes the old file, and the new one again when it is not
\* complete; when that fails it is only logged.  What the file is between
\* these calls is seen when the client dies, see MidTransfer.
Received(v) == IF v = "whole" THEN "new" ELSE "wrong"
AfterFailedTransfer_Kept == {"partial"} \* fault model: no unlink
AfterFailedTransfer == {"absent"} \cup (IF "unlink" \in Faults THEN {"kept"} ELSE {})
dcc_r_file_ret_Ignored(e) == "ok" \* fault model: body result not checked
dcc_r_file_ret(e) == e

\* DOTO: the file is only read for status 0.
ReceiveObject ==
    /\ cpc = "r_doto"
    /\ \/ /\ Readable("client", "DOTO") /\ Consume("client")
          /\ object' = IF c_status = "ok" THEN Received(Content("client")) ELSE object
          /\ cpc' = IF c_status = "ok" /\ protover = "VER_3" THEN "r_dotd" ELSE "out"
          /\ UNCHANGED <<c_status, c_ret, deps>>
       \/ \E e \in Ret :
          /\ ReadError("client", "DOTO", e)
          /\ object' \in IF e = "io" /\ inbox["client"] # <<>> THEN AfterFailedTransfer ELSE {object}
          /\ cpc' = "out" /\ c_ret' = dcc_r_file_ret(e) /\ UNCHANGED <<c_status, deps>>
       \/ /\ "local" \in Faults /\ c_status = "ok" /\ Readable("client", "DOTO")
          /\ object' \in {object} \cup AfterFailedTransfer
          /\ cpc' = "out" /\ c_ret' = dcc_r_file_ret("io")
          /\ UNCHANGED <<wire, c_status, deps>>
    /\ ClientOnly

\* DOTD: "(ret = dcc_r_token_int(...) == 0) && deps_fname" keeps 0 as the
\* result when the token could not be read.
ReceiveDeps ==
    /\ cpc = "r_dotd" /\ cpc' = "out"
    /\ \/ /\ Readable("client", "DOTD") /\ Consume("client")
          /\ deps' = IF needs_dotd THEN Received(Content("client")) ELSE deps
          /\ UNCHANGED c_ret
       \/ /\ \E e \in Ret : ReadError("client", "DOTD", e)
          /\ LET partial == inbox["client"] # <<>> /\ Head(inbox["client"]).t = "DOTD" /\ needs_dotd
             IN  /\ deps' \in IF partial THEN AfterFailedTransfer ELSE {deps}
                 /\ c_ret' = IF partial THEN dcc_r_file_ret("io") ELSE c_ret
       \/ /\ "local" \in Faults /\ needs_dotd /\ Readable("client", "DOTD")
          /\ deps' \in {deps} \cup AfterFailedTransfer
          /\ c_ret' = dcc_r_file_ret("io") /\ UNCHANGED wire
    /\ UNCHANGED <<c_status, object>> /\ ClientOnly

ClientCloses ==
    /\ cpc = "out"
    /\ open' = [open EXCEPT !["client"] = FALSE]
    /\ ClientGoto("done")
    /\ UNCHANGED <<link, inbox>> /\ ClientOnly

ClientStep ==
    \/ dcc_x_req_header \/ dcc_x_cwd \/ dcc_x_argv \/ dcc_x_many_files
    \/ \E s \in {"ok", "error"} : dcc_wait_for_cpp(s)
    \/ SendDoti \/ dcc_r_result_header \/ dcc_r_cc_status
    \/ ReceiveStderr \/ ReceiveStdout
    \/ \E added \in BOOLEAN : LogEmail(added)
    \/ ReceiveObject \/ ReceiveDeps \/ ClientCloses

-----------------------------------------------------------------------------
(* The server: dcc_run_job *)

ServerOnly == UNCHANGED <<protover, needs_dotd, client>>
ServerGoto(l) ==
    spc' = l /\ UNCHANGED <<s_ver, input, cc, status, s_ret, compile_ret, job_result>>
ServerFails(e) ==
    /\ spc' = "out_cleanup" /\ s_ret' = e
    /\ UNCHANGED <<s_ver, input, cc, status, compile_ret, job_result>>

\* The temporary files and the log file.
ServerStarts ==
    /\ spc = "start" /\ ServerGoto("r_dist")
    /\ UNCHANGED wire /\ ServerOnly

dcc_r_request_header ==
    /\ spc = "r_dist"
    /\ \/ /\ Readable("server", "DIST") /\ Consume("server")
          /\ s_ver' = Content("server")
          /\ spc' = IF Content("server") = "VER_3" THEN "r_cwd" ELSE "r_argv"
          /\ UNCHANGED <<input, cc, status, s_ret, compile_ret, job_result>>
       \/ \E e \in Ret : ReadError("server", "DIST", e) /\ ServerFails(e)
    /\ ServerOnly

ServerReceives(from, tok, to) ==
    /\ spc = from
    /\ \/ Readable("server", tok) /\ Consume("server") /\ ServerGoto(to)
       \/ \E e \in Ret : ReadError("server", tok, e) /\ ServerFails(e)
    /\ ServerOnly

\* make_temp_dir_and_chdir_for_cpp.
dcc_r_cwd == ServerReceives("r_cwd", "CDIR", "r_argv")

\* Any failure to read ARGC is EXIT_PROTOCOL_ERROR, one of ARGV is not.
dcc_r_argv ==
    \/ ServerReceives("r_argv", "ARGC", "scan")
    \/ /\ spc = "r_argv" /\ \E e \in Ret : ReadError("server", "ARGC", e)
       /\ ServerFails("protocol") /\ ServerOnly

\* dcc_scan_args and the name for the object file.
ScanArgs ==
    /\ spc = "scan" /\ ServerGoto("r_input")
    /\ UNCHANGED wire /\ ServerOnly

\* Any of these calls fails: temporary files, mkdtemp, chdir, arguments that
\* are not for a server, dcc_check_compiler_masq, dcc_fix_debug_info,
\* dcc_cleanup_dotd.  Some of them return EXIT_IO_ERROR, which is counted as
\* a disconnection.
ServerInternalError ==
    /\ "server" \in Faults
    /\ \/ spc \in {"start", "scan", "compiler"}
       \/ spc \in {"r_argv", "x_doto"} /\ s_ver = "VER_3"
       \/ spc = "x_dotd" /\ needs_dotd
    /\ \E e \in {"io", "other"} : ServerFails(e)
    /\ UNCHANGED wire /\ ServerOnly

\* The source: one DOTI, or all the files; when those fail ret stays 0.
ReceiveInput ==
    /\ spc = "r_input"
    /\ LET tok == IF s_ver = "VER_3" THEN "NFIL" ELSE "DOTI"
       IN  \/ /\ Readable("server", tok) /\ Consume("server")
              /\ input' = Content("server") /\ spc' = "compiler"
              /\ UNCHANGED <<s_ver, cc, status, s_ret, compile_ret, job_result>>
           \/ \E e \in Ret :
              /\ ReadError("server", tok, e)
              /\ ServerFails(IF s_ver = "VER_3" THEN "ok" ELSE e)
           \/ /\ "server" \in Faults /\ Readable("server", tok) \* cannot be written
              /\ UNCHANGED wire
              /\ ServerFails(IF s_ver = "VER_3" THEN "ok" ELSE "io")
    /\ ServerOnly

\* dcc_remap_compiler refuses the compiler: to out_cleanup with ret 0.
dcc_remap_compiler_refuses ==
    /\ spc = "compiler" /\ "server" \in Faults
    /\ ServerFails("ok")
    /\ UNCHANGED wire /\ ServerOnly

dcc_spawn_child_StatusAsRet(ok) == \* fault model: compile_ret not an exit code
    /\ spc = "compiler" /\ spc' = "collect"
    /\ cc' = "running" /\ compile_ret' = "failed"
    /\ UNCHANGED <<s_ver, input, status, s_ret, job_result>>
    /\ UNCHANGED wire /\ ServerOnly

dcc_spawn_child(ok) ==
    /\ spc = "compiler"
    /\ ok \/ "server" \in Faults
    /\ cc' = IF ok THEN "running" ELSE cc
    /\ status' = IF ok THEN status ELSE "failed"
    /\ compile_ret' = IF ok THEN compile_ret ELSE "other"
    /\ spc' = IF ok THEN "collect" ELSE "x_done"
    /\ UNCHANGED <<s_ver, input, s_ret, job_result>>
    /\ UNCHANGED wire /\ ServerOnly

\* dcc_collect_child: wait for the compiler, but kill it when the client's
\* socket reads end of file or dcc_job_lifetime is over.
CollectCompiler ==
    /\ spc = "collect" /\ cc # "running"
    /\ status' = cc /\ spc' = "x_done"
    /\ UNCHANGED <<s_ver, input, cc, s_ret, compile_ret, job_result>>
    /\ UNCHANGED wire /\ ServerOnly

\* The wait itself fails: nobody will collect or kill the compiler.
CollectFails ==
    /\ spc = "collect" /\ "server" \in Faults
    /\ status' = "failed" /\ compile_ret' = "other" /\ spc' = "x_done"
    /\ UNCHANGED <<s_ver, input, cc, s_ret, job_result>>
    /\ UNCHANGED wire /\ ServerOnly

KillCompiler(why) ==
    /\ cc' = "killed" /\ status' = why /\ compile_ret' = why /\ spc' = "x_done"
    /\ UNCHANGED <<s_ver, input, s_ret, job_result>>
    /\ UNCHANGED wire /\ ServerOnly

ClientDisconnected_NotNoticed == FALSE \* fault model: in_fd is not watched
ClientDisconnected ==
    /\ spc = "collect" /\ cc = "running"
    /\ inbox["server"] = <<>> /\ EndOfStream("server")
    /\ KillCompiler("io")

LifetimeOver ==
    /\ spc = "collect" /\ cc = "running" /\ "lifetime" \in Faults
    /\ KillCompiler("timeout")

\* The response up to SOUT; any failure leads to "DOTO 0".
ServerSends(from, ok, fails, to) ==
    /\ spc = from
    /\ \/ ok /\ ServerGoto(to)
       \/ /\ fails /\ spc' = "x_doto_0" /\ s_ret' = "io"
          /\ UNCHANGED <<s_ver, input, cc, status, compile_ret, job_result>>
    /\ ServerOnly

Compressed == s_ver # "VER_1"
DoneVersion(v) == v = s_ver \/ "version" \in Faults
dcc_x_result_header ==
    \E v \in Protover : DoneVersion(v) /\
        ServerSends("x_done", dcc_x_token("server", "DONE", v), WriteFails("server"), "x_stat")
dcc_x_cc_status ==
    ServerSends("x_stat", dcc_x_token("server", "STAT", status), WriteFails("server"), "x_serr")
SendStderr ==
    ServerSends("x_serr", dcc_x_file("server", "SERR", "whole", Compressed),
                dcc_x_file_fails("server"), "x_sout")
SendStdout ==
    ServerSends("x_sout", dcc_x_file("server", "SOUT", "whole", Compressed),
                dcc_x_file_fails("server"), IF status = "ok" THEN "x_doto" ELSE "x_doto_0")

\* "DOTO 0"; its own result is ignored.
SendNoObject ==
    /\ spc = "x_doto_0"
    /\ dcc_x_token("server", "DOTO", "none") \/ WriteFails("server")
    /\ spc' = "out_cleanup" /\ job_result' = "compile_error"
    /\ UNCHANGED <<s_ver, input, cc, status, s_ret, compile_ret>>
    /\ ServerOnly

SendObject ==
    /\ spc = "x_doto"
    /\ \/ /\ dcc_x_file("server", "DOTO", "whole", Compressed)
          /\ spc' = IF s_ver = "VER_3" THEN "x_dotd" ELSE "out_cleanup"
          /\ job_result' = IF s_ver = "VER_3" THEN job_result ELSE "compile_ok"
          /\ UNCHANGED <<s_ver, input, cc, status, s_ret, compile_ret>>
       \/ dcc_x_file_fails("server") /\ ServerFails("io")
    /\ ServerOnly

\* DOTD with the dependencies if the arguments ask for them, else "DOTD 0".
SendDeps ==
    /\ spc = "x_dotd"
    /\ \/ needs_dotd /\ dcc_x_file("server", "DOTD", "whole", TRUE) /\ UNCHANGED s_ret
       \/ ~needs_dotd /\ dcc_x_token("server", "DOTD", "none") /\ UNCHANGED s_ret
       \/ dcc_x_file_fails("server") /\ s_ret' = "io"
    /\ spc' = "out_cleanup" /\ job_result' = "compile_ok"
    /\ UNCHANGED <<s_ver, input, cc, status, compile_ret>>
    /\ ServerOnly

\* What is counted: a disconnection or timeout seen while compiling, then ret.
Classify_RetForgotten(r) == \* fault model: no "switch (ret)"
    CASE compile_ret = "io" -> "cli_disconn" [] compile_ret = "timeout" -> "compile_timeout"
      [] OTHER -> r
Classify(r) ==
    CASE s_ret = "io"              -> "cli_disconn"
      [] s_ret = "protocol"        -> "rej_bad_req"
      [] r = "none"                -> "other"
      [] compile_ret = "io"        -> "cli_disconn"
      [] compile_ret = "timeout"   -> "compile_timeout"
      [] OTHER                     -> r

\* out_cleanup, after which the connection is closed.
ServerCleansUp ==
    /\ spc = "out_cleanup" /\ spc' = "closed"
    /\ job_result' = Classify(job_result)
    /\ open' = [open EXCEPT !["server"] = FALSE]
    /\ UNCHANGED <<link, inbox, s_ver, input, cc, status, s_ret, compile_ret>>
    /\ ServerOnly

ServerStep ==
    \/ ServerStarts \/ dcc_r_request_header \/ dcc_r_cwd \/ dcc_r_argv \/ ScanArgs
    \/ ReceiveInput \/ dcc_remap_compiler_refuses
    \/ \E ok \in BOOLEAN : dcc_spawn_child(ok)
    \/ CollectCompiler \/ ClientDisconnected
    \/ dcc_x_result_header \/ dcc_x_cc_status \/ SendStderr \/ SendStdout
    \/ SendNoObject \/ SendObject \/ SendDeps \/ ServerCleansUp

\* What may, but need not, happen to a server that is waiting: by default
\* there is no job lifetime.
ServerFault == ServerInternalError \/ CollectFails \/ LifetimeOver

-----------------------------------------------------------------------------
(* The environment *)

CompilerEnds(s) ==
    /\ cc = "running"
    /\ s = "ok" \/ "compiler" \in Faults
    /\ cc' = s
    /\ UNCHANGED <<protover, needs_dotd, wire, client, spc, s_ver, input, status,
                   s_ret, compile_ret, job_result>>

\* A reset loses any last part of what is on its way, possibly in the middle
\* of a file.
Cuts(q) ==
    {SubSeq(q, 1, n) : n \in 0..Len(q)} \cup
    {Append(SubSeq(q, 1, n - 1), [q[n] EXCEPT !.v = "short"]) :
        n \in {k \in 1..Len(q) : q[k].t \in FileToken /\ q[k].v # "none"}}

Reset ==
    /\ "reset" \in Faults /\ link = "up"
    /\ link' = "reset"
    /\ \E a \in Cuts(inbox["client"]), b \in Cuts(inbox["server"]) :
         inbox' = [p \in Peer |-> IF p = "client" THEN a ELSE b]
    /\ UNCHANGED <<protover, needs_dotd, open, client, server>>

\* The client dies, perhaps in dcc_r_file: after the token the old file is
\* removed and the new one opened and filled, and nobody will remove it.
MidTransfer(file, from, tok) ==
    IF cpc = from /\ inbox["client"] # <<>> /\ Head(inbox["client"]).t = tok
    THEN {file, "absent", "partial"} ELSE {file}

ClientDies ==
    /\ cpc \notin {"done", "gone"} /\ cpc' = "gone"
    /\ object' \in IF c_status = "ok" THEN MidTransfer(object, "r_doto", "DOTO") ELSE {object}
    /\ deps' \in IF needs_dotd THEN MidTransfer(deps, "r_dotd", "DOTD") ELSE {deps}
    /\ UNCHANGED <<c_status, c_ret, inbox>> /\ ClientOnly

\* It is killed, or the user interrupts it: the system closes the socket.
ClientKilled ==
    /\ "client_killed" \in Faults /\ ClientDies
    /\ open' = [open EXCEPT !["client"] = FALSE] /\ UNCHANGED link

\* A host loses power or its network: nothing tells the other side.
ClientVanishes ==
    /\ "client_vanishes" \in Faults /\ ClientDies
    /\ link = "up" /\ link' = "silent" /\ UNCHANGED open

ServerVanishes ==
    /\ "server_vanishes" \in Faults /\ link = "up" /\ spc # "closed"
    /\ link' = "silent"
    /\ spc' = "gone"
    /\ UNCHANGED <<protover, needs_dotd, open, inbox, client, s_ver, input, cc, status,
                   s_ret, compile_ret, job_result>>

Next ==
    \/ ClientStep \/ ServerStep \/ ServerFault
    \/ \E s \in {"ok", "error", "signal"} : CompilerEnds(s)
    \/ Reset \/ ClientKilled \/ ClientVanishes \/ ServerVanishes

Spec == Init /\ [][Next]_vars

\* Both processes are scheduled and the client's reads time out.  That the
\* compiler ever ends is not assumed, nor is any failure.
FairSpec == Spec /\ WF_vars(ClientStep) /\ WF_vars(ServerStep)

-----------------------------------------------------------------------------
(* Properties *)

Success == cpc = "done" /\ c_ret = "ok" /\ c_status = "ok"

\* What dcc_build_somewhere takes for success (ret 0 and status 0) is: the
\* server received the whole source, its compiler succeeded on it, and the
\* complete object is in the output file, whatever was lost, cut short or
\* left out of the stream on the way.
SuccessMeansObject ==
    Success => object = "new" /\ input = "whole" /\ cc = "ok"

\* However the job ends, the output file is the old one, none, or the complete
\* object of this job, although dcc_r_file writes it in place.  A partial file
\* that make would take for up to date is left only by a client that dies while
\* it receives the object, or whose unlink fails: this one returns an error, and
\* the caller compiles again.
NoPartialObject ==
    cpc \in {"done", "gone"} =>
        \/ object \in {"old", "absent"}
        \/ object = "new" /\ input = "whole" /\ cc = "ok"
        \/ object = "kept" /\ c_ret # "ok"
        \/ object = "partial" /\ cpc = "gone"

\* While it waits for the compiler the server reads from the client's socket
\* only to see it closed: the "Bug!  Read from fd succeeded" of
\* dcc_collect_child cannot happen.
NoStrayInput == spc = "collect" => inbox["server"] = <<>>

\* The statistics tell the truth about the job: COMPILE_OK is only counted
\* for a compiler that succeeded and a response that was sent without error,
\* and a plain-mode job that succeeded for the client is counted as such.
StatsTruthful ==
    spc = "closed" =>
        /\ job_result = "compile_ok" => cc = "ok" /\ s_ret = "ok"
        /\ Success /\ protover # "VER_3" => job_result = "compile_ok"

\* Both sides end: a client that waits is released by its timeout, and a
\* server whose compiler never ends by the client's disconnection, which may
\* be its death.  Only a client that vanishes without closing its socket may
\* leave the server waiting.
BothEnd ==
    /\ <>(cpc \in {"done", "gone"})
    /\ <>(spc \in {"closed", "gone"} \/ (cpc = "gone" /\ link = "silent"))

\* The session implements RemoteJob, although a file that was received is
\* written in place, either side may stop between any two tokens and what a
\* token announces may not be what follows it.
JobCompiler ==
    CASE cc = "none" -> "idle" [] cc \in {"running", "ok", "killed"} -> cc [] OTHER -> "failed"
JobOutcome ==
    CASE cpc = "gone" -> "vanished"
      [] Success -> "success"
      [] cpc = "done" /\ ~Success -> "failure"
      [] OTHER -> "pending"
Job == INSTANCE RemoteJob WITH
    source <- input, compiler <- JobCompiler, object <- object, outcome <- JobOutcome
ImplementsRemoteJob == Job!Spec

-----------------------------------------------------------------------------
(* What comments say that the code does not do *)

\* clirpc.c:195: "If the compiler succeeded, then we always retrieve the
\* result"; with discrepancy mails enabled it is skipped.
ObjectAlwaysRetrieved == Success => object = "new"

\* serve.c: "The current client always expects a DOTD token": a client that
\* needs the dependencies and succeeds has them.
DepsAlwaysRetrieved == (Success /\ protover = "VER_3" /\ needs_dotd) => deps = "new"

=============================================================================
