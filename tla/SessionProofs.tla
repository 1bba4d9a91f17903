---------------------------- MODULE SessionProofs ----------------------------
(***************************************************************************)
(* The safety properties of Session and that it implements RemoteJob, for  *)
(* any set of protocol versions and any faults.  What rests on the object  *)
(* being fetched after every success is proved where storing the server's  *)
(* messages for the discrepancy mail does not fail.                        *)
(***************************************************************************)
EXTENDS Session, TLAPS

-----------------------------------------------------------------------------
(* The order of the tokens *)

\* The place of a token in its stream; what is left of a file that was read
\* over has none.
Rank(tok) ==
    CASE tok \in {"DIST", "DONE"} -> 1
      [] tok \in {"CDIR", "STAT"} -> 2
      [] tok \in {"ARGC", "SERR"} -> 3
      [] tok \in {"NFIL", "DOTI", "SOUT"} -> 4
      [] tok = "DOTO" -> 5
      [] tok = "DOTD" -> 6
      [] OTHER -> 0

Item == [t : Token, v : Value]
Rising(q) == \A i, j \in 1..Len(q) : i < j => Rank(q[i].t) < Rank(q[j].t)
Below(q, n) == \A i \in 1..Len(q) : Rank(q[i].t) < n

\* The place of what either side sends next, and of what the client reads next.
ClientSending ==
    CASE cpc = "x_dist" -> 1 [] cpc = "x_cwd" -> 2 [] cpc = "x_argv" -> 3
      [] cpc \in {"x_files", "wait_cpp", "x_doti"} -> 4
      [] OTHER -> 5
ServerSending ==
    CASE spc \in {"start", "r_dist", "r_cwd", "r_argv", "scan", "r_input", "compiler",
                  "collect", "x_done"} -> 1
      [] spc = "x_stat" -> 2 [] spc = "x_serr" -> 3 [] spc = "x_sout" -> 4
      [] spc \in {"x_doto", "x_doto_0"} -> 5
      [] spc = "x_dotd" -> 6
      [] OTHER -> 7
ClientReading ==
    CASE cpc = "r_stat" -> 2 [] cpc = "r_serr" -> 3
      [] cpc \in {"log_email", "r_sout"} -> 4
      [] cpc = "r_doto" -> 5 [] cpc = "r_dotd" -> 6
      [] cpc \in {"out", "done", "gone"} -> 0
      [] OTHER -> 1

-----------------------------------------------------------------------------
(* The inductive invariant *)

Preparing == {"start", "r_dist", "r_cwd", "r_argv", "scan", "r_input"}
Responding == {"x_done", "x_stat", "x_serr", "x_sout", "x_doto_0", "x_doto", "x_dotd"}
Ended == {"out", "done", "gone"}

ToServer ==
    LET q == inbox["server"]
    IN  /\ Rising(q) /\ Below(q, ClientSending)
        /\ \A i \in 1..Len(q) :
               /\ q[i].t \in {"DIST", "CDIR", "ARGC", "NFIL", "DOTI"}
               /\ q[i].t = "DIST" => q[i].v = protover
               /\ q[i].t \in {"CDIR", "ARGC"} => q[i].v = "whole"
               /\ q[i].t \in {"NFIL", "DOTI"} => q[i].v \in {"whole", "short"}

ServerAt ==
    /\ s_ver \in {"unset", protover}
    /\ spc \in {"r_cwd", "r_argv", "scan", "r_input", "compiler", "collect"} \cup Responding =>
           s_ver = protover
    /\ spc \in Preparing => input = "none" /\ cc = "none"
    /\ input \in {"none", "whole"}
    /\ spc = "compiler" => cc = "none"
    /\ spc = "collect" => cc \in {"running", "ok", "error", "signal"}
    /\ spc \in {"compiler", "collect"} \cup Responding =>
           input = "whole" /\ inbox["server"] = <<>> /\ ClientSending = 5
    /\ spc \in Preparing \cup {"compiler", "collect"} => compile_ret = "ok"
    /\ spc \in Responding /\ status = "ok" => cc = "ok" /\ compile_ret = "ok"
    /\ spc \in {"x_doto", "x_dotd"} => status = "ok"
    /\ spc = "x_dotd" => s_ver = "VER_3"
    /\ spc \in Preparing \cup {"compiler", "collect"} \cup (Responding \ {"x_doto_0"}) =>
           s_ret = "ok"
    /\ spc \in Preparing \cup {"compiler", "collect"} \cup Responding => job_result = "none"
    /\ job_result = "compile_ok" => cc = "ok" /\ s_ret \in {"ok", "io"}
    /\ spc = "closed" /\ job_result = "compile_ok" => s_ret = "ok"

\* The server has sent an object.
ObjectSent ==
    /\ status = "ok" /\ cc = "ok" /\ input = "whole"
    /\ spc \in {"x_dotd", "out_cleanup", "closed", "gone"}
    /\ protover # "VER_3" /\ spc \in {"out_cleanup", "closed"} =>
           job_result = "compile_ok" /\ s_ret = "ok" /\ compile_ret = "ok"

\* Something of the response before the object has not been sent, and so the
\* client never reaches what comes after it.
Gap ==
    \E r \in 1..4 : /\ ClientReading <= r
                    /\ \A i \in 1..Len(inbox["client"]) : Rank(inbox["client"][i].t) # r

ToClient ==
    LET q == inbox["client"]
    IN  /\ Rising(q) /\ Below(q, ServerSending)
        /\ ClientReading <= ServerSending
        /\ spc = "x_doto_0" /\ status = "ok" => Gap
        /\ \A i \in 1..Len(q) :
               /\ q[i].t = "STAT" => q[i].v = status
               /\ q[i].t = "DOTO" => q[i].v \in {"none", "whole", "short"}
               /\ q[i].t = "DOTO" /\ q[i].v # "none" => ObjectSent
               /\ q[i].t = "DOTO" /\ q[i].v = "none" /\ status = "ok" => Gap
               /\ q[i].t = "DOTO" /\ q[i].v = "short" =>
                      i = Len(q) /\ (s_ver = "VER_1" \/ link # "up")

ClientAt ==
    /\ cpc \notin Ended => c_ret = "ok"
    /\ cpc \in {"r_serr", "log_email", "r_sout", "r_doto", "r_dotd"} => c_status = status
    /\ cpc \notin Ended \cup {"r_dotd"} => object = "old"
    /\ cpc = "r_dotd" => object = "new" /\ c_status = "ok"
    /\ object \in {"old", "absent", "new", "partial", "kept"}
    /\ object = "partial" => cpc = "gone"
    /\ object = "kept" => c_ret # "ok"
    /\ object # "old" => ObjectSent
    /\ "email" \notin Faults /\ cpc \in {"out", "done"} /\ c_ret = "ok" /\ c_status = "ok" =>
           object = "new"

IInv == TypeOK /\ ToServer /\ ServerAt /\ ToClient /\ ClientAt
-----------------------------------------------------------------------------
(* What happens to the items of a stream *)

LEMMA RankType ==
    ASSUME NEW tok
    PROVE  Rank(tok) \in 0..6
  BY DEF Rank

\* An item of a later place is written at the end.
LEMMA Appended ==
    ASSUME NEW q \in Seq(Item), NEW x \in Item, Rising(q), Below(q, Rank(x.t))
    PROVE  /\ Append(q, x) \in Seq(Item) /\ Rising(Append(q, x))
           /\ Len(Append(q, x)) = Len(q) + 1 /\ Append(q, x)[Len(q) + 1] = x
           /\ \A i \in 1..Len(q) : Append(q, x)[i] = q[i]
<1>1. /\ Append(q, x) \in Seq(Item)
      /\ Len(Append(q, x)) = Len(q) + 1 /\ Append(q, x)[Len(q) + 1] = x
      /\ \A i \in 1..Len(q) : Append(q, x)[i] = q[i]
  OBVIOUS
<1>2. Rising(Append(q, x))
  BY <1>1, RankType DEF Rising, Below
<1>. QED  BY <1>1, <1>2

\* A read takes the first item, and a file that is too short the next one as
\* well or a part of it.
LEMMA Remaining ==
    ASSUME NEW q \in Seq(Item), q # <<>>, Rising(q), Head(q).v = "short" => Len(q) > 1,
           NEW rest \in Remainders(q)
    PROVE  /\ rest \in Seq(Item) /\ Rising(rest)
           /\ \A i \in 1..Len(rest) :
                  \/ rest[i].t = "JUNK"
                  \/ \E j \in 2..Len(q) : rest[i] = q[j] /\ (i < Len(rest) => j < Len(q))
<1> DEFINE junk == [t |-> "JUNK", v |-> "none"]
<1>1. Len(q) \in Nat \ {0} /\ \A i \in 1..Len(q) : q[i] \in Item
  OBVIOUS
<1>2. CASE Head(q).v # "short"
  <2>1. rest = Tail(q)
    BY <1>2 DEF Remainders
  <2>2. rest \in Seq(Item) /\ Len(rest) = Len(q) - 1 /\ \A i \in 1..Len(rest) : rest[i] = q[i + 1]
    BY <2>1
  <2>3. Rising(rest)
    BY <1>1, <2>2 DEF Rising
  <2>4. ASSUME NEW i \in 1..Len(rest)
        PROVE  \E j \in 2..Len(q) : rest[i] = q[j] /\ (i < Len(rest) => j < Len(q))
    <3>1. i + 1 \in 2..Len(q) /\ rest[i] = q[i + 1] /\ (i < Len(rest) => i + 1 < Len(q))
      BY <1>1, <2>2
    <3>. QED  BY <3>1
  <2>. QED  BY <2>2, <2>3, <2>4
<1>3. CASE Head(q).v = "short"
  <2>1. Len(q) > 1
    BY <1>3
  <2> DEFINE u == Tail(q)
             w == Tail(u)
  <2>a. u \in Seq(Item) /\ Len(u) = Len(q) - 1 /\ \A i \in 1..Len(u) : u[i] = q[i + 1]
    OBVIOUS
  <2>b. w \in Seq(Item) /\ Len(w) = Len(u) - 1 /\ \A i \in 1..Len(w) : w[i] = u[i + 1]
    <3> HIDE DEF u
    <3>. QED  BY <2>1, <2>a
  <2>c. w \in Seq(Item) /\ Len(w) = Len(q) - 2 /\ \A i \in 1..Len(w) : w[i] = q[i + 2]
    <3> HIDE DEF u, w
    <3>. QED  BY <1>1, <2>a, <2>b
  <2> HIDE DEF w
  <2>2. CASE rest = w
    <3>1. /\ rest \in Seq(Item) /\ Len(rest) = Len(q) - 2
          /\ \A i \in 1..Len(rest) : rest[i] = q[i + 2]
      BY <2>2, <2>c
    <3>2. Rising(rest)
      BY <1>1, <3>1 DEF Rising
    <3>3. ASSUME NEW i \in 1..Len(rest)
          PROVE  \E j \in 2..Len(q) : rest[i] = q[j] /\ (i < Len(rest) => j < Len(q))
      <4>1. i + 2 \in 2..Len(q) /\ rest[i] = q[i + 2] /\ (i < Len(rest) => i + 2 < Len(q))
        BY <1>1, <3>1
      <4>. QED  BY <4>1
    <3>. QED  BY <3>1, <3>2, <3>3
  <2>3. CASE rest = <<junk>> \o w
    <3>1. junk \in Item
      BY DEF Item, Token, Value
    <3>2. /\ rest \in Seq(Item) /\ Len(rest) = Len(q) - 1 /\ rest[1] = junk
          /\ \A i \in 2..Len(rest) : rest[i] = q[i + 1]
      <4>1. /\ <<junk>> \in Seq(Item) /\ Len(<<junk>>) = 1 /\ <<junk>>[1] = junk
        BY <3>1
      <4>2. rest \in Seq(Item) /\ Len(rest) = 1 + Len(w)
        BY <2>3, <2>c, <4>1
      <4>3. rest[1] = junk /\ \A i \in 2..Len(rest) : rest[i] = w[i - 1]
        BY <2>3, <2>c, <4>1, <4>2
      <4>. QED  BY <1>1, <2>c, <4>2, <4>3
    <3>3. \A i \in 2..Len(q) : Rank(q[i].t) > 0
      BY <1>1, RankType DEF Rising
    <3>4. Rising(rest)
      <4>1. Rank(junk.t) = 0
        BY DEF Rank
      <4>2. ASSUME NEW i \in 1..Len(rest), NEW j \in 1..Len(rest), i < j
            PROVE  Rank(rest[i].t) < Rank(rest[j].t)
        <5>1. CASE i = 1
          BY <1>1, <3>2, <3>3, <4>1, <4>2, <5>1
        <5>2. CASE i # 1
          BY <1>1, <3>2, <4>2, <5>2 DEF Rising
        <5>. QED  BY <5>1, <5>2
      <4>. QED  BY <4>2 DEF Rising
    <3>5. ASSUME NEW i \in 1..Len(rest), rest[i].t # "JUNK"
          PROVE  \E j \in 2..Len(q) : rest[i] = q[j] /\ (i < Len(rest) => j < Len(q))
      <4>1. i # 1
        BY <3>2, <3>5
      <4>2. i + 1 \in 2..Len(q) /\ rest[i] = q[i + 1] /\ (i < Len(rest) => i + 1 < Len(q))
        BY <1>1, <3>2, <4>1
      <4>. QED  BY <4>2
    <3>. QED  BY <3>2, <3>4, <3>5
  <2>. QED  BY <1>3, <2>2, <2>3 DEF Remainders, w
<1>. QED  BY <1>2, <1>3

\* A reset leaves a beginning of the stream, the last file perhaps short.
LEMMA CutOff ==
    ASSUME NEW q \in Seq(Item), Rising(q), NEW a \in Cuts(q)
    PROVE  /\ a \in Seq(Item) /\ Rising(a) /\ Len(a) <= Len(q)
           /\ \A i \in 1..Len(a) :
                  /\ a[i].t = q[i].t
                  /\ \/ a[i] = q[i] /\ (i < Len(a) => i < Len(q))
                     \/ /\ i = Len(a) /\ a[i].v = "short"
                        /\ q[i].t \in FileToken /\ q[i].v # "none"
<1>1. CASE a \in {SubSeq(q, 1, n) : n \in 0..Len(q)}
  <2>1. PICK n \in 0..Len(q) : a = SubSeq(q, 1, n)
    BY <1>1
  <2>2. a \in Seq(Item) /\ Len(a) = n /\ \A i \in 1..n : a[i] = q[i]
    BY <2>1
  <2>3. Rising(a)
    BY <2>2 DEF Rising
  <2>. QED  BY <2>2, <2>3
<1>2. CASE a \in {Append(SubSeq(q, 1, n - 1), [q[n] EXCEPT !.v = "short"]) :
                      n \in {k \in 1..Len(q) : q[k].t \in FileToken /\ q[k].v # "none"}}
  <2>1. PICK n \in 1..Len(q) : /\ q[n].t \in FileToken /\ q[n].v # "none"
                               /\ a = Append(SubSeq(q, 1, n - 1), [q[n] EXCEPT !.v = "short"])
    BY <1>2
  <2> DEFINE b == SubSeq(q, 1, n - 1)
             x == [q[n] EXCEPT !.v = "short"]
  <2>2. b \in Seq(Item) /\ Len(b) = n - 1 /\ \A i \in 1 .. n - 1 : b[i] = q[i]
    OBVIOUS
  <2>3. x \in Item /\ x.t = q[n].t /\ x.v = "short"
    <3>1. q[n] \in Item
      OBVIOUS
    <3>. QED  BY <3>1 DEF Item, Value
  <2>4. /\ a \in Seq(Item) /\ Len(a) = n /\ a[n] = x
        /\ \A i \in 1 .. n - 1 : a[i] = q[i]
    <3> HIDE DEF b, x
    <3>. QED  BY <2>1, <2>2, <2>3 DEF b, x
  <2>5. Rising(a)
    <3> HIDE DEF x
    <3>. QED  BY <2>3, <2>4 DEF Rising
  <2>. QED  BY <2>1, <2>3, <2>4, <2>5
<1>. QED  BY <1>1, <1>2 DEF Cuts
-----------------------------------------------------------------------------
(* The client sends *)

Sending == {"x_dist", "x_cwd", "x_argv", "x_files", "wait_cpp", "x_doti"}

\* What the client may put into its request.
Requested(x) ==
    /\ x \in Item /\ x.t \in {"DIST", "CDIR", "ARGC", "NFIL", "DOTI"}
    /\ x.t = "DIST" => x.v = protover
    /\ x.t \in {"CDIR", "ARGC"} => x.v = "whole"
    /\ x.t \in {"NFIL", "DOTI"} => x.v \in {"whole", "short"}

\* A step of the client puts at most one item, the next in order, into the
\* server's stream.
PutsOn ==
    \/ inbox' = inbox
    \/ \E x : /\ Requested(x) /\ Rank(x.t) = ClientSending /\ ClientSending < ClientSending'
              /\ inbox' = [inbox EXCEPT !["server"] = Append(@, x)]

\* All that its steps up to the last item do.
SendsOn ==
    /\ cpc \in Sending
    /\ \/ cpc' \in Sending \cup {"r_done"} /\ c_ret' = c_ret /\ c_status' \in CompilerStatus
       \/ /\ cpc' = "out" /\ c_ret' \in Ret /\ c_status' \in CompilerStatus
          /\ ~(c_ret' = "ok" /\ c_status' = "ok")
    /\ ClientSending <= ClientSending'
    /\ PutsOn
    /\ UNCHANGED <<link, open, object, deps, protover, needs_dotd, server>>

RequestSteps ==
    \/ dcc_x_req_header \/ dcc_x_cwd \/ dcc_x_argv \/ dcc_x_many_files \/ SendDoti
    \/ \E s \in {"ok", "error"} : dcc_wait_for_cpp(s)

LEMMA PutsItem ==
    ASSUME NEW tok, NEW val, Requested([t |-> tok, v |-> val]), Rank(tok) = ClientSending,
           ClientSending < ClientSending', dcc_x_token("client", tok, val)
    PROVE  PutsOn /\ UNCHANGED <<link, open>>
<1> DEFINE x == [t |-> tok, v |-> val]
<1>1. x.t = tok
  OBVIOUS
<1>2. UNCHANGED <<link, open>>
  BY DEF dcc_x_token, Write
<1>3. \/ inbox' = inbox
      \/ inbox' = [inbox EXCEPT !["server"] = Append(@, x)]
  BY DEF dcc_x_token, Write, Other
<1>4. Requested(x)
  OBVIOUS
<1> HIDE DEF x
<1>. QED  BY <1>1, <1>2, <1>3, <1>4 DEF PutsOn

LEMMA RequestIsSending ==
    ASSUME TypeOK, RequestSteps
    PROVE  SendsOn
<1> USE SessionAssumption
<1>0. /\ protover \in Protover /\ c_status \in CompilerStatus
      /\ UNCHANGED wire => PutsOn /\ UNCHANGED <<link, open>>
  BY DEF TypeOK, wire, PutsOn
<1>1. CASE dcc_x_req_header
  <2>1. Requested([t |-> "DIST", v |-> protover]) /\ Rank("DIST") = 1
    BY <1>0 DEF Requested, Item, Token, Value, Rank
  <2>2. /\ cpc = "x_dist" /\ UNCHANGED <<object, deps, c_status, protover, needs_dotd, server>>
        /\ \/ /\ dcc_x_token("client", "DIST", protover)
              /\ cpc' \in {"x_cwd", "x_argv"} /\ c_ret' = c_ret
           \/ cpc' = "out" /\ c_ret' = "io" /\ UNCHANGED wire
    BY <1>1 DEF dcc_x_req_header, ClientSends, ClientGoto, ClientFails, ClientOnly, WriteFails
  <2>3. ClientSending = 1 /\ ClientSending < ClientSending'
    BY <2>2 DEF ClientSending
  <2>4. PutsOn /\ UNCHANGED <<link, open>>
    BY <1>0, <2>1, <2>2, <2>3, PutsItem
  <2>. QED  BY <1>0, <2>2, <2>3, <2>4 DEF SendsOn, Sending, Ret, ClientSending
<1>2. CASE dcc_x_cwd
  <2>1. Requested([t |-> "CDIR", v |-> "whole"]) /\ Rank("CDIR") = 2
    BY DEF Requested, Item, Token, Value, Rank
  <2>2. /\ cpc = "x_cwd" /\ UNCHANGED <<object, deps, c_status, protover, needs_dotd, server>>
        /\ \/ /\ dcc_x_token("client", "CDIR", "whole") \/ UNCHANGED wire
              /\ cpc' = "x_argv" /\ c_ret' = c_ret
           \/ cpc' = "out" /\ c_ret' = "io" /\ UNCHANGED wire
    BY <1>2 DEF dcc_x_cwd, ClientSends, ClientGoto, ClientFails, ClientOnly, WriteFails
  <2>3. ClientSending = 2 /\ ClientSending < ClientSending'
    BY <2>2 DEF ClientSending
  <2>4. PutsOn /\ UNCHANGED <<link, open>>
    BY <1>0, <2>1, <2>2, <2>3, PutsItem
  <2>. QED  BY <1>0, <2>2, <2>3, <2>4 DEF SendsOn, Sending, Ret, ClientSending
<1>3. CASE dcc_x_argv
  <2>1. Requested([t |-> "ARGC", v |-> "whole"]) /\ Rank("ARGC") = 3
    BY DEF Requested, Item, Token, Value, Rank
  <2>2. /\ cpc = "x_argv" /\ UNCHANGED <<object, deps, c_status, protover, needs_dotd, server>>
        /\ \/ /\ dcc_x_token("client", "ARGC", "whole")
              /\ cpc' \in {"x_files", "wait_cpp"} /\ c_ret' = c_ret
           \/ cpc' = "out" /\ c_ret' \in {"io", "protocol"} /\ UNCHANGED wire
    BY <1>3 DEF dcc_x_argv, ClientSends, ClientGoto, ClientFails, ClientOnly, WriteFails
  <2>3. ClientSending = 3 /\ ClientSending < ClientSending'
    BY <2>2 DEF ClientSending
  <2>4. PutsOn /\ UNCHANGED <<link, open>>
    BY <1>0, <2>1, <2>2, <2>3, PutsItem
  <2>. QED  BY <1>0, <2>2, <2>3, <2>4 DEF SendsOn, Sending, Ret, ClientSending
<1>4. CASE dcc_x_many_files
  <2>1. /\ Requested([t |-> "NFIL", v |-> "whole"]) /\ Rank("NFIL") = 4
        /\ Requested([t |-> "NFIL", v |-> "short"])
    BY DEF Requested, Item, Token, Value, Rank
  <2>2. /\ cpc = "x_files" /\ UNCHANGED <<object, deps, c_status, protover, needs_dotd, server>>
        /\ \/ cpc' = "r_done" /\ c_ret' = c_ret
           \/ cpc' = "out" /\ c_ret' = "io"
        /\ \/ UNCHANGED wire \/ dcc_x_token("client", "NFIL", "whole")
           \/ dcc_x_token("client", "NFIL", "short")
    BY <1>4 DEF dcc_x_many_files, dcc_x_file, dcc_x_file_fails, ClientGoto, ClientFails,
                ClientOnly, WriteFails, AfterFiles
  <2>3. ClientSending = 4 /\ ClientSending < ClientSending'
    BY <2>2 DEF ClientSending
  <2>4. PutsOn /\ UNCHANGED <<link, open>>
    BY <1>0, <2>1, <2>2, <2>3, PutsItem
  <2>. QED  BY <1>0, <2>2, <2>3, <2>4 DEF SendsOn, Sending, Ret, ClientSending
<1>5. CASE SendDoti
  <2>1. /\ Requested([t |-> "DOTI", v |-> "whole"]) /\ Rank("DOTI") = 4
        /\ Requested([t |-> "DOTI", v |-> "short"])
    BY DEF Requested, Item, Token, Value, Rank
  <2>2. /\ cpc = "x_doti" /\ UNCHANGED <<object, deps, c_status, protover, needs_dotd, server>>
        /\ \/ cpc' = "r_done" /\ c_ret' = c_ret
           \/ cpc' = "out" /\ c_ret' = "io"
        /\ \/ UNCHANGED wire \/ dcc_x_token("client", "DOTI", "whole")
           \/ dcc_x_token("client", "DOTI", "short")
    BY <1>5 DEF SendDoti, dcc_x_file, dcc_x_file_fails, ClientGoto, ClientFails,
                ClientOnly, WriteFails
  <2>3. ClientSending = 4 /\ ClientSending < ClientSending'
    BY <2>2 DEF ClientSending
  <2>4. PutsOn /\ UNCHANGED <<link, open>>
    BY <1>0, <2>1, <2>2, <2>3, PutsItem
  <2>. QED  BY <1>0, <2>2, <2>3, <2>4 DEF SendsOn, Sending, Ret, ClientSending
<1>6. ASSUME NEW s \in {"ok", "error"}, dcc_wait_for_cpp(s)
      PROVE  SendsOn
  <2>1. /\ cpc = "wait_cpp" /\ UNCHANGED <<wire, c_ret, object, deps, protover, needs_dotd, server>>
        /\ c_status' = s /\ cpc' = (IF s = "ok" THEN "x_doti" ELSE "out")
    BY <1>6 DEF dcc_wait_for_cpp, ClientOnly
  <2>2. ClientSending = 4 /\ ClientSending <= ClientSending' /\ PutsOn /\ UNCHANGED <<link, open>>
    BY <1>0, <2>1 DEF ClientSending
  <2>. QED  BY <2>1, <2>2 DEF SendsOn, Sending, CompilerStatus, TypeOK
<1>. QED  BY <1>1, <1>2, <1>3, <1>4, <1>5, <1>6 DEF RequestSteps

\* While the client sends, the server cannot be past the source.
LEMMA SendsOnStep ==
    ASSUME IInv, SendsOn
    PROVE  IInv'
<1> USE DEF IInv
<1>1. /\ cpc \in Sending /\ cpc' \in Sending \cup {"r_done", "out"}
      /\ ClientSending \in 1..4 /\ ClientSending' \in 1..5
      /\ ClientSending <= ClientSending'
  BY DEF SendsOn, Sending, ClientSending
<1>2. UNCHANGED <<link, open, object, deps, protover, needs_dotd, spc, s_ver, input, cc,
                  status, s_ret, compile_ret, job_result>>
  BY DEF SendsOn, server
<1>3. inbox'["client"] = inbox["client"] /\ inbox' \in [Peer -> Seq(Item)]
  <2>1. inbox \in [Peer -> Seq(Item)]
    BY DEF TypeOK, Item
  <2>2. ASSUME NEW x \in Item, inbox' = [inbox EXCEPT !["server"] = Append(@, x)]
        PROVE  inbox'["client"] = inbox["client"] /\ inbox' \in [Peer -> Seq(Item)]
    BY <2>1, <2>2 DEF Peer
  <2>. QED  BY <2>1, <2>2 DEF SendsOn, PutsOn, Requested
<1>4. TypeOK'
  <2>1. cpc' \in ClientLabel /\ c_status' \in CompilerStatus /\ c_ret' \in Ret
    BY <1>1 DEF SendsOn, Sending, ClientLabel, TypeOK
  <2>. QED  BY <1>2, <1>3, <2>1 DEF TypeOK, Item
<1>5. ToServer'
  <2>1. CASE inbox' = inbox
    BY <1>1, <1>2, <2>1, RankType DEF ToServer, Below
  <2>2. ASSUME NEW x, Requested(x), Rank(x.t) = ClientSending, ClientSending < ClientSending',
               inbox' = [inbox EXCEPT !["server"] = Append(@, x)]
        PROVE  ToServer'
    <3> DEFINE q == inbox["server"]
    <3>1. q \in Seq(Item) /\ Rising(q) /\ Below(q, Rank(x.t)) /\ x \in Item
      BY <2>2 DEF TypeOK, Item, Peer, ToServer, Requested
    <3>2. inbox'["server"] = Append(q, x)
      BY <2>2 DEF TypeOK, Peer
    <3>3. /\ Append(q, x) \in Seq(Item) /\ Rising(Append(q, x))
          /\ Len(Append(q, x)) = Len(q) + 1 /\ Append(q, x)[Len(q) + 1] = x
          /\ \A i \in 1..Len(q) : Append(q, x)[i] = q[i]
      BY <3>1, Appended
    <3>4. Below(Append(q, x), ClientSending')
      BY <1>1, <2>2, <3>1, <3>3, RankType DEF Below
    <3>5. ASSUME NEW i \in 1..Len(Append(q, x)) PROVE Requested(Append(q, x)[i])
      BY <2>2, <3>1, <3>3, <3>5 DEF ToServer, Requested
    <3> HIDE DEF q
    <3>. QED  BY <1>2, <3>2, <3>3, <3>4, <3>5 DEF ToServer, Requested
  <2>. QED  BY <2>1, <2>2 DEF SendsOn, PutsOn
<1>6. ServerAt'
  <2>1. spc \notin {"compiler", "collect"} \cup Responding
    BY <1>1 DEF ServerAt
  <2>. QED  BY <1>2, <2>1 DEF ServerAt
<1>7. ToClient'
  <2>1. ClientReading = 1 /\ ClientReading' \in {0, 1}
    BY <1>1 DEF ClientReading, Sending
  <2>2. ServerSending' = ServerSending /\ ServerSending \in 1..7
    BY <1>2 DEF ServerSending
  <2>3. Gap => Gap'
    BY <1>3, <2>1 DEF Gap
  <2>4. ObjectSent => ObjectSent'
    BY <1>2 DEF ObjectSent
  <2>. QED  BY <1>2, <1>3, <2>1, <2>2, <2>3, <2>4 DEF ToClient
<1>8. ClientAt'
  <2>1. object = "old" /\ c_ret = "ok"
    BY <1>1 DEF ClientAt, Ended, Sending
  <2>2. \/ cpc' \in Sending \cup {"r_done"} /\ c_ret' = c_ret
        \/ cpc' = "out" /\ ~(c_ret' = "ok" /\ c_status' = "ok")
    BY DEF SendsOn
  <2>. QED  BY <1>2, <2>1, <2>2 DEF ClientAt, Ended, Sending
<1>. QED  BY <1>4, <1>5, <1>6, <1>7, <1>8

-----------------------------------------------------------------------------
(* The client reads *)

\* All that a read of the client does: it takes the item of the place it is
\* at and goes on, or gives up.
Takes ==
    /\ Readable("client", Head(inbox["client"]).t)
    /\ inbox["client"] # <<>> /\ Rank(Head(inbox["client"]).t) = ClientReading
    /\ Consume("client")
ReadsOn ==
    /\ cpc \in {"r_done", "r_stat", "r_serr", "log_email", "r_sout", "r_doto", "r_dotd"}
    /\ cpc' \in {"r_stat", "r_serr", "log_email", "r_sout", "r_doto", "r_dotd", "out"}
    /\ \/ ClientReading' \in {0, ClientReading + 1} /\ Takes
       \/ ClientReading' \in {0, ClientReading} /\ UNCHANGED wire
    /\ UNCHANGED <<protover, needs_dotd, server>>

\* What is read over cannot close a gap.
LEMMA ReadsOnStep ==
    ASSUME IInv, ReadsOn
    PROVE  ToServer' /\ ServerAt' /\ ToClient' /\ inbox' \in [Peer -> Seq(Item)]
<1> USE DEF IInv
<1>1. UNCHANGED <<link, open, protover, needs_dotd, spc, s_ver, input, cc,
                  status, s_ret, compile_ret, job_result>>
  BY DEF ReadsOn, Takes, Consume, server, wire
<1>2. ClientSending = 5 /\ ClientSending' = 5
  BY DEF ReadsOn, ClientSending
<1>3. inbox \in [Peer -> Seq(Item)]
  BY DEF TypeOK, Item
<1> DEFINE q == inbox["client"]
<1>4. q \in Seq(Item) /\ Rising(q)
  BY <1>3 DEF Peer, ToClient
<1>5. /\ ServerSending' = ServerSending /\ ServerSending \in 1..7
      /\ ClientReading \in 0..6 /\ ClientReading' \in 0..6
      /\ ClientReading <= ServerSending
      /\ ObjectSent => ObjectSent'
  BY <1>1 DEF ServerSending, ClientReading, ToClient, ObjectSent
<1>6. CASE UNCHANGED wire /\ ClientReading' \in {0, ClientReading}
  <2>1. Gap => Gap'
    BY <1>5, <1>6 DEF Gap, wire
  <2>2. ToClient'
    BY <1>1, <1>5, <1>6, <2>1 DEF ToClient, wire
  <2>. QED  BY <1>1, <1>2, <1>3, <1>6, <2>2 DEF ToServer, ServerAt, wire
<1>7. CASE Takes /\ ClientReading' \in {0, ClientReading + 1}
  <2>1. PICK rest \in Remainders(q) : inbox' = [inbox EXCEPT !["client"] = rest]
    BY <1>7 DEF Takes, Consume
  <2>2. q # <<>> /\ Rank(Head(q).t) = ClientReading /\ (Head(q).v = "short" => Len(q) > 1)
    BY <1>7 DEF Takes, Readable
  <2>3. /\ rest \in Seq(Item) /\ Rising(rest)
        /\ \A i \in 1..Len(rest) :
               \/ rest[i].t = "JUNK"
               \/ \E j \in 2..Len(q) : rest[i] = q[j] /\ (i < Len(rest) => j < Len(q))
    BY <1>4, <2>2, Remaining
  <2>4. /\ inbox' \in [Peer -> Seq(Item)]
        /\ inbox'["client"] = rest /\ inbox'["server"] = inbox["server"]
    BY <1>3, <2>1, <2>3 DEF Peer
  <2>5. Below(rest, ServerSending)
    <3>1. Rank("JUNK") = 0
      BY DEF Rank
    <3>2. Len(q) \in Nat /\ Below(q, ServerSending)
      BY <1>4 DEF ToClient
    <3>. QED  BY <1>5, <2>3, <3>1, <3>2 DEF Below
  <2>6. Len(q) \in Nat \ {0} /\ \A j \in 2..Len(q) : Rank(q[j].t) > ClientReading
    <3>1. Len(q) \in Nat \ {0} /\ Head(q) = q[1]
      BY <1>4, <2>2
    <3>. QED  BY <1>4, <2>2, <3>1, RankType DEF Rising
  <2>7. ClientReading' <= ServerSending'
    <3>1. Rank(q[1].t) < ServerSending /\ Head(q) = q[1]
      BY <1>4, <2>2, <2>6 DEF ToClient, Below
    <3>. QED  BY <1>5, <1>7, <2>2, <3>1
  <2>8. Gap => Gap'
    <3> SUFFICES ASSUME NEW r \in 1..4, ClientReading <= r,
                        \A i \in 1..Len(q) : Rank(q[i].t) # r
                 PROVE  Gap'
      BY DEF Gap
    <3>1. r # ClientReading
      BY <1>4, <2>2, <2>6
    <3>2. ClientReading' <= r
      BY <1>5, <1>7, <3>1
    <3>3. \A i \in 1..Len(rest) : Rank(rest[i].t) # r
      <4>1. Rank("JUNK") = 0
        BY DEF Rank
      <4>. QED  BY <2>3, <2>6, <4>1
    <3>. QED  BY <2>4, <3>2, <3>3 DEF Gap
  <2>9. ASSUME NEW i \in 1..Len(rest)
        PROVE  /\ rest[i].t = "STAT" => rest[i].v = status
               /\ rest[i].t = "DOTO" => rest[i].v \in {"none", "whole", "short"}
               /\ rest[i].t = "DOTO" /\ rest[i].v # "none" => ObjectSent
               /\ rest[i].t = "DOTO" /\ rest[i].v = "none" /\ status = "ok" => Gap
               /\ rest[i].t = "DOTO" /\ rest[i].v = "short" =>
                      i = Len(rest) /\ (s_ver = "VER_1" \/ link # "up")
    <3>1. CASE rest[i].t = "JUNK"
      BY <3>1
    <3>2. ASSUME NEW j \in 2..Len(q), rest[i] = q[j], i < Len(rest) => j < Len(q)
          PROVE  /\ rest[i].t = "STAT" => rest[i].v = status
                 /\ rest[i].t = "DOTO" => rest[i].v \in {"none", "whole", "short"}
                 /\ rest[i].t = "DOTO" /\ rest[i].v # "none" => ObjectSent
                 /\ rest[i].t = "DOTO" /\ rest[i].v = "none" /\ status = "ok" => Gap
                 /\ rest[i].t = "DOTO" /\ rest[i].v = "short" =>
                        i = Len(rest) /\ (s_ver = "VER_1" \/ link # "up")
      <4>1. j \in 1..Len(q)
        BY <2>6
      <4>. QED  BY <2>3, <2>6, <3>2, <4>1 DEF ToClient
    <3>. QED  BY <2>3, <3>1, <3>2
  <2>10. ToClient'
    <3>1. spc' = "x_doto_0" /\ status' = "ok" => Gap'
      BY <1>1, <2>8 DEF ToClient
    <3> HIDE DEF q
    <3>. QED  BY <1>1, <1>5, <2>3, <2>4, <2>5, <2>7, <2>8, <2>9, <3>1 DEF ToClient
  <2>. QED  BY <1>1, <1>2, <2>4, <2>10 DEF ToServer, ServerAt
<1>. QED  BY <1>6, <1>7 DEF ReadsOn

LEMMA ClientTypes ==
    ASSUME TypeOK, ReadsOn, inbox' \in [Peer -> Seq(Item)], c_status' \in CompilerStatus,
           c_ret' \in Ret, object' \in FileState, deps' \in FileState
    PROVE  TypeOK'
<1>1. UNCHANGED <<link, open, protover, needs_dotd, server>> /\ cpc' \in ClientLabel
  BY DEF ReadsOn, Takes, Consume, wire, ClientLabel
<1>. QED  BY <1>1 DEF TypeOK, Item, server

LEMMA ErrorIsError ==
    ASSUME NEW p, NEW tok, NEW e, ReadError(p, tok, e)
    PROVE  e \in {"io", "protocol", "truncated"} /\ UNCHANGED wire
  BY DEF ReadError

\* At DOTO, with the status 0 of the compiler, there is the object: "DOTO 0"
\* would have come after a gap, and nothing follows a short object.
LEMMA ObjectIsWhole ==
    ASSUME IInv, cpc = "r_doto", c_status = "ok", Readable("client", "DOTO")
    PROVE  Head(inbox["client"]).v = "whole" /\ ObjectSent
<1> DEFINE q == inbox["client"]
<1>1. q \in Seq(Item) /\ q # <<>> /\ Head(q).t = "DOTO" /\ (Head(q).v = "short" => Len(q) > 1)
  BY DEF IInv, TypeOK, Item, Peer, Readable
<1>2. Len(q) \in Nat \ {0} /\ Head(q).t = q[1].t /\ Head(q).v = q[1].v
  BY <1>1
<1>3. status = "ok" /\ ~Gap
  BY DEF IInv, ClientAt, Gap, ClientReading
<1>4. /\ q[1].v # "none" => ObjectSent
      /\ q[1].v # "none"
      /\ q[1].v = "short" => 1 = Len(q)
      /\ q[1].v \in {"none", "whole", "short"}
  BY <1>1, <1>2, <1>3 DEF IInv, ToClient
<1>5. Head(q).v = "whole"
  <2>1. CASE Head(q).v = "short"
    <3>1. Len(q) \in Nat /\ Len(q) = 1 /\ Len(q) > 1
      BY <1>1, <1>2, <1>4, <2>1
    <3>. QED  BY <3>1
  <2>2. CASE Head(q).v # "short"
    BY <1>2, <1>4, <2>2
  <2>. QED  BY <2>1, <2>2
<1>. QED  BY <1>2, <1>4, <1>5

\* At DOTO, with the status 0, a body has begun only if the object was sent.
LEMMA ObjectBegun ==
    ASSUME IInv, cpc = "r_doto", c_status = "ok",
           inbox["client"] # <<>>, Head(inbox["client"]).t = "DOTO"
    PROVE  ObjectSent
<1> DEFINE q == inbox["client"]
<1>1. q \in Seq(Item) /\ q # <<>>
  BY DEF IInv, TypeOK, Item, Peer
<1>2. Len(q) \in Nat \ {0} /\ Head(q) = q[1]
  BY <1>1
<1>3. status = "ok" /\ ~Gap
  BY DEF IInv, ClientAt, Gap, ClientReading
<1>. QED  BY <1>2, <1>3 DEF IInv, ToClient

\* The object, or a part of it, arrives only if it was sent.
LEMMA PartOfObject ==
    ASSUME IInv, NEW e, ReadError("client", "DOTO", e), e = "io", inbox["client"] # <<>>
    PROVE  ObjectSent
<1> DEFINE q == inbox["client"]
<1>1. q \in Seq(Item) /\ q # <<>> /\ Head(q).t = "DOTO" /\ Head(q).v = "short"
  BY DEF IInv, TypeOK, Item, Peer, ReadError, Starved
<1>2. Len(q) \in Nat \ {0} /\ Head(q) = q[1]
  BY <1>1
<1>. QED  BY <1>1, <1>2 DEF IInv, ToClient

\* The reads up to DOTO: the file is not touched, and a failure is an error.
LEMMA ResponseReads ==
    ASSUME IInv, \/ dcc_r_result_header \/ dcc_r_cc_status \/ ReceiveStderr \/ ReceiveStdout
                 \/ \E added \in BOOLEAN : LogEmail(added)
    PROVE  IInv'
<1> USE DEF IInv
<1>0. UNCHANGED <<protover, needs_dotd, server, object, deps>>
  BY DEF dcc_r_result_header, dcc_r_cc_status, ReceiveStderr, ReceiveStdout, LogEmail,
         ClientReceives, ClientOnly, ClientGoto, ClientFails
<1>1. /\ Rank("DONE") = 1 /\ Rank("STAT") = 2 /\ Rank("SERR") = 3 /\ Rank("SOUT") = 4
      /\ Rank("DOTO") = 5 /\ Rank("DOTD") = 6
  BY DEF Rank
<1>2. ASSUME NEW tok, Readable("client", tok), Consume("client"), Rank(tok) = ClientReading
      PROVE  Takes
  BY <1>2 DEF Takes, Readable
<1>3. CASE dcc_r_result_header
  <2>1. /\ cpc = "r_done" /\ c_status' = c_status
        /\ \/ Readable("client", "DONE") /\ Consume("client") /\ cpc' = "r_stat" /\ c_ret' = c_ret
           \/ UNCHANGED wire /\ cpc' = "out" /\ c_ret' \in Ret \ {"ok"}
    BY <1>3, ErrorIsError DEF dcc_r_result_header, ClientGoto, ClientFails
  <2>2. ReadsOn
    BY <1>0, <1>1, <1>2, <2>1 DEF ReadsOn, ClientReading
  <2>3. ToServer' /\ ServerAt' /\ ToClient' /\ inbox' \in [Peer -> Seq(Item)]
    BY <2>2, ReadsOnStep
  <2>4. ClientAt'
    BY <1>0, <2>1 DEF ClientAt, Ended, ObjectSent, server
  <2>5. TypeOK'
    <3>1. /\ c_status' \in CompilerStatus /\ c_ret' \in Ret
          /\ object' \in FileState /\ deps' \in FileState
      BY <1>0, <2>1 DEF TypeOK
    <3>. QED  BY <2>2, <2>3, <3>1, ClientTypes
  <2>. QED  BY <2>3, <2>4, <2>5
<1>4. CASE dcc_r_cc_status
  <2>1. /\ cpc = "r_stat"
        /\ \/ /\ Readable("client", "STAT") /\ Consume("client") /\ cpc' = "r_serr"
              /\ c_ret' = c_ret /\ c_status' = Content("client")
           \/ UNCHANGED wire /\ cpc' = "out" /\ c_ret' \in Ret \ {"ok"} /\ c_status' = c_status
    BY <1>4, ErrorIsError DEF dcc_r_cc_status, ClientFails
  <2>2. ReadsOn
    BY <1>0, <1>1, <1>2, <2>1 DEF ReadsOn, ClientReading
  <2>3. ToServer' /\ ServerAt' /\ ToClient' /\ inbox' \in [Peer -> Seq(Item)]
    BY <2>2, ReadsOnStep
  <2>4. Readable("client", "STAT") => Content("client") = status
    <3> DEFINE q == inbox["client"]
    <3>1. q \in Seq(Item)
      BY DEF TypeOK, Item, Peer
    <3>2. ASSUME q # <<>>, Head(q).t = "STAT" PROVE Head(q).v = status
      <4>1. Len(q) \in Nat \ {0} /\ Head(q) = q[1]
        BY <3>1, <3>2
      <4>. QED  BY <3>2, <4>1 DEF ToClient
    <3>. QED  BY <3>2 DEF Content, Readable, TypeOK, CompilerStatus
  <2>5. ClientAt'
    BY <1>0, <2>1, <2>4 DEF ClientAt, Ended, ObjectSent, server
  <2>6. TypeOK'
    <3>1. /\ c_status' \in CompilerStatus /\ c_ret' \in Ret
          /\ object' \in FileState /\ deps' \in FileState
      BY <1>0, <2>1, <2>4 DEF TypeOK
    <3>. QED  BY <2>2, <2>3, <3>1, ClientTypes
  <2>. QED  BY <2>3, <2>5, <2>6
<1>5. CASE ReceiveStderr
  <2>1. /\ cpc = "r_serr" /\ c_status' = c_status
        /\ \/ Readable("client", "SERR") /\ Consume("client") /\ cpc' = "log_email" /\ c_ret' = c_ret
           \/ UNCHANGED wire /\ cpc' = "out" /\ c_ret' \in Ret \ {"ok"}
    BY <1>5, ErrorIsError DEF ReceiveStderr, ClientReceives, ClientGoto, ClientFails, Ret
  <2>2. ReadsOn
    BY <1>0, <1>1, <1>2, <2>1 DEF ReadsOn, ClientReading
  <2>3. ToServer' /\ ServerAt' /\ ToClient' /\ inbox' \in [Peer -> Seq(Item)]
    BY <2>2, ReadsOnStep
  <2>4. ClientAt'
    BY <1>0, <2>1 DEF ClientAt, Ended, ObjectSent, server
  <2>5. TypeOK'
    <3>1. /\ c_status' \in CompilerStatus /\ c_ret' \in Ret
          /\ object' \in FileState /\ deps' \in FileState
      BY <1>0, <2>1 DEF TypeOK
    <3>. QED  BY <2>2, <2>3, <3>1, ClientTypes
  <2>. QED  BY <2>3, <2>4, <2>5
<1>6. CASE ReceiveStdout
  <2>1. /\ cpc = "r_sout" /\ c_status' = c_status
        /\ \/ Readable("client", "SOUT") /\ Consume("client") /\ cpc' = "r_doto" /\ c_ret' = c_ret
           \/ UNCHANGED wire /\ cpc' = "out" /\ c_ret' \in Ret \ {"ok"}
    BY <1>6, ErrorIsError DEF ReceiveStdout, ClientReceives, ClientGoto, ClientFails, Ret
  <2>2. ReadsOn
    BY <1>0, <1>1, <1>2, <2>1 DEF ReadsOn, ClientReading
  <2>3. ToServer' /\ ServerAt' /\ ToClient' /\ inbox' \in [Peer -> Seq(Item)]
    BY <2>2, ReadsOnStep
  <2>4. ClientAt'
    BY <1>0, <2>1 DEF ClientAt, Ended, ObjectSent, server
  <2>5. TypeOK'
    <3>1. /\ c_status' \in CompilerStatus /\ c_ret' \in Ret
          /\ object' \in FileState /\ deps' \in FileState
      BY <1>0, <2>1 DEF TypeOK
    <3>. QED  BY <2>2, <2>3, <3>1, ClientTypes
  <2>. QED  BY <2>3, <2>4, <2>5
<1>7. ASSUME NEW added \in BOOLEAN, LogEmail(added)
      PROVE  IInv'
  <2>1. /\ cpc = "log_email" /\ UNCHANGED <<wire, c_status, c_ret>>
        /\ \/ cpc' = "r_sout"
           \/ cpc' = "out" /\ "email" \in Faults
    BY <1>7 DEF LogEmail, ClientGoto
  <2>2. ReadsOn
    BY <1>0, <2>1 DEF ReadsOn, ClientReading
  <2>3. ToServer' /\ ServerAt' /\ ToClient' /\ inbox' \in [Peer -> Seq(Item)]
    BY <2>2, ReadsOnStep
  <2>4. ClientAt'
    BY <1>0, <2>1 DEF ClientAt, Ended, ObjectSent, server
  <2>5. TypeOK'
    <3>1. /\ c_status' \in CompilerStatus /\ c_ret' \in Ret
          /\ object' \in FileState /\ deps' \in FileState
      BY <1>0, <2>1 DEF TypeOK
    <3>. QED  BY <2>2, <2>3, <3>1, ClientTypes
  <2>. QED  BY <2>3, <2>4, <2>5
<1>. QED  BY <1>3, <1>4, <1>5, <1>6, <1>7

\* DOTO: the object is put in place whole, or removed, or never touched.
LEMMA ObjectRead ==
    ASSUME IInv, ReceiveObject
    PROVE  IInv'
<1> USE DEF IInv
<1>1. /\ cpc = "r_doto" /\ UNCHANGED <<protover, needs_dotd, server, c_status, deps>>
      /\ c_status = status /\ object = "old" /\ c_ret = "ok"
  BY DEF ReceiveObject, ClientOnly, ClientAt, Ended
<1>2. \/ /\ Readable("client", "DOTO") /\ Consume("client")
         /\ object' = (IF c_status = "ok" THEN Received(Content("client")) ELSE object)
         /\ cpc' = (IF c_status = "ok" /\ protover = "VER_3" THEN "r_dotd" ELSE "out")
         /\ c_ret' = c_ret
      \/ /\ UNCHANGED wire /\ cpc' = "out" /\ c_ret' \in Ret \ {"ok"}
         /\ object' = object \/ (object' \in {"absent", "kept"} /\ ObjectSent)
  <2>1. ASSUME NEW e, ReadError("client", "DOTO", e),
               object' \in IF e = "io" /\ inbox["client"] # <<>> THEN AfterFailedTransfer ELSE {object}
        PROVE  object' = object \/ (object' \in {"absent", "kept"} /\ ObjectSent)
    BY <2>1, PartOfObject DEF AfterFailedTransfer
  <2>2. ASSUME c_status = "ok", Readable("client", "DOTO")
        PROVE  ObjectSent
    BY <1>1, <2>2, ObjectIsWhole
  <2>. QED  BY <1>1, <2>1, <2>2, ErrorIsError
            DEF ReceiveObject, AfterFailedTransfer, dcc_r_file_ret, Ret
<1>3. ReadsOn
  <2>1. Rank("DOTO") = 5
    BY DEF Rank
  <2>. QED  BY <1>1, <1>2, <2>1 DEF ReadsOn, Takes, Readable, ClientReading
<1>4. ToServer' /\ ServerAt' /\ ToClient' /\ inbox' \in [Peer -> Seq(Item)]
  BY <1>3, ReadsOnStep
<1>5. \/ /\ c_status = "ok" /\ object' = "new" /\ ObjectSent /\ c_ret' = c_ret
         /\ cpc' \in {"r_dotd", "out"}
      \/ c_status # "ok" /\ object' = object /\ cpc' = "out" /\ c_ret' = c_ret
      \/ /\ cpc' = "out" /\ c_ret' \in Ret \ {"ok"}
         /\ object' = object \/ (object' \in {"absent", "kept"} /\ ObjectSent)
  <2>1. ASSUME c_status = "ok", Readable("client", "DOTO")
        PROVE  Received(Content("client")) = "new" /\ ObjectSent
    BY <1>1, <2>1, ObjectIsWhole DEF Received, Content
  <2>. QED  BY <1>2, <2>1
<1>6. ObjectSent => ObjectSent'
  BY <1>1 DEF ObjectSent, server
<1>7. ClientAt'
  BY <1>1, <1>5, <1>6 DEF ClientAt, Ended, server
<1>8. TypeOK'
  <2>1. /\ c_status' \in CompilerStatus /\ c_ret' \in Ret
        /\ object' \in FileState /\ deps' \in FileState
    BY <1>1, <1>5 DEF TypeOK, FileState
  <2>. QED  BY <1>3, <1>4, <2>1, ClientTypes
<1>. QED  BY <1>4, <1>7, <1>8

\* DOTD: whatever happens here the object is in place.
LEMMA DepsRead ==
    ASSUME IInv, ReceiveDeps
    PROVE  IInv'
<1> USE DEF IInv
<1>1. /\ cpc = "r_dotd" /\ cpc' = "out"
      /\ UNCHANGED <<protover, needs_dotd, server, c_status, object>>
      /\ \/ Readable("client", "DOTD") /\ Consume("client")
         \/ UNCHANGED wire
      /\ c_ret' \in Ret /\ deps' \in FileState
  BY ErrorIsError DEF ReceiveDeps, ClientOnly, TypeOK, Received, AfterFailedTransfer,
     dcc_r_file_ret, FileState, Ret
<1>2. ReadsOn
  <2>1. Rank("DOTD") = 6
    BY DEF Rank
  <2>. QED  BY <1>1, <2>1 DEF ReadsOn, Takes, Readable, ClientReading
<1>3. ToServer' /\ ServerAt' /\ ToClient' /\ inbox' \in [Peer -> Seq(Item)]
  BY <1>2, ReadsOnStep
<1>4. ClientAt'
  BY <1>1 DEF ClientAt, Ended, ObjectSent, server
<1>5. TypeOK'
  <2>1. c_status' \in CompilerStatus /\ object' \in FileState
    BY <1>1 DEF TypeOK
  <2>. QED  BY <1>1, <1>2, <1>3, <2>1, ClientTypes
<1>. QED  BY <1>3, <1>4, <1>5

-----------------------------------------------------------------------------
(* The client ends, hosts vanish, the connection is reset *)

\* These change no item of either stream.
LEMMA ClientEnds ==
    ASSUME IInv, ClientCloses \/ ClientKilled \/ ClientVanishes
    PROVE  IInv'
<1> USE DEF IInv
<1>1. /\ cpc' \in {"done", "gone"} /\ (cpc' = "done" => cpc = "out")
      /\ UNCHANGED <<protover, needs_dotd, inbox, c_status, c_ret, spc, s_ver,
                     input, cc, status, s_ret, compile_ret, job_result>>
      /\ link' \in {link, "silent"} /\ open' \in [Peer -> BOOLEAN]
  BY DEF ClientCloses, ClientKilled, ClientVanishes, ClientDies, ClientOnly, ClientGoto, server,
     TypeOK, Peer
<1>8. \/ object' = object
      \/ object' \in {"absent", "partial"} /\ cpc' = "gone" /\ ObjectSent
  <2>1. CASE ClientCloses
    BY <2>1 DEF ClientCloses, ClientGoto
  <2>2. CASE ClientDies
    BY <2>2, ObjectBegun DEF ClientDies, MidTransfer
  <2>. QED  BY <2>1, <2>2 DEF ClientKilled, ClientVanishes
<1>9. deps' \in {deps, "absent", "partial"}
  BY DEF ClientCloses, ClientKilled, ClientVanishes, ClientDies, ClientGoto, MidTransfer
<1>2. TypeOK'
  <2>1. TypeOK
    OBVIOUS
  <2>2. object' \in FileState /\ deps' \in FileState
    BY <1>8, <1>9, <2>1 DEF TypeOK, FileState
  <2>3. cpc' \in ClientLabel /\ link' \in {"up", "reset", "silent"}
    BY <1>1, <2>1 DEF TypeOK, ClientLabel
  <2>. QED  BY <1>1, <2>1, <2>2, <2>3 DEF TypeOK
<1>3. ClientSending' = 5 /\ ClientSending \in 1..5 /\ ClientReading' = 0
  BY <1>1 DEF ClientSending, ClientReading
<1>4. ToServer'
  <2>1. Below(inbox["server"], 5)
    <3>1. Below(inbox["server"], ClientSending) /\ Len(inbox["server"]) \in Nat
      BY DEF ToServer, TypeOK, Peer
    <3>. QED  BY <1>3, <3>1, RankType DEF Below
  <2>. QED  BY <1>1, <1>3, <2>1 DEF ToServer
<1>5. ServerAt'
  BY <1>1, <1>3 DEF ServerAt
<1>6. ToClient'
  <2>1. Gap => Gap'
    <3> SUFFICES ASSUME NEW r \in 1..4,
                        \A i \in 1..Len(inbox["client"]) : Rank(inbox["client"][i].t) # r
                 PROVE  Gap'
      BY DEF Gap
    <3>1. ClientReading' <= r
      BY <1>3
    <3>. QED  BY <1>1, <3>1 DEF Gap
  <2>2. ServerSending' = ServerSending /\ ServerSending \in 1..7 /\ (ObjectSent => ObjectSent')
    BY <1>1 DEF ServerSending, ObjectSent
  <2>. QED  BY <1>1, <1>3, <2>1, <2>2 DEF ToClient
<1>7. ClientAt'
  <2>1. ObjectSent => ObjectSent'
    BY <1>1 DEF ObjectSent
  <2>. QED  BY <1>1, <1>8, <2>1 DEF ClientAt, Ended
<1>. QED  BY <1>2, <1>4, <1>5, <1>6, <1>7

LEMMA ServerGone ==
    ASSUME IInv, ServerVanishes
    PROVE  IInv'
<1> USE DEF IInv
<1>1. /\ spc' = "gone" /\ link' = "silent"
      /\ UNCHANGED <<protover, needs_dotd, open, inbox, cpc, c_status, c_ret, object, deps, s_ver,
                     input, cc, status, s_ret, compile_ret, job_result>>
  BY DEF ServerVanishes, client
<1>2. TypeOK'
  BY <1>1 DEF TypeOK, ServerLabel
<1>3. ClientSending' = ClientSending /\ ClientReading' = ClientReading
      /\ ServerSending' = 7 /\ ServerSending \in 1..7 /\ ClientReading \in 0..6
  BY <1>1 DEF ClientSending, ClientReading, ServerSending
<1>4. ToServer' /\ ServerAt'
  BY <1>1, <1>3 DEF ToServer, ServerAt, Preparing, Responding
<1>5. ObjectSent => ObjectSent'
  BY <1>1 DEF ObjectSent
<1>6. ToClient'
  <2>1. Gap => Gap'
    BY <1>1, <1>3 DEF Gap
  <2>2. Below(inbox["client"], 7)
    BY RankType DEF Below
  <2>. QED  BY <1>1, <1>3, <1>5, <2>1, <2>2 DEF ToClient
<1>7. ClientAt'
  BY <1>1, <1>5 DEF ClientAt, Ended
<1>. QED  BY <1>2, <1>4, <1>6, <1>7

\* What is cut short stays the last item, since nothing follows a reset.
LEMMA ResetStep ==
    ASSUME IInv, Reset
    PROVE  IInv'
<1> USE DEF IInv
<1>1. /\ link = "up" /\ link' = "reset"
      /\ UNCHANGED <<protover, needs_dotd, open, cpc, c_status, c_ret, object, deps, spc, s_ver,
                     input, cc, status, s_ret, compile_ret, job_result>>
  BY DEF Reset, client, server
<1>2. PICK a \in Cuts(inbox["client"]), b \in Cuts(inbox["server"]) :
          inbox' = [p \in Peer |-> IF p = "client" THEN a ELSE b]
  BY DEF Reset
<1>3. /\ inbox["client"] \in Seq(Item) /\ inbox["server"] \in Seq(Item)
      /\ Rising(inbox["client"]) /\ Rising(inbox["server"])
  BY DEF TypeOK, Item, Peer, ToClient, ToServer
<1>4. inbox'["client"] = a /\ inbox'["server"] = b
  BY <1>2 DEF Peer
<1> DEFINE qc == inbox["client"]
           qs == inbox["server"]
<1>5. /\ a \in Seq(Item) /\ Rising(a) /\ Len(a) <= Len(qc)
      /\ \A i \in 1..Len(a) :
             /\ a[i].t = qc[i].t
             /\ \/ a[i] = qc[i] /\ (i < Len(a) => i < Len(qc))
                \/ i = Len(a) /\ a[i].v = "short" /\ qc[i].t \in FileToken /\ qc[i].v # "none"
  BY <1>3, CutOff
<1>6. /\ b \in Seq(Item) /\ Rising(b) /\ Len(b) <= Len(qs)
      /\ \A i \in 1..Len(b) :
             /\ b[i].t = qs[i].t
             /\ \/ b[i] = qs[i] /\ (i < Len(b) => i < Len(qs))
                \/ i = Len(b) /\ b[i].v = "short" /\ qs[i].t \in FileToken /\ qs[i].v # "none"
  BY <1>3, CutOff
<1>7. Len(a) \in Nat /\ Len(b) \in Nat /\ Len(qc) \in Nat /\ Len(qs) \in Nat
  BY <1>3, <1>5, <1>6
<1>8. TypeOK'
  <2>1. inbox' \in [Peer -> Seq(Item)]
    BY <1>2, <1>5, <1>6
  <2>. QED  BY <1>1, <2>1 DEF TypeOK, Item
<1>9. /\ ClientSending' = ClientSending /\ ClientReading' = ClientReading
      /\ ServerSending' = ServerSending /\ (ObjectSent => ObjectSent')
  BY <1>1 DEF ClientSending, ClientReading, ServerSending, ObjectSent
<1>10. ToServer'
  <2>1. Below(b, ClientSending)
    BY <1>6, <1>7 DEF ToServer, Below
  <2>2. ASSUME NEW i \in 1..Len(b)
        PROVE  /\ b[i].t \in {"DIST", "CDIR", "ARGC", "NFIL", "DOTI"}
               /\ b[i].t = "DIST" => b[i].v = protover
               /\ b[i].t \in {"CDIR", "ARGC"} => b[i].v = "whole"
               /\ b[i].t \in {"NFIL", "DOTI"} => b[i].v \in {"whole", "short"}
    <3>1. i \in 1..Len(qs)
      BY <1>6, <1>7
    <3>2. /\ qs[i].t \in {"DIST", "CDIR", "ARGC", "NFIL", "DOTI"}
          /\ qs[i].t = "DIST" => qs[i].v = protover
          /\ qs[i].t \in {"CDIR", "ARGC"} => qs[i].v = "whole"
          /\ qs[i].t \in {"NFIL", "DOTI"} => qs[i].v \in {"whole", "short"}
      BY <3>1 DEF ToServer
    <3>3. b[i].t = qs[i].t /\ (b[i].v = qs[i].v \/ (b[i].v = "short" /\ qs[i].t \in FileToken))
      BY <1>6
    <3>. QED  BY <3>2, <3>3 DEF FileToken
  <2> HIDE DEF qs
  <2>. QED  BY <1>1, <1>4, <1>6, <1>9, <2>1, <2>2 DEF ToServer
<1>11. ServerAt'
  <2>1. qs = <<>> => b = <<>>
    BY <1>6, <1>7
  <2>. QED  BY <1>1, <1>4, <1>9, <2>1 DEF ServerAt
<1>12. ToClient'
  <2>1. Below(a, ServerSending)
    BY <1>5, <1>7 DEF ToClient, Below
  <2>2. Gap => Gap'
    <3>1. ASSUME NEW i \in 1..Len(a) PROVE i \in 1..Len(qc) /\ Rank(a[i].t) = Rank(qc[i].t)
      BY <1>5, <1>7
    <3>. QED  BY <1>4, <1>9, <3>1 DEF Gap
  <2>3. ASSUME NEW i \in 1..Len(a)
        PROVE  /\ a[i].t = "STAT" => a[i].v = status
               /\ a[i].t = "DOTO" => a[i].v \in {"none", "whole", "short"}
               /\ a[i].t = "DOTO" /\ a[i].v # "none" => ObjectSent
               /\ a[i].t = "DOTO" /\ a[i].v = "none" /\ status = "ok" => Gap
               /\ a[i].t = "DOTO" /\ a[i].v = "short" => i = Len(a)
    <3>1. i \in 1..Len(qc)
      BY <1>5, <1>7
    <3>2. /\ qc[i].t = "STAT" => qc[i].v = status
          /\ qc[i].t = "DOTO" => qc[i].v \in {"none", "whole", "short"}
          /\ qc[i].t = "DOTO" /\ qc[i].v # "none" => ObjectSent
          /\ qc[i].t = "DOTO" /\ qc[i].v = "none" /\ status = "ok" => Gap
          /\ qc[i].t = "DOTO" /\ qc[i].v = "short" => i = Len(qc)
      BY <3>1 DEF ToClient
    <3>3. /\ a[i].t = qc[i].t
          /\ \/ a[i].v = qc[i].v /\ (i < Len(a) => i < Len(qc))
             \/ i = Len(a) /\ a[i].v = "short" /\ qc[i].t \in FileToken /\ qc[i].v # "none"
      BY <1>5
    <3> HIDE DEF qc
    <3>. QED  BY <1>7, <3>2, <3>3 DEF FileToken
  <2>4. ClientReading <= ServerSending /\ (spc = "x_doto_0" /\ status = "ok" => Gap)
    BY DEF ToClient
  <2> HIDE DEF qc
  <2>. QED  BY <1>1, <1>4, <1>5, <1>9, <2>1, <2>2, <2>3, <2>4 DEF ToClient
<1>13. ClientAt'
  BY <1>1, <1>9 DEF ClientAt
<1>. QED  BY <1>8, <1>10, <1>11, <1>12, <1>13

-----------------------------------------------------------------------------
(* The server up to the end of the compiler *)

\* Before the server responds the client's stream is empty but for nothing
\* that was ever sent, and the client waits.
LEMMA BeforeResponse ==
    ASSUME IInv, spc \in Preparing \cup {"compiler", "collect"}
    PROVE  /\ ServerSending = 1 /\ ClientReading <= 1 /\ ~ObjectSent /\ object = "old"
           /\ cpc \notin {"r_stat", "r_serr", "log_email", "r_sout", "r_doto", "r_dotd"}
           /\ \A i \in 1..Len(inbox["client"]) :
                  inbox["client"][i].t \notin {"STAT", "DOTO"}
<1>1. ServerSending = 1 /\ ~ObjectSent
  BY DEF ServerSending, Preparing, ObjectSent
<1>2. ClientReading <= 1 /\ Below(inbox["client"], 1)
  BY <1>1 DEF IInv, ToClient
<1>3. cpc \notin {"r_stat", "r_serr", "log_email", "r_sout", "r_doto", "r_dotd"}
  BY <1>2 DEF ClientReading
<1>4. Rank("STAT") = 2 /\ Rank("DOTO") = 5
  BY DEF Rank
<1>. QED  BY <1>1, <1>2, <1>3, <1>4 DEF Below, IInv, ClientAt

\* So all that these steps have to keep is about the server itself.
LEMMA BeforeResponseStep ==
    ASSUME IInv, spc \in Preparing \cup {"compiler", "collect"}, ServerOnly,
           spc' \in Preparing \cup {"compiler", "collect", "x_done", "out_cleanup"},
           UNCHANGED <<link, open>>, inbox'["client"] = inbox["client"]
    PROVE  ToClient' /\ ClientAt'
<1>1. /\ ServerSending = 1 /\ ClientReading <= 1 /\ ~ObjectSent /\ object = "old"
      /\ cpc \notin {"r_stat", "r_serr", "log_email", "r_sout", "r_doto", "r_dotd"}
      /\ \A i \in 1..Len(inbox["client"]) : inbox["client"][i].t \notin {"STAT", "DOTO"}
  BY BeforeResponse
<1>2. UNCHANGED <<cpc, c_status, c_ret, object, deps, protover, needs_dotd>>
  BY DEF ServerOnly, client
<1>3. ClientReading' = ClientReading /\ ServerSending' \in {1, 7} /\ ClientReading \in 0..6
  BY <1>2 DEF ClientReading, ServerSending, Preparing
<1>4. ToClient'
  <2>1. Rising(inbox["client"]) /\ Below(inbox["client"], 1)
    BY <1>1 DEF IInv, ToClient
  <2>2. Below(inbox["client"], ServerSending')
    BY <1>3, <2>1, RankType DEF Below
  <2>3. spc' # "x_doto_0"
    BY DEF Preparing
  <2>. QED  BY <1>1, <1>3, <2>1, <2>2, <2>3 DEF ToClient
<1>5. ClientAt'
  BY <1>1, <1>2 DEF IInv, ClientAt, Ended
<1>. QED  BY <1>4, <1>5

\* Every token of the request but a cut-off source is read as it was sent,
\* and leaves the later ones.
LEMMA RequestRead ==
    ASSUME IInv, NEW tok \in {"DIST", "CDIR", "ARGC", "NFIL", "DOTI"},
           Readable("server", tok), Consume("server")
    PROVE  /\ inbox' = [inbox EXCEPT !["server"] = Tail(inbox["server"])]
           /\ inbox' \in [Peer -> Seq(Item)] /\ inbox'["client"] = inbox["client"]
           /\ UNCHANGED <<link, open>>
           /\ Content("server") = (IF tok = "DIST" THEN protover ELSE "whole")
           /\ cpc' = cpc /\ protover' = protover => ToServer'
           /\ tok \in {"NFIL", "DOTI"} => inbox'["server"] = <<>> /\ ClientSending = 5
<1> DEFINE q == inbox["server"]
<1>1. inbox \in [Peer -> Seq(Item)] /\ q \in Seq(Item) /\ q # <<>>
  BY DEF IInv, TypeOK, Item, Peer, Readable
<1>2. /\ Len(q) \in Nat /\ Len(q) > 0
      /\ Head(q).t = q[1].t /\ Head(q).v = q[1].v /\ Head(q).t = tok
  BY <1>1 DEF Readable
<1>3. /\ Rising(q) /\ Below(q, ClientSending) /\ ClientSending \in 1..5
      /\ q[1].t = "DIST" => q[1].v = protover
      /\ q[1].t \in {"CDIR", "ARGC"} => q[1].v = "whole"
      /\ q[1].t \in {"NFIL", "DOTI"} => q[1].v \in {"whole", "short"}
  BY <1>2 DEF IInv, ToServer, ClientSending
<1>4. tok \in {"NFIL", "DOTI"} => Len(q) = 1 /\ ClientSending = 5
  <2> SUFFICES ASSUME tok \in {"NFIL", "DOTI"} PROVE Len(q) = 1 /\ ClientSending = 5
    OBVIOUS
  <2>1. Rank(q[1].t) = 4
    BY <1>2 DEF Rank
  <2>2. ClientSending = 5
    BY <1>2, <1>3, <2>1 DEF Below
  <2>3. ~(Len(q) > 1)
    <3> SUFFICES ASSUME Len(q) > 1 PROVE FALSE
      OBVIOUS
    <3>1. Rank(q[2].t) > 4 /\ Rank(q[2].t) < 5
      BY <1>2, <1>3, <2>1, <2>2, RankType DEF Below, Rising
    <3>. QED  BY <3>1, RankType
  <2> HIDE DEF q
  <2>. QED  BY <1>2, <2>2, <2>3
<1>5. Head(q).v # "short"
  <2>1. CASE tok \in {"NFIL", "DOTI"}
    <3>1. Head(q).v = "short" => Len(q) > 1
      BY DEF Readable
    <3>2. Len(q) = 1
      BY <1>4, <2>1
    <3> HIDE DEF q
    <3>. QED  BY <3>1, <3>2
  <2>2. CASE tok \notin {"NFIL", "DOTI"}
    BY <1>2, <1>3, <2>2, SessionAssumption DEF IInv, TypeOK, Protover
  <2>. QED  BY <2>1, <2>2
<1>6. inbox' = [inbox EXCEPT !["server"] = Tail(q)] /\ UNCHANGED <<link, open>>
  BY <1>5 DEF Consume, Remainders
<1>7. /\ Tail(q) \in Seq(Item) /\ Len(Tail(q)) = Len(q) - 1
      /\ \A i \in 1..Len(Tail(q)) : Tail(q)[i] = q[i + 1]
  BY <1>1
<1>8. inbox' \in [Peer -> Seq(Item)] /\ inbox'["client"] = inbox["client"] /\ inbox'["server"] = Tail(q)
  BY <1>1, <1>6, <1>7 DEF Peer
<1>9. Content("server") = (IF tok = "DIST" THEN protover ELSE "whole")
  BY <1>2, <1>3, <1>5 DEF Content
<1>10. ASSUME cpc' = cpc, protover' = protover PROVE ToServer'
  <2>1. ClientSending' = ClientSending
    BY <1>10 DEF ClientSending
  <2>2. Rising(Tail(q)) /\ Below(Tail(q), ClientSending)
    BY <1>2, <1>3, <1>7 DEF Rising, Below
  <2>3. ASSUME NEW i \in 1..Len(Tail(q)) PROVE i + 1 \in 1..Len(q) /\ Tail(q)[i] = q[i + 1]
    BY <1>2, <1>7
  <2>. QED  BY <1>8, <1>10, <2>1, <2>2, <2>3 DEF IInv, ToServer
<1>11. tok \in {"NFIL", "DOTI"} => inbox'["server"] = <<>>
  <2> SUFFICES ASSUME tok \in {"NFIL", "DOTI"} PROVE inbox'["server"] = <<>>
    OBVIOUS
  <2> DEFINE u == Tail(q)
  <2>1. u \in Seq(Item) /\ Len(u) = Len(q) - 1 /\ Len(q) = 1 /\ inbox'["server"] = u
    BY <1>4, <1>7, <1>8
  <2> HIDE DEF u, q
  <2>2. Len(u) = 0
    BY <2>1
  <2>. QED  BY <2>1, <2>2
<1>. QED  BY <1>4, <1>6, <1>8, <1>9, <1>10, <1>11

\* A step of the server that neither reads nor writes.
LEMMA NothingRead ==
    ASSUME ToServer, UNCHANGED wire, ServerOnly
    PROVE  ToServer' /\ UNCHANGED <<link, open, inbox>> /\ ClientSending' = ClientSending
<1>1. UNCHANGED <<link, open, inbox, cpc, protover>>
  BY DEF wire, ServerOnly, client
<1>2. ClientSending' = ClientSending
  BY <1>1 DEF ClientSending
<1>. QED  BY <1>1, <1>2 DEF ToServer

\* The server gives up before it has anything to respond.
LEMMA GivesUp ==
    ASSUME IInv, spc \in Preparing \cup {"compiler"}, NEW e \in Ret, ServerFails(e),
           UNCHANGED wire, ServerOnly
    PROVE  IInv'
<1> USE DEF IInv
<1>1. /\ spc' = "out_cleanup" /\ s_ret' = e
      /\ UNCHANGED <<s_ver, input, cc, status, compile_ret, job_result, protover, needs_dotd,
                     cpc, c_status, c_ret, object, deps>>
  BY DEF ServerFails, ServerOnly, client
<1>2. ToServer' /\ UNCHANGED <<link, open, inbox>>
  BY NothingRead
<1>3. TypeOK'
  BY <1>1, <1>2 DEF TypeOK, ServerLabel
<1>4. ServerAt'
  BY <1>1 DEF ServerAt, Preparing, Responding
<1>5. ToClient' /\ ClientAt'
  BY <1>1, <1>2, BeforeResponseStep
<1>. QED  BY <1>2, <1>3, <1>4, <1>5

LEMMA GivesUpReading ==
    ASSUME IInv, spc \in Preparing, NEW tok, NEW e \in Ret, ReadError("server", tok, e),
           NEW f \in Ret, ServerFails(f), ServerOnly
    PROVE  IInv'
<1>1. UNCHANGED wire
  BY ErrorIsError
<1>. QED  BY <1>1, GivesUp

\* The server goes on to read the next part of the request.
LEMMA GoesOn ==
    ASSUME IInv, spc \in Preparing, spc' \in Preparing, spc # "r_dist", ServerGoto(spc'),
           spc' \in {"r_cwd", "r_argv", "scan", "r_input"} => s_ver = protover,
           UNCHANGED <<link, open>>, ServerOnly, ToServer',
           inbox' \in [Peer -> Seq(Item)], inbox'["client"] = inbox["client"]
    PROVE  IInv'
<1> USE DEF IInv
<1>1. UNCHANGED <<s_ver, input, cc, status, s_ret, compile_ret, job_result, protover, needs_dotd,
                  cpc, c_status, c_ret, object, deps>>
  BY DEF ServerGoto, ServerOnly, client
<1>2. TypeOK'
  <2>1. spc' \in ServerLabel
    BY DEF ServerLabel, Preparing
  <2>2. inbox' \in [Peer -> Seq([t : Token, v : Value])]
    BY DEF Item
  <2>. QED  BY <1>1, <2>1, <2>2 DEF TypeOK
<1>3. ServerAt'
  BY <1>1 DEF ServerAt, Preparing, Responding
<1>4. ToClient' /\ ClientAt'
  BY BeforeResponseStep
<1>. QED  BY <1>2, <1>3, <1>4

LEMMA GoesOnReading ==
    ASSUME IInv, NEW from \in {"r_cwd", "r_argv"}, NEW tok \in {"CDIR", "ARGC"},
           NEW to \in {"r_argv", "scan"}, ServerReceives(from, tok, to)
    PROVE  IInv'
<1>1. spc = from /\ ServerOnly /\ s_ver = protover /\ spc \in Preparing
  BY DEF ServerReceives, IInv, ServerAt, Preparing
<1>2. CASE Readable("server", tok) /\ Consume("server") /\ ServerGoto(to)
  <2>1. /\ inbox' \in [Peer -> Seq(Item)] /\ inbox'["client"] = inbox["client"]
        /\ UNCHANGED <<link, open>> /\ (cpc' = cpc /\ protover' = protover => ToServer')
    BY <1>2, RequestRead
  <2>2. cpc' = cpc /\ protover' = protover /\ spc' = to
    BY <1>1, <1>2 DEF ServerOnly, client, ServerGoto
  <2>3. ServerGoto(spc') /\ spc' \in Preparing /\ spc # "r_dist"
    BY <1>1, <1>2, <2>2 DEF Preparing
  <2>. QED  BY <1>1, <2>1, <2>2, <2>3, GoesOn
<1>3. CASE \E e \in Ret : ReadError("server", tok, e) /\ ServerFails(e)
  BY <1>1, <1>3, GivesUpReading
<1>. QED  BY <1>2, <1>3 DEF ServerReceives

LEMMA HeaderRead ==
    ASSUME IInv, dcc_r_request_header
    PROVE  IInv'
<1>1. spc = "r_dist" /\ ServerOnly /\ spc \in Preparing
  BY DEF dcc_r_request_header, Preparing
<1>2. CASE Readable("server", "DIST") /\ Consume("server") /\ s_ver' = Content("server")
           /\ spc' \in {"r_cwd", "r_argv"}
           /\ UNCHANGED <<input, cc, status, s_ret, compile_ret, job_result>>
  <2>1. UNCHANGED <<cpc, c_status, c_ret, object, deps, protover, needs_dotd>>
    BY <1>1 DEF ServerOnly, client
  <2>2. /\ inbox' \in [Peer -> Seq(Item)] /\ inbox'["client"] = inbox["client"]
        /\ UNCHANGED <<link, open>> /\ ToServer' /\ s_ver' = protover
    <3>1. "DIST" \in {"DIST", "CDIR", "ARGC", "NFIL", "DOTI"}
      OBVIOUS
    <3>. QED  BY <1>2, <2>1, <3>1, RequestRead
  <2>3. spc' \in Preparing /\ spc' \in ServerLabel
    BY <1>2 DEF Preparing, ServerLabel
  <2>4. TypeOK'
    <3>1. inbox' \in [Peer -> Seq([t : Token, v : Value])]
      BY <2>2 DEF Item
    <3>2. s_ver' \in Protover
      BY <2>2, SessionAssumption DEF IInv, TypeOK
    <3>. QED  BY <1>2, <2>1, <2>2, <2>3, <3>1, <3>2 DEF TypeOK, IInv
  <2>5. ServerAt'
    BY <1>1, <1>2, <2>1, <2>2, <2>3 DEF IInv, ServerAt, Preparing, Responding
  <2>6. ToClient' /\ ClientAt'
    BY <1>1, <2>2, <2>3, BeforeResponseStep
  <2>. QED  BY <2>2, <2>4, <2>5, <2>6 DEF IInv
<1>3. CASE \E e \in Ret : ReadError("server", "DIST", e) /\ ServerFails(e)
  BY <1>1, <1>3, GivesUpReading
<1>. QED  BY <1>2, <1>3 DEF dcc_r_request_header

LEMMA InputRead ==
    ASSUME IInv, ReceiveInput
    PROVE  IInv'
<1> DEFINE tok == IF s_ver = "VER_3" THEN "NFIL" ELSE "DOTI"
<1>1. spc = "r_input" /\ ServerOnly /\ spc \in Preparing
  BY DEF ReceiveInput, Preparing
<1>2. tok \in {"NFIL", "DOTI"}
  OBVIOUS
<1>3. \/ /\ Readable("server", tok) /\ Consume("server")
         /\ input' = Content("server") /\ spc' = "compiler"
         /\ UNCHANGED <<s_ver, cc, status, s_ret, compile_ret, job_result>>
      \/ \E e \in Ret, f \in Ret : ReadError("server", tok, e) /\ ServerFails(f)
      \/ \E f \in Ret : UNCHANGED wire /\ ServerFails(f)
  BY DEF ReceiveInput, Ret
<1> HIDE DEF tok
<1>4. CASE /\ Readable("server", tok) /\ Consume("server")
           /\ input' = Content("server") /\ spc' = "compiler"
           /\ UNCHANGED <<s_ver, cc, status, s_ret, compile_ret, job_result>>
  <2>1. UNCHANGED <<cpc, c_status, c_ret, object, deps, protover, needs_dotd>>
    BY <1>1 DEF ServerOnly, client
  <2>2. /\ inbox' \in [Peer -> Seq(Item)] /\ inbox'["client"] = inbox["client"]
        /\ UNCHANGED <<link, open>> /\ ToServer'
        /\ input' = "whole" /\ inbox'["server"] = <<>> /\ ClientSending = 5
    <3>1. tok \in {"DIST", "CDIR", "ARGC", "NFIL", "DOTI"} /\ tok # "DIST"
      BY <1>2
    <3>. QED  BY <1>2, <1>4, <2>1, <3>1, RequestRead
  <2>3. ClientSending' = ClientSending
    BY <2>1 DEF ClientSending
  <2>4. TypeOK'
    <3>1. inbox' \in [Peer -> Seq([t : Token, v : Value])]
      BY <2>2 DEF Item
    <3>2. spc' \in ServerLabel
      BY <1>4 DEF ServerLabel
    <3>. QED  BY <1>4, <2>1, <2>2, <3>1, <3>2 DEF TypeOK, IInv
  <2>5. ServerAt'
    BY <1>1, <1>4, <2>1, <2>2, <2>3 DEF IInv, ServerAt, Preparing, Responding
  <2>6. ToClient' /\ ClientAt'
    BY <1>1, <1>4, <2>2, BeforeResponseStep
  <2>. QED  BY <2>2, <2>4, <2>5, <2>6 DEF IInv
<1>5. CASE \E e \in Ret, f \in Ret : ReadError("server", tok, e) /\ ServerFails(f)
  BY <1>1, <1>5, GivesUpReading
<1>6. CASE \E f \in Ret : UNCHANGED wire /\ ServerFails(f)
  BY <1>1, <1>6, GivesUp
<1>. QED  BY <1>3, <1>4, <1>5, <1>6

\* The other steps up to the compiler.
LEMMA PreparingStep ==
    ASSUME IInv, ServerStarts \/ dcc_r_cwd \/ dcc_r_argv \/ ScanArgs \/ dcc_remap_compiler_refuses
    PROVE  IInv'
<1>1. CASE ServerStarts \/ ScanArgs
  <2>1. /\ spc \in Preparing /\ spc' \in Preparing /\ spc # "r_dist"
        /\ UNCHANGED wire /\ ServerOnly /\ ServerGoto(spc')
        /\ spc = "start" => spc' = "r_dist"
        /\ spc # "start" => spc = "scan"
    BY <1>1 DEF ServerStarts, ScanArgs, Preparing, ServerGoto
  <2>2. ToServer' /\ UNCHANGED <<link, open, inbox>>
    BY <2>1, NothingRead DEF IInv
  <2>3. inbox' \in [Peer -> Seq(Item)]
    BY <2>2 DEF IInv, TypeOK, Item
  <2>4. spc' \in {"r_cwd", "r_argv", "scan", "r_input"} => s_ver = protover
    BY <2>1 DEF IInv, ServerAt
  <2>. QED  BY <2>1, <2>2, <2>3, <2>4, GoesOn
<1>2. CASE dcc_r_cwd
  BY <1>2, GoesOnReading DEF dcc_r_cwd
<1>3. CASE dcc_r_argv
  <2>1. CASE ServerReceives("r_argv", "ARGC", "scan")
    BY <2>1, GoesOnReading
  <2>2. CASE /\ spc = "r_argv" /\ \E e \in Ret : ReadError("server", "ARGC", e)
             /\ ServerFails("protocol") /\ ServerOnly
    <3>1. "protocol" \in Ret /\ spc \in Preparing
      BY <2>2 DEF Ret, Preparing
    <3>. QED  BY <2>2, <3>1, GivesUpReading
  <2>. QED  BY <1>3, <2>1, <2>2 DEF dcc_r_argv
<1>4. CASE dcc_remap_compiler_refuses
  <2>1. "ok" \in Ret
    BY DEF Ret
  <2>. QED  BY <1>4, <2>1, GivesUp DEF dcc_remap_compiler_refuses
<1>. QED  BY <1>1, <1>2, <1>3, <1>4

-----------------------------------------------------------------------------
(* The compiler *)

\* The server has started or collected the compiler.
LEMMA CompilerStep ==
    ASSUME IInv, \/ \E ok \in BOOLEAN : dcc_spawn_child(ok)
                 \/ CollectCompiler \/ CollectFails \/ ClientDisconnected \/ LifetimeOver
    PROVE  IInv'
<1> USE DEF IInv
<1>1. /\ spc \in {"compiler", "collect"} /\ spc' \in {"collect", "x_done"}
      /\ spc = "collect" => spc' = "x_done"
      /\ UNCHANGED wire /\ ServerOnly /\ UNCHANGED <<s_ver, input, s_ret, job_result>>
      /\ spc' = "collect" => cc' = "running" /\ status' = status /\ compile_ret' = compile_ret
      /\ spc' = "x_done" =>
             \/ status' = cc /\ cc' = cc /\ cc # "running" /\ spc = "collect" /\ compile_ret' = compile_ret
             \/ /\ status' \in {"failed", "io", "timeout"} /\ cc' \in {cc, "killed"}
                /\ compile_ret' \in {"other", "io", "timeout"}
  BY DEF dcc_spawn_child, CollectCompiler, CollectFails, ClientDisconnected, LifetimeOver,
         KillCompiler
<1>2. UNCHANGED <<cpc, c_status, c_ret, object, deps, protover, needs_dotd>>
  BY <1>1 DEF ServerOnly, client
<1>3. ToServer' /\ UNCHANGED <<link, open, inbox>> /\ ClientSending' = ClientSending
  BY <1>1, NothingRead
<1>4. /\ s_ver = protover /\ input = "whole" /\ inbox["server"] = <<>> /\ ClientSending = 5
      /\ compile_ret = "ok" /\ s_ret = "ok" /\ job_result = "none"
      /\ spc = "collect" => cc \in {"running", "ok", "error", "signal"}
      /\ spc = "compiler" => cc = "none"
  BY <1>1 DEF ServerAt
<1>5. TypeOK'
  <2>1. /\ spc' \in ServerLabel /\ compile_ret' \in {"ok", "io", "timeout", "other"}
        /\ cc' \in {"none", "running", "killed"} \cup CompilerStatus
        /\ status' \in CompilerStatus
    BY <1>1, <1>4 DEF TypeOK, ServerLabel, CompilerStatus
  <2>. QED  BY <1>1, <1>2, <1>3, <2>1 DEF TypeOK
<1>6. ServerAt'
  BY <1>1, <1>2, <1>3, <1>4 DEF ServerAt, Preparing, Responding
<1>7. ToClient' /\ ClientAt'
  BY <1>1, <1>3, BeforeResponseStep
<1>. QED  BY <1>3, <1>5, <1>6, <1>7

\* The compiler may also end after the server gave up waiting for it.
LEMMA CompilerEndsStep ==
    ASSUME IInv, NEW s \in {"ok", "error", "signal"}, CompilerEnds(s)
    PROVE  IInv'
<1> USE DEF IInv
<1>1. /\ cc = "running" /\ cc' = s
      /\ UNCHANGED <<protover, needs_dotd, link, open, inbox, cpc, c_status, c_ret, object, deps,
                     spc, s_ver, input, status, s_ret, compile_ret, job_result>>
  BY DEF CompilerEnds, wire, client
<1>2. TypeOK'
  <2>1. cc' \in {"none", "running", "killed"} \cup CompilerStatus
    BY <1>1 DEF CompilerStatus
  <2>. QED  BY <1>1, <2>1 DEF TypeOK
<1>3. /\ ClientSending' = ClientSending /\ ClientReading' = ClientReading
      /\ ServerSending' = ServerSending
  BY <1>1 DEF ClientSending, ClientReading, ServerSending
<1>4. ToServer'
  BY <1>1, <1>3 DEF ToServer
<1>5. ServerAt'
  BY <1>1, <1>3 DEF ServerAt, Preparing
<1>6. ~ObjectSent
  BY <1>1 DEF ObjectSent
<1>7. ToClient'
  <2>1. Gap' <=> Gap
    BY <1>1, <1>3 DEF Gap
  <2>. QED  BY <1>1, <1>3, <1>6, <2>1 DEF ToClient
<1>8. ClientAt'
  BY <1>1, <1>6 DEF ClientAt
<1>. QED  BY <1>2, <1>4, <1>5, <1>7, <1>8

-----------------------------------------------------------------------------
(* The response *)

ServerPuts(x) == inbox' = [inbox EXCEPT !["client"] = Append(@, x)]

LEMMA TokenSent ==
    ASSUME NEW tok, NEW val, dcc_x_token("server", tok, val)
    PROVE  /\ UNCHANGED <<link, open>>
           /\ inbox' = inbox \/ (link = "up" /\ ServerPuts([t |-> tok, v |-> val]))
  BY DEF dcc_x_token, Write, ServerPuts, Connected, Other

LEMMA FileSent ==
    ASSUME NEW tok, NEW val, dcc_x_file("server", tok, val, Compressed)
    PROVE  /\ UNCHANGED <<link, open>>
           /\ \/ inbox' = inbox
              \/ link = "up" /\ ServerPuts([t |-> tok, v |-> val])
              \/ s_ver = "VER_1" /\ link = "up" /\ ServerPuts([t |-> tok, v |-> "short"])
<1>1. \/ dcc_x_token("server", tok, val)
      \/ UNCHANGED wire
      \/ s_ver = "VER_1" /\ dcc_x_token("server", tok, "short")
  BY DEF dcc_x_file, Compressed
<1>. QED  BY <1>1, TokenSent DEF wire

LEMMA FileNotSent ==
    ASSUME NEW p, WriteFails(p) \/ dcc_x_file_fails(p)
    PROVE  UNCHANGED <<link, open, inbox>>
  BY DEF WriteFails, dcc_x_file_fails, wire

\* The server itself while it responds.
LEMMA RespondingStep ==
    ASSUME IInv, spc \in Responding, ServerOnly,
           UNCHANGED <<link, open, s_ver, input, cc, status, compile_ret>>,
           inbox' \in [Peer -> Seq(Item)], inbox'["server"] = inbox["server"],
           spc' \in (Responding \ {"x_done"}) \cup {"out_cleanup"},
           spc' \in {"x_doto", "x_dotd"} => status = "ok",
           spc' = "x_dotd" => s_ver = "VER_3",
           s_ret' \in Ret, spc' \in Responding \ {"x_doto_0"} => s_ret' = "ok",
           job_result' \in JobResult, spc' \in Responding => job_result' = "none",
           job_result' = "compile_ok" => status = "ok" /\ s_ret' \in {"ok", "io"}
    PROVE  TypeOK' /\ ToServer' /\ ServerAt'
<1> USE DEF IInv
<1>1. UNCHANGED <<cpc, c_status, c_ret, object, deps, protover, needs_dotd>>
  BY DEF ServerOnly, client
<1>2. TypeOK'
  <2>1. spc' \in ServerLabel
    BY DEF ServerLabel, Responding
  <2>2. inbox' \in [Peer -> Seq([t : Token, v : Value])]
    BY DEF Item
  <2>. QED  BY <1>1, <2>1, <2>2 DEF TypeOK
<1>3. ClientSending' = ClientSending
  BY <1>1 DEF ClientSending
<1>4. ToServer'
  BY <1>1, <1>3 DEF ToServer
<1>5. ServerAt'
  <2>1. /\ s_ver = protover /\ input = "whole" /\ inbox["server"] = <<>> /\ ClientSending = 5
        /\ status = "ok" => cc = "ok" /\ compile_ret = "ok"
    BY DEF ServerAt
  <2>. QED  BY <1>1, <1>3, <2>1 DEF ServerAt, Preparing, Responding
<1>. QED  BY <1>2, <1>4, <1>5

\* Nothing is sent, and the server goes on or gives up.
LEMMA NothingSent ==
    ASSUME IInv, ServerOnly, UNCHANGED <<link, s_ver, status>>,
           inbox'["client"] = inbox["client"], ServerSending <= ServerSending',
           spc' = "x_doto_0" /\ status = "ok" => Gap', ObjectSent => ObjectSent'
    PROVE  ToClient' /\ ClientAt'
<1>1. UNCHANGED <<cpc, c_status, c_ret, object, deps, protover, needs_dotd>>
  BY DEF ServerOnly, client
<1>2. ClientReading' = ClientReading /\ ClientReading \in 0..6
  BY <1>1 DEF ClientReading
<1>3. ServerSending \in 1..7 /\ ServerSending' \in 1..7
  BY DEF ServerSending
<1>4. Gap => Gap'
  BY <1>2 DEF Gap
<1>5. ToClient'
  <2>1. Below(inbox["client"], ServerSending')
    BY <1>3, RankType DEF IInv, ToClient, Below
  <2>. QED  BY <1>1, <1>2, <1>3, <1>4, <2>1 DEF IInv, ToClient
<1>6. ClientAt'
  BY <1>1 DEF IInv, ClientAt
<1>. QED  BY <1>5, <1>6

\* The next item of the response is sent.
LEMMA ItemSent ==
    ASSUME IInv, ServerOnly, UNCHANGED <<link, s_ver, status>>, link = "up", spc \in Responding,
           NEW x \in Item, ServerPuts(x), Rank(x.t) = ServerSending,
           ServerSending < ServerSending',
           spc' = "x_doto_0" => status # "ok", ObjectSent => ObjectSent',
           x.t = "STAT" => x.v = status,
           x.t = "DOTO" => /\ x.v \in {"none", "whole", "short"}
                           /\ x.v # "none" => ObjectSent'
                           /\ x.v = "none" /\ status = "ok" => Gap
                           /\ x.v = "short" => s_ver = "VER_1"
    PROVE  /\ inbox' \in [Peer -> Seq(Item)] /\ inbox'["server"] = inbox["server"]
           /\ ToClient' /\ ClientAt'
<1> DEFINE q == inbox["client"]
           r == inbox'["client"]
<1>1. UNCHANGED <<cpc, c_status, c_ret, object, deps, protover, needs_dotd>>
  BY DEF ServerOnly, client
<1>2. ClientReading' = ClientReading /\ ClientReading \in 0..6
  BY <1>1 DEF ClientReading
<1>3. ServerSending \in 1..7 /\ ServerSending' \in 1..7
  BY DEF ServerSending
<1>4. inbox \in [Peer -> Seq(Item)] /\ q \in Seq(Item) /\ Rising(q) /\ Below(q, ServerSending)
  BY DEF IInv, TypeOK, Item, Peer, ToClient
<1>5. /\ r = Append(q, x) /\ inbox' = [inbox EXCEPT !["client"] = r]
      /\ inbox'["server"] = inbox["server"]
  BY <1>4 DEF ServerPuts, Peer
<1>6. /\ r \in Seq(Item) /\ Rising(r) /\ Len(r) = Len(q) + 1 /\ r[Len(r)] = x
      /\ \A i \in 1..Len(q) : r[i] = q[i]
  <2>1. Below(q, Rank(x.t))
    BY <1>4
  <2> HIDE DEF q, r
  <2>. QED  BY <1>4, <1>5, <2>1, Appended
<1>7. Len(q) \in Nat /\ Len(r) \in Nat
  BY <1>4, <1>6
<1>8. inbox' \in [Peer -> Seq(Item)]
  <2> HIDE DEF r
  <2>. QED  BY <1>4, <1>5, <1>6
<1>9. Below(r, ServerSending')
  <2>1. ASSUME NEW i \in 1..Len(r) PROVE Rank(r[i].t) < ServerSending'
    <3>1. CASE i = Len(r)
      BY <1>3, <1>6, <3>1
    <3>2. CASE i # Len(r)
      <4>1. i \in 1..Len(q) /\ r[i] = q[i]
        BY <1>6, <1>7, <3>2
      <4>2. Rank(q[i].t) < ServerSending /\ Rank(q[i].t) \in 0..6
        BY <1>4, <4>1, RankType DEF Below
      <4>. QED  BY <1>3, <4>1, <4>2
    <3>. QED  BY <3>1, <3>2
  <2>. QED  BY <2>1 DEF Below
<1>10. Gap /\ ServerSending >= 5 => Gap'
  <2> SUFFICES ASSUME Gap, ServerSending >= 5 PROVE Gap'
    OBVIOUS
  <2>1. PICK n \in 1..4 : ClientReading <= n /\ \A i \in 1..Len(q) : Rank(q[i].t) # n
    BY DEF Gap
  <2>2. ASSUME NEW i \in 1..Len(r) PROVE Rank(r[i].t) # n
    <3>1. CASE i = Len(r)
      BY <1>3, <1>6, <3>1
    <3>2. CASE i # Len(r)
      <4>1. i \in 1..Len(q) /\ r[i] = q[i]
        BY <1>6, <1>7, <3>2
      <4>. QED  BY <2>1, <4>1
    <3>. QED  BY <3>1, <3>2
  <2>. QED  BY <1>2, <2>1, <2>2 DEF Gap
<1>11. ASSUME NEW i \in 1..Len(r)
       PROVE  /\ r[i].t = "STAT" => r[i].v = status
              /\ r[i].t = "DOTO" => r[i].v \in {"none", "whole", "short"}
              /\ r[i].t = "DOTO" /\ r[i].v # "none" => ObjectSent'
              /\ r[i].t = "DOTO" /\ r[i].v = "none" /\ status = "ok" => Gap'
              /\ r[i].t = "DOTO" /\ r[i].v = "short" => i = Len(r) /\ s_ver = "VER_1"
  <2>0. Rank("DOTO") = 5
    BY DEF Rank
  <2>1. CASE i = Len(r)
    <3>1. r[i] = x
      BY <1>6, <2>1
    <3>2. x.t = "DOTO" => ServerSending >= 5
      BY <2>0
    <3> HIDE DEF r
    <3>. QED  BY <1>10, <2>1, <3>1, <3>2
  <2>2. CASE i # Len(r)
    <3>1. i \in 1..Len(q) /\ r[i] = q[i]
      BY <1>6, <1>7, <2>2
    <3>2. /\ q[i].t = "STAT" => q[i].v = status
          /\ q[i].t = "DOTO" => q[i].v \in {"none", "whole", "short"}
          /\ q[i].t = "DOTO" /\ q[i].v # "none" => ObjectSent
          /\ q[i].t = "DOTO" /\ q[i].v = "none" /\ status = "ok" => Gap
          /\ q[i].t = "DOTO" /\ q[i].v = "short" => s_ver = "VER_1"
      BY <3>1 DEF IInv, ToClient
    <3>3. q[i].t = "DOTO" => ServerSending >= 6
      BY <1>3, <1>4, <2>0, <3>1 DEF Below
    <3>4. ServerSending >= 6 => s_ver = "VER_3"
      BY DEF ServerSending, Responding, IInv, ServerAt
    <3>5. q[i].t = "DOTO" => ServerSending >= 5
      BY <1>3, <3>3
    <3> HIDE DEF q, r
    <3>. QED  BY <1>10, <3>1, <3>2, <3>3, <3>4, <3>5
  <2>. QED  BY <2>1, <2>2
<1>12. ToClient'
  <2>1. ClientReading <= ServerSending
    BY DEF IInv, ToClient
  <2>. QED  BY <1>2, <1>3, <1>6, <1>9, <1>11, <2>1 DEF ToClient
<1>13. ClientAt'
  BY <1>1 DEF IInv, ClientAt
<1>. QED  BY <1>5, <1>8, <1>12, <1>13

\* What the server puts before the object.
BeforeObject(x) ==
    /\ x \in Item /\ x.t \in {"DONE", "STAT", "SERR", "SOUT"} /\ Rank(x.t) = ServerSending
    /\ x.t = "STAT" => x.v = status

\* All that a step of the response up to SOUT does.
RespondsOn ==
    /\ spc \in {"x_done", "x_stat", "x_serr", "x_sout"}
    /\ ServerOnly /\ UNCHANGED <<link, open, s_ver, input, cc, status, compile_ret, job_result>>
    /\ \/ /\ spc' \in {"x_stat", "x_serr", "x_sout", "x_doto", "x_doto_0"}
          /\ ServerSending < ServerSending' /\ s_ret' = s_ret
          /\ spc' = "x_doto" <=> (spc = "x_sout" /\ status = "ok")
          /\ spc' = "x_doto_0" => status # "ok"
          /\ inbox' = inbox \/ (link = "up" /\ \E x : BeforeObject(x) /\ ServerPuts(x))
       \/ spc' = "x_doto_0" /\ s_ret' = "io" /\ inbox' = inbox

ResponseSteps == dcc_x_result_header \/ dcc_x_cc_status \/ SendStderr \/ SendStdout

LEMMA ResponseIsSending ==
    ASSUME IInv, ResponseSteps
    PROVE  RespondsOn
<1>1. status \in CompilerStatus
  BY DEF IInv, TypeOK
<1>2. CASE dcc_x_result_header
  <2>1. PICK v \in Protover :
            ServerSends("x_done", dcc_x_token("server", "DONE", v), WriteFails("server"), "x_stat")
    BY <1>2 DEF dcc_x_result_header
  <2> DEFINE x == [t |-> "DONE", v |-> v]
  <2>2. spc = "x_done" /\ ServerOnly
    BY <2>1 DEF ServerSends
  <2>3. BeforeObject(x)
    BY <2>2 DEF BeforeObject, Item, Token, Value, Rank, ServerSending
  <2>4. CASE dcc_x_token("server", "DONE", v) /\ ServerGoto("x_stat")
    <3>1. UNCHANGED <<link, open>> /\ (inbox' = inbox \/ (link = "up" /\ ServerPuts(x)))
      BY <2>4, TokenSent
    <3> HIDE DEF x
    <3>. QED  BY <2>2, <2>3, <2>4, <3>1 DEF RespondsOn, ServerGoto, ServerSending
  <2>5. CASE /\ WriteFails("server") /\ spc' = "x_doto_0" /\ s_ret' = "io"
             /\ UNCHANGED <<s_ver, input, cc, status, compile_ret, job_result>>
    BY <2>2, <2>5, FileNotSent DEF RespondsOn
  <2>. QED  BY <2>1, <2>4, <2>5 DEF ServerSends
<1>3. CASE dcc_x_cc_status
  <2> DEFINE x == [t |-> "STAT", v |-> status]
  <2>2. spc = "x_stat" /\ ServerOnly
    BY <1>3 DEF dcc_x_cc_status, ServerSends
  <2>3. BeforeObject(x)
    BY <1>1, <2>2 DEF BeforeObject, Item, Token, Value, Rank, ServerSending
  <2>4. CASE dcc_x_token("server", "STAT", status) /\ ServerGoto("x_serr")
    <3>1. UNCHANGED <<link, open>> /\ (inbox' = inbox \/ (link = "up" /\ ServerPuts(x)))
      BY <2>4, TokenSent
    <3> HIDE DEF x
    <3>. QED  BY <2>2, <2>3, <2>4, <3>1 DEF RespondsOn, ServerGoto, ServerSending
  <2>5. CASE /\ WriteFails("server") /\ spc' = "x_doto_0" /\ s_ret' = "io"
             /\ UNCHANGED <<s_ver, input, cc, status, compile_ret, job_result>>
    BY <2>2, <2>5, FileNotSent DEF RespondsOn
  <2>. QED  BY <1>3, <2>4, <2>5 DEF dcc_x_cc_status, ServerSends
<1>4. ASSUME NEW tok \in {"SERR", "SOUT"}, NEW from \in {"x_serr", "x_sout"}, NEW to,
             spc = from, ServerOnly, Rank(tok) = ServerSending,
             from = "x_serr" => to = "x_sout",
             from = "x_sout" => to = (IF status = "ok" THEN "x_doto" ELSE "x_doto_0"),
             \/ dcc_x_file("server", tok, "whole", Compressed) /\ ServerGoto(to)
             \/ /\ dcc_x_file_fails("server") /\ spc' = "x_doto_0" /\ s_ret' = "io"
                /\ UNCHANGED <<s_ver, input, cc, status, compile_ret, job_result>>
      PROVE  RespondsOn
  <2> DEFINE x == [t |-> tok, v |-> "whole"]
             y == [t |-> tok, v |-> "short"]
  <2>1. BeforeObject(x) /\ BeforeObject(y)
    BY <1>4 DEF BeforeObject, Item, Token, Value
  <2>2. CASE dcc_x_file("server", tok, "whole", Compressed) /\ ServerGoto(to)
    <3>1. /\ UNCHANGED <<link, open>>
          /\ inbox' = inbox \/ (link = "up" /\ (ServerPuts(x) \/ ServerPuts(y)))
      BY <2>2, FileSent
    <3>2. ServerSending < ServerSending'
      BY <1>4, <2>2 DEF ServerSending, ServerGoto
    <3> HIDE DEF x, y
    <3>3. inbox' = inbox \/ (link = "up" /\ \E z : BeforeObject(z) /\ ServerPuts(z))
      BY <2>1, <3>1
    <3>. QED  BY <1>4, <2>2, <3>1, <3>2, <3>3 DEF RespondsOn, ServerGoto
  <2>3. CASE /\ dcc_x_file_fails("server") /\ spc' = "x_doto_0" /\ s_ret' = "io"
             /\ UNCHANGED <<s_ver, input, cc, status, compile_ret, job_result>>
    BY <1>4, <2>3, FileNotSent DEF RespondsOn
  <2>. QED  BY <1>4, <2>2, <2>3
<1>5. CASE SendStderr
  <2>1. Rank("SERR") = 3 /\ spc = "x_serr" /\ ServerSending = 3
    BY <1>5 DEF Rank, SendStderr, ServerSends, ServerSending
  <2>. QED  BY <1>4, <1>5, <2>1 DEF SendStderr, ServerSends
<1>6. CASE SendStdout
  <2>1. Rank("SOUT") = 4 /\ spc = "x_sout" /\ ServerSending = 4
    BY <1>6 DEF Rank, SendStdout, ServerSends, ServerSending
  <2>. QED  BY <1>4, <1>6, <2>1 DEF SendStdout, ServerSends
<1>. QED  BY <1>2, <1>3, <1>5, <1>6 DEF ResponseSteps

LEMMA RespondsOnStep ==
    ASSUME IInv, RespondsOn
    PROVE  IInv'
<1>1. /\ spc \in Responding /\ ~ObjectSent /\ inbox \in [Peer -> Seq(Item)]
      /\ ServerOnly /\ UNCHANGED <<link, open, s_ver, input, cc, status, compile_ret, job_result>>
      /\ s_ret = "ok" /\ s_ret \in Ret /\ job_result = "none" /\ job_result \in JobResult
      /\ ServerSending \in 1..4
  <2>1. /\ spc \in {"x_done", "x_stat", "x_serr", "x_sout"}
        /\ ServerOnly /\ UNCHANGED <<link, open, s_ver, input, cc, status, compile_ret, job_result>>
    BY DEF RespondsOn
  <2>2. spc \in Responding /\ ~ObjectSent /\ ServerSending \in 1..4
    BY <2>1 DEF Responding, ObjectSent, ServerSending
  <2>3. s_ret = "ok" /\ job_result = "none"
    BY <2>1 DEF IInv, ServerAt, Responding
  <2>4. inbox \in [Peer -> Seq(Item)]
    BY DEF IInv, TypeOK, Item
  <2>. QED  BY <2>1, <2>2, <2>3, <2>4 DEF Ret, JobResult
<1>2. inbox' \in [Peer -> Seq(Item)] /\ inbox'["server"] = inbox["server"] /\ ToClient' /\ ClientAt'
  <2>1. CASE inbox' = inbox /\ s_ret' = s_ret /\ ServerSending < ServerSending'
             /\ (spc' = "x_doto_0" => status # "ok")
    <3>1. ServerSending <= ServerSending'
      BY <2>1 DEF ServerSending
    <3>. QED  BY <1>1, <2>1, <3>1, NothingSent
  <2>2. CASE inbox' = inbox /\ spc' = "x_doto_0"
    <3>1. ServerSending <= ServerSending' /\ ServerSending' = 5
      BY <1>1, <2>2 DEF ServerSending
    <3>2. Gap'
      <4>1. /\ ClientReading <= ServerSending
            /\ \A i \in 1..Len(inbox["client"]) : Rank(inbox["client"][i].t) # ServerSending
        BY <1>1, RankType DEF IInv, ToClient, Below
      <4>2. ClientReading' = ClientReading
        BY <1>1 DEF ServerOnly, client, ClientReading
      <4>. QED  BY <1>1, <2>2, <4>1, <4>2 DEF Gap
    <3>. QED  BY <1>1, <2>2, <3>1, <3>2, NothingSent
  <2>3. CASE /\ link = "up" /\ \E x : BeforeObject(x) /\ ServerPuts(x)
             /\ ServerSending < ServerSending' /\ (spc' = "x_doto_0" => status # "ok")
    <3>1. PICK x : BeforeObject(x) /\ ServerPuts(x)
      BY <2>3
    <3>2. x \in Item /\ Rank(x.t) = ServerSending /\ x.t # "DOTO" /\ (x.t = "STAT" => x.v = status)
      BY <3>1 DEF BeforeObject
    <3>. QED  BY <1>1, <2>3, <3>1, <3>2, ItemSent
  <2>. QED  BY <2>1, <2>2, <2>3 DEF RespondsOn
<1>3. TypeOK' /\ ToServer' /\ ServerAt'
  <2>1. /\ spc' \in (Responding \ {"x_done"}) \cup {"out_cleanup"}
        /\ spc' \in {"x_doto", "x_dotd"} => status = "ok"
        /\ spc' # "x_dotd" /\ s_ret' \in Ret
        /\ spc' \in Responding \ {"x_doto_0"} => s_ret' = "ok"
    BY <1>1 DEF RespondsOn, Responding, Ret
  <2>2. job_result' = "none" /\ job_result' \in JobResult
    BY <1>1
  <2>. QED  BY <1>1, <1>2, <2>1, <2>2, RespondingStep
<1>. QED  BY <1>2, <1>3 DEF IInv

\* "DOTO 0" after a response with a status other than 0, or with a gap.
LEMMA NoObjectStep ==
    ASSUME IInv, SendNoObject
    PROVE  IInv'
<1>1. /\ spc = "x_doto_0" /\ spc' = "out_cleanup" /\ job_result' = "compile_error"
      /\ dcc_x_token("server", "DOTO", "none") \/ WriteFails("server")
      /\ ServerOnly /\ UNCHANGED <<s_ver, input, cc, status, s_ret, compile_ret>>
  BY DEF SendNoObject
<1>2. /\ spc \in Responding /\ ~ObjectSent /\ inbox \in [Peer -> Seq(Item)]
      /\ ServerSending = 5 /\ ServerSending' = 7 /\ (status = "ok" => Gap)
  <2>1. spc \in Responding /\ ~ObjectSent /\ ServerSending = 5 /\ ServerSending' = 7
    BY <1>1 DEF Responding, ObjectSent, ServerSending
  <2>2. inbox \in [Peer -> Seq(Item)]
    BY DEF IInv, TypeOK, Item
  <2>. QED  BY <1>1, <2>1, <2>2 DEF IInv, ToClient
<1> DEFINE x == [t |-> "DOTO", v |-> "none"]
<1>3. x \in Item /\ x.t = "DOTO" /\ x.v = "none" /\ Rank(x.t) = 5
  BY DEF Item, Token, Value, Rank
<1>4. UNCHANGED <<link, open>> /\ (inbox' = inbox \/ (link = "up" /\ ServerPuts(x)))
  BY <1>1, TokenSent, FileNotSent
<1> HIDE DEF x
<1>5. inbox' \in [Peer -> Seq(Item)] /\ inbox'["server"] = inbox["server"] /\ ToClient' /\ ClientAt'
  <2>1. CASE inbox' = inbox
    BY <1>1, <1>2, <1>4, <2>1, NothingSent
  <2>2. CASE link = "up" /\ ServerPuts(x)
    BY <1>1, <1>2, <1>3, <1>4, <2>2, ItemSent
  <2>. QED  BY <1>4, <2>1, <2>2
<1>6. TypeOK' /\ ToServer' /\ ServerAt'
  <2>1. s_ret' \in Ret /\ job_result' \in JobResult /\ spc' \notin Responding
    BY <1>1 DEF IInv, TypeOK, JobResult, Responding
  <2>. QED  BY <1>1, <1>2, <1>4, <1>5, <2>1, RespondingStep
<1>. QED  BY <1>5, <1>6 DEF IInv

\* The object, whole or, uncompressed, perhaps short.
LEMMA ObjectStep ==
    ASSUME IInv, SendObject
    PROVE  IInv'
<1>1. /\ spc = "x_doto" /\ ServerOnly
      /\ UNCHANGED <<s_ver, input, cc, status, compile_ret>>
      /\ \/ /\ dcc_x_file("server", "DOTO", "whole", Compressed)
            /\ spc' = (IF s_ver = "VER_3" THEN "x_dotd" ELSE "out_cleanup")
            /\ job_result' = (IF s_ver = "VER_3" THEN job_result ELSE "compile_ok")
            /\ s_ret' = s_ret
         \/ /\ dcc_x_file_fails("server") /\ spc' = "out_cleanup" /\ s_ret' = "io"
            /\ job_result' = job_result
  BY DEF SendObject, ServerFails
<1>2. /\ spc \in Responding /\ ~ObjectSent /\ ServerSending = 5 /\ ServerSending' \in {6, 7}
  BY <1>1 DEF Responding, ObjectSent, ServerSending
<1>3. /\ inbox \in [Peer -> Seq(Item)]
      /\ status = "ok" /\ cc = "ok" /\ compile_ret = "ok" /\ input = "whole" /\ s_ver = protover
      /\ s_ret = "ok" /\ job_result = "none"
  <2>1. inbox \in [Peer -> Seq(Item)]
    BY DEF IInv, TypeOK, Item
  <2>. QED  BY <1>1, <1>2, <2>1 DEF IInv, ServerAt
<1> DEFINE x == [t |-> "DOTO", v |-> "whole"]
           y == [t |-> "DOTO", v |-> "short"]
<1>4. /\ x \in Item /\ x.t = "DOTO" /\ x.v = "whole" /\ Rank(x.t) = 5
      /\ y \in Item /\ y.t = "DOTO" /\ y.v = "short" /\ Rank(y.t) = 5
  BY DEF Item, Token, Value, Rank
<1>5. /\ UNCHANGED <<link, open>>
      /\ \/ inbox' = inbox
         \/ /\ link = "up" /\ (ServerPuts(x) \/ (s_ver = "VER_1" /\ ServerPuts(y)))
            /\ spc' = (IF s_ver = "VER_3" THEN "x_dotd" ELSE "out_cleanup")
            /\ job_result' = (IF s_ver = "VER_3" THEN job_result ELSE "compile_ok")
            /\ s_ret' = s_ret
  BY <1>1, FileSent, FileNotSent
<1> HIDE DEF x, y
<1>6. inbox' \in [Peer -> Seq(Item)] /\ inbox'["server"] = inbox["server"] /\ ToClient' /\ ClientAt'
  <2>1. CASE inbox' = inbox
    <3>1. spc' # "x_doto_0"
      BY <1>1
    <3>2. ServerSending <= ServerSending'
      BY <1>2
    <3>. QED  BY <1>1, <1>2, <1>3, <1>5, <2>1, <3>1, <3>2, NothingSent
  <2>2. CASE /\ link = "up" /\ (ServerPuts(x) \/ (s_ver = "VER_1" /\ ServerPuts(y)))
             /\ spc' = (IF s_ver = "VER_3" THEN "x_dotd" ELSE "out_cleanup")
             /\ job_result' = (IF s_ver = "VER_3" THEN job_result ELSE "compile_ok")
             /\ s_ret' = s_ret
    <3>1. ObjectSent'
      <4>1. protover' = protover
        BY <1>1 DEF ServerOnly
      <4>. QED  BY <1>1, <1>3, <2>2, <4>1 DEF ObjectSent
    <3>2. spc' # "x_doto_0" /\ ServerSending < ServerSending'
      BY <1>1, <1>2
    <3>3. CASE ServerPuts(x)
      BY <1>1, <1>2, <1>3, <1>4, <1>5, <2>2, <3>1, <3>2, <3>3, ItemSent
    <3>4. CASE s_ver = "VER_1" /\ ServerPuts(y)
      BY <1>1, <1>2, <1>3, <1>4, <1>5, <2>2, <3>1, <3>2, <3>4, ItemSent
    <3>. QED  BY <2>2, <3>3, <3>4
  <2>. QED  BY <1>5, <2>1, <2>2
<1>7. TypeOK' /\ ToServer' /\ ServerAt'
  <2>1. /\ spc' \in (Responding \ {"x_done"}) \cup {"out_cleanup"}
        /\ spc' = "x_dotd" => s_ver = "VER_3"
        /\ s_ret' \in Ret /\ (spc' \in Responding => s_ret' = "ok")
        /\ job_result' \in JobResult /\ (spc' \in Responding => job_result' = "none")
        /\ s_ret' \in {"ok", "io"}
    BY <1>1, <1>3 DEF Responding, Ret, JobResult
  <2>. QED  BY <1>1, <1>2, <1>3, <1>5, <1>6, <2>1, RespondingStep
<1>. QED  BY <1>6, <1>7 DEF IInv

\* The dependencies, or "DOTD 0".
LEMMA DepsStep ==
    ASSUME IInv, SendDeps
    PROVE  IInv'
<1>1. /\ spc = "x_dotd" /\ ServerOnly /\ spc' = "out_cleanup" /\ job_result' = "compile_ok"
      /\ UNCHANGED <<s_ver, input, cc, status, compile_ret>>
      /\ s_ret' \in {s_ret, "io"}
      /\ \/ dcc_x_token("server", "DOTD", "whole") \/ dcc_x_token("server", "DOTD", "none")
         \/ UNCHANGED wire \/ dcc_x_file_fails("server")
  BY DEF SendDeps, dcc_x_file
<1>2. spc \in Responding /\ ServerSending = 6 /\ ServerSending' = 7
  BY <1>1 DEF Responding, ServerSending
<1>3. /\ inbox \in [Peer -> Seq(Item)] /\ protover' = protover
      /\ status = "ok" /\ s_ver = protover /\ s_ver = "VER_3" /\ s_ret = "ok"
  <2>1. inbox \in [Peer -> Seq(Item)]
    BY DEF IInv, TypeOK, Item
  <2>. QED  BY <1>1, <1>2, <2>1 DEF IInv, ServerAt, ServerOnly
<1>4. ObjectSent => ObjectSent'
  BY <1>1, <1>3 DEF ObjectSent
<1> DEFINE x == [t |-> "DOTD", v |-> "whole"]
           y == [t |-> "DOTD", v |-> "none"]
<1>5. /\ x \in Item /\ x.t = "DOTD" /\ Rank(x.t) = 6
      /\ y \in Item /\ y.t = "DOTD" /\ Rank(y.t) = 6
  BY DEF Item, Token, Value, Rank
<1>6. /\ UNCHANGED <<link, open>>
      /\ inbox' = inbox \/ (link = "up" /\ (ServerPuts(x) \/ ServerPuts(y)))
  BY <1>1, TokenSent, FileNotSent DEF wire
<1> HIDE DEF x, y
<1>7. inbox' \in [Peer -> Seq(Item)] /\ inbox'["server"] = inbox["server"] /\ ToClient' /\ ClientAt'
  <2>1. CASE inbox' = inbox
    BY <1>1, <1>2, <1>3, <1>4, <1>6, <2>1, NothingSent
  <2>2. CASE link = "up" /\ ServerPuts(x)
    BY <1>1, <1>2, <1>4, <1>5, <1>6, <2>2, ItemSent
  <2>3. CASE link = "up" /\ ServerPuts(y)
    BY <1>1, <1>2, <1>4, <1>5, <1>6, <2>3, ItemSent
  <2>. QED  BY <1>6, <2>1, <2>2, <2>3
<1>8. TypeOK' /\ ToServer' /\ ServerAt'
  <2>1. /\ s_ret' \in Ret /\ job_result' \in JobResult /\ spc' \notin Responding
        /\ s_ret' \in {"ok", "io"}
    BY <1>1, <1>3 DEF Ret, JobResult, Responding
  <2>. QED  BY <1>1, <1>2, <1>3, <1>6, <1>7, <2>1, RespondingStep
<1>. QED  BY <1>7, <1>8 DEF IInv

\* A failure of one of the server's own calls.
LEMMA InternalErrorStep ==
    ASSUME IInv, ServerInternalError
    PROVE  IInv'
<1>1. /\ spc \in {"start", "scan", "compiler", "r_argv", "x_doto", "x_dotd"}
      /\ spc \in {"r_argv", "x_doto"} => s_ver = "VER_3"
      /\ UNCHANGED wire /\ ServerOnly
  BY DEF ServerInternalError
<1>2. PICK e \in {"io", "other"} : ServerFails(e)
  BY DEF ServerInternalError
<1>5. e \in Ret
  BY DEF Ret
<1>3. CASE spc \in Preparing \cup {"compiler"}
  BY <1>1, <1>2, <1>3, <1>5, GivesUp
<1>4. CASE spc \in {"x_doto", "x_dotd"}
  <2>1. /\ spc' = "out_cleanup" /\ s_ret' = e /\ spc \in Responding
        /\ UNCHANGED <<link, open, inbox, s_ver, input, cc, status, compile_ret, job_result>>
    BY <1>1, <1>2, <1>4 DEF ServerFails, wire, Responding
  <2>2. /\ ServerSending <= ServerSending'
    BY <1>4, <2>1 DEF ServerSending
  <2>3. /\ inbox \in [Peer -> Seq(Item)] /\ job_result = "none" /\ s_ver = "VER_3" /\ s_ver = protover
    <3>1. inbox \in [Peer -> Seq(Item)]
      BY DEF IInv, TypeOK, Item
    <3>. QED  BY <1>1, <1>4, <2>1, <3>1 DEF IInv, ServerAt
  <2>4. ObjectSent => ObjectSent'
    <3>1. protover' = protover
      BY <1>1 DEF ServerOnly
    <3>. QED  BY <1>4, <2>1, <2>3, <3>1 DEF ObjectSent
  <2>5. ToClient' /\ ClientAt'
    BY <1>1, <2>1, <2>2, <2>4, NothingSent
  <2>6. TypeOK' /\ ToServer' /\ ServerAt'
    <3>1. job_result' \in JobResult /\ spc' \notin Responding
      BY <2>1, <2>3 DEF JobResult, Responding
    <3>. QED  BY <1>1, <1>5, <2>1, <2>3, <3>1, RespondingStep
  <2>. QED  BY <2>5, <2>6 DEF IInv
<1>. QED  BY <1>1, <1>3, <1>4 DEF Preparing

\* What is counted does not turn a failed response into a success, nor a
\* success into something else.
LEMMA CleanUpStep ==
    ASSUME IInv, ServerCleansUp
    PROVE  IInv'
<1>1. /\ spc = "out_cleanup" /\ spc' = "closed" /\ job_result' = Classify(job_result)
      /\ open' = [open EXCEPT !["server"] = FALSE] /\ ServerOnly
      /\ UNCHANGED <<link, inbox, s_ver, input, cc, status, s_ret, compile_ret>>
  BY DEF ServerCleansUp
<1>2. UNCHANGED <<cpc, c_status, c_ret, object, deps, protover, needs_dotd>>
  BY <1>1 DEF ServerOnly, client
<1>3. /\ job_result' \in JobResult
      /\ job_result' = "compile_ok" => job_result = "compile_ok" /\ s_ret # "io"
      /\ job_result = "compile_ok" /\ s_ret = "ok" /\ compile_ret = "ok" => job_result' = "compile_ok"
  <2>1. job_result \in JobResult
    BY DEF IInv, TypeOK
  <2>. QED  BY <1>1, <2>1 DEF Classify, JobResult
<1>4. TypeOK'
  <2>1. open' \in [Peer -> BOOLEAN] /\ spc' \in ServerLabel
    BY <1>1 DEF IInv, TypeOK, ServerLabel
  <2>. QED  BY <1>1, <1>2, <1>3, <2>1 DEF IInv, TypeOK
<1>5. ClientSending' = ClientSending
  BY <1>2 DEF ClientSending
<1>6. ToServer'
  BY <1>1, <1>2, <1>5 DEF IInv, ToServer
<1>7. ServerAt'
  BY <1>1, <1>2, <1>3 DEF IInv, ServerAt, Preparing, Responding
<1>8. ToClient' /\ ClientAt'
  <2>1. ObjectSent => ObjectSent'
    BY <1>1, <1>2, <1>3 DEF ObjectSent
  <2>2. ServerSending <= ServerSending' /\ spc' # "x_doto_0"
    BY <1>1 DEF ServerSending
  <2>. QED  BY <1>1, <2>1, <2>2, NothingSent
<1>. QED  BY <1>4, <1>6, <1>7, <1>8 DEF IInv

-----------------------------------------------------------------------------
(* The invariant holds *)

LEMMA InitInv == Init => IInv
<1> SUFFICES ASSUME Init PROVE IInv
  OBVIOUS
<1>1. inbox["client"] = <<>> /\ inbox["server"] = <<>>
  BY DEF Init, Peer
<1>2. TypeOK
  BY SessionAssumption DEF Init, TypeOK, Peer, ClientLabel, ServerLabel, CompilerStatus, Ret,
     FileState, JobResult
<1>3. Len(<<>>) = 0 /\ 1..Len(<<>>) = {}
  OBVIOUS
<1>4. ToServer
  BY <1>1, <1>3 DEF ToServer, Rising, Below
<1>5. ServerAt
  BY DEF Init, ServerAt, Preparing, Responding
<1>6. ToClient
  BY <1>1, <1>3 DEF Init, ToClient, Rising, Below, ClientReading, ServerSending
<1>7. ClientAt
  BY DEF Init, ClientAt, Ended
<1>. QED  BY <1>2, <1>4, <1>5, <1>6, <1>7 DEF IInv

LEMMA ClientStepInv ==
    ASSUME IInv, ClientStep
    PROVE  IInv'
<1>1. CASE RequestSteps
  BY <1>1, RequestIsSending, SendsOnStep DEF IInv
<1>2. CASE \/ dcc_r_result_header \/ dcc_r_cc_status \/ ReceiveStderr \/ ReceiveStdout
           \/ \E added \in BOOLEAN : LogEmail(added)
  BY <1>2, ResponseReads
<1>3. CASE ReceiveObject
  BY <1>3, ObjectRead
<1>4. CASE ReceiveDeps
  BY <1>4, DepsRead
<1>5. CASE ClientCloses
  BY <1>5, ClientEnds
<1>. QED  BY <1>1, <1>2, <1>3, <1>4, <1>5 DEF ClientStep, RequestSteps

LEMMA ServerStepInv ==
    ASSUME IInv, ServerStep \/ ServerFault
    PROVE  IInv'
<1>1. CASE ServerStarts \/ dcc_r_cwd \/ dcc_r_argv \/ ScanArgs \/ dcc_remap_compiler_refuses
  BY <1>1, PreparingStep
<1>2. CASE dcc_r_request_header
  BY <1>2, HeaderRead
<1>3. CASE ReceiveInput
  BY <1>3, InputRead
<1>4. CASE \/ \E ok \in BOOLEAN : dcc_spawn_child(ok)
           \/ CollectCompiler \/ CollectFails \/ ClientDisconnected \/ LifetimeOver
  BY <1>4, CompilerStep
<1>5. CASE ResponseSteps
  BY <1>5, ResponseIsSending, RespondsOnStep
<1>6. CASE SendNoObject
  BY <1>6, NoObjectStep
<1>7. CASE SendObject
  BY <1>7, ObjectStep
<1>8. CASE SendDeps
  BY <1>8, DepsStep
<1>9. CASE ServerCleansUp
  BY <1>9, CleanUpStep
<1>10. CASE ServerInternalError
  BY <1>10, InternalErrorStep
<1>. QED  BY <1>1, <1>2, <1>3, <1>4, <1>5, <1>6, <1>7, <1>8, <1>9, <1>10
          DEF ServerStep, ServerFault, ResponseSteps

LEMMA NextInv == IInv /\ [Next]_vars => IInv'
<1> SUFFICES ASSUME IInv, [Next]_vars PROVE IInv'
  OBVIOUS
<1>1. CASE ClientStep
  BY <1>1, ClientStepInv
<1>2. CASE ServerStep \/ ServerFault
  BY <1>2, ServerStepInv
<1>3. CASE \E s \in {"ok", "error", "signal"} : CompilerEnds(s)
  BY <1>3, CompilerEndsStep
<1>4. CASE Reset
  BY <1>4, ResetStep
<1>5. CASE ClientKilled \/ ClientVanishes
  BY <1>5, ClientEnds
<1>6. CASE ServerVanishes
  BY <1>6, ServerGone
<1>7. CASE UNCHANGED vars
  <2>1. UNCHANGED <<protover, needs_dotd, link, open, inbox, cpc, c_status, c_ret, object, deps,
                    spc, s_ver, input, cc, status, s_ret, compile_ret, job_result>>
    BY <1>7 DEF vars, wire, client, server
  <2>2. /\ ClientSending' = ClientSending /\ ClientReading' = ClientReading
        /\ ServerSending' = ServerSending /\ ObjectSent' = ObjectSent
    BY <2>1 DEF ClientSending, ClientReading, ServerSending, ObjectSent
  <2>3. Gap' = Gap
    BY <2>1, <2>2 DEF Gap
  <2>4. TypeOK'
    BY <2>1 DEF IInv, TypeOK
  <2>5. ToServer'
    BY <2>1, <2>2 DEF IInv, ToServer
  <2>6. ServerAt'
    BY <2>1, <2>2 DEF IInv, ServerAt
  <2>7. ToClient'
    BY <2>1, <2>2, <2>3 DEF IInv, ToClient
  <2>8. ClientAt'
    BY <2>1, <2>2 DEF IInv, ClientAt
  <2>. QED  BY <2>4, <2>5, <2>6, <2>7, <2>8 DEF IInv
<1>. QED  BY <1>1, <1>2, <1>3, <1>4, <1>5, <1>6, <1>7 DEF Next

\* The inductive invariant holds in every reachable state.
THEOREM Invariant == Spec => []IInv
  BY InitInv, NextInv, PTL DEF Spec

\* Every variable keeps its type: what the server reads as a version or a
\* source is one, and what is counted is a result.
THEOREM TypeCorrect == Spec => []TypeOK
<1>1. IInv => TypeOK
  BY DEF IInv
<1>. QED  BY <1>1, Invariant, PTL

\* Nothing of the request is left when dcc_collect_child watches the socket,
\* whatever was cut short or sent twice.
THEOREM NothingStray == Spec => []NoStrayInput
<1>1. IInv => NoStrayInput
  BY DEF IInv, ServerAt, NoStrayInput
<1>. QED  BY <1>1, Invariant, PTL

\* The output file is left with a part of an object only by a client that died
\* or failed to remove it, and a new one is from a compiler that succeeded on
\* the whole source.
THEOREM ObjectIsComplete == Spec => []NoPartialObject
<1>1. IInv => NoPartialObject
  BY DEF IInv, ClientAt, ObjectSent, NoPartialObject
<1>. QED  BY <1>1, Invariant, PTL

\* As long as LogEmail does not fail dcc_compile_remote reports success only with the
\* complete object in place.
THEOREM SuccessIsReal ==
    ASSUME "email" \notin Faults
    PROVE  Spec => []SuccessMeansObject
<1>1. IInv => SuccessMeansObject
  BY DEF IInv, ClientAt, ObjectSent, SuccessMeansObject, Success
<1>. QED  BY <1>1, Invariant, PTL

\* As long as LogEmail does not fail the daemon counts COMPILE_OK exactly for what it
\* compiled and sent, and for every plain-mode success of a client.
THEOREM StatsAreTruthful ==
    ASSUME "email" \notin Faults
    PROVE  Spec => []StatsTruthful
<1>1. IInv => StatsTruthful
  BY DEF IInv, ServerAt, ClientAt, ObjectSent, StatsTruthful, Success
<1>. QED  BY <1>1, Invariant, PTL

-----------------------------------------------------------------------------
(* The session implements RemoteJob *)

\* Up to its end the client does nothing to the job but to fetch the object.
LEMMA ClientFetches ==
    ASSUME IInv, IInv', UNCHANGED server, cpc \notin Ended, cpc' \notin {"done", "gone"},
           cpc = "r_dotd" => object' = object
    PROVE  Job!Fetch \/ UNCHANGED Job!vars
<1>1. UNCHANGED <<input, cc>>
  BY DEF server
<1>2. JobOutcome = "pending" /\ JobOutcome' = "pending" /\ JobCompiler' = JobCompiler
  BY <1>1 DEF JobOutcome, JobCompiler, Success, Ended
<1>3. CASE object' = object
  BY <1>1, <1>2, <1>3 DEF Job!vars
<1>4. CASE object' # object
  <2>1. object = "old" /\ object' \in {"new", "absent", "kept"} /\ ObjectSent'
    BY <1>4 DEF IInv, ClientAt
  <2>2. input = "whole" /\ cc = "ok"
    BY <1>1, <2>1 DEF ObjectSent
  <2>3. JobCompiler = "ok"
    BY <2>2 DEF JobCompiler
  <2>. QED  BY <1>1, <1>2, <2>1, <2>2, <2>3 DEF Job!Fetch, Job!Fetchable
<1>. QED  BY <1>3, <1>4

LEMMA ClientStepOfJob ==
    ASSUME IInv, IInv', ClientStep, "email" \notin Faults
    PROVE  [Job!Next]_(Job!vars)
<1>1. CASE RequestSteps
  <2>1. UNCHANGED server /\ cpc \notin Ended /\ cpc' \notin {"done", "gone"} /\ cpc # "r_dotd"
    <3>1. SendsOn
      BY <1>1, RequestIsSending DEF IInv
    <3>. QED  BY <3>1 DEF SendsOn, Sending, Ended
  <2>. QED  BY <2>1, ClientFetches DEF Job!Next
<1>2. CASE \/ dcc_r_result_header \/ dcc_r_cc_status \/ ReceiveStderr \/ ReceiveStdout
           \/ \E added \in BOOLEAN : LogEmail(added)
  <2>1. UNCHANGED server /\ cpc \notin Ended /\ cpc' \notin {"done", "gone"} /\ cpc # "r_dotd"
    BY <1>2 DEF dcc_r_result_header, dcc_r_cc_status, ReceiveStderr, ReceiveStdout, LogEmail,
       ClientReceives, ClientOnly, ClientGoto, ClientFails, Ended
  <2>. QED  BY <2>1, ClientFetches DEF Job!Next
<1>3. CASE ReceiveObject
  <2>1. UNCHANGED server /\ cpc \notin Ended /\ cpc' \notin {"done", "gone"} /\ cpc # "r_dotd"
    BY <1>3 DEF ReceiveObject, ClientOnly, Ended
  <2>. QED  BY <2>1, ClientFetches DEF Job!Next
<1>4. CASE ReceiveDeps
  <2>1. UNCHANGED server /\ cpc \notin Ended /\ cpc' \notin {"done", "gone"} /\ object' = object
    BY <1>4 DEF ReceiveDeps, ClientOnly, Ended
  <2>. QED  BY <2>1, ClientFetches DEF Job!Next
<1>5. CASE ClientCloses
  <2>1. /\ cpc = "out" /\ cpc' = "done"
        /\ UNCHANGED <<input, cc, object, c_ret, c_status>>
    BY <1>5 DEF ClientCloses, ClientGoto, ClientOnly, server
  <2>2. JobOutcome = "pending" /\ JobCompiler' = JobCompiler
    BY <2>1 DEF JobOutcome, JobCompiler, Success
  <2>3. CASE c_ret = "ok" /\ c_status = "ok"
    <3>1. object = "new"
      BY <2>1, <2>3 DEF IInv, ClientAt
    <3>2. JobOutcome' = "success"
      BY <2>1, <2>3 DEF JobOutcome, Success
    <3>. QED  BY <2>1, <2>2, <3>1, <3>2 DEF Job!Next, Job!Succeed
  <2>4. CASE ~(c_ret = "ok" /\ c_status = "ok")
    <3>1. JobOutcome' = "failure"
      BY <2>1, <2>4 DEF JobOutcome, Success
    <3>. QED  BY <2>1, <2>2, <3>1 DEF Job!Next, Job!Fail
  <2>. QED  BY <2>3, <2>4
<1>. QED  BY <1>1, <1>2, <1>3, <1>4, <1>5 DEF ClientStep, RequestSteps

\* What does not touch the client, the source and the compiler.
LEMMA StepBesideJob ==
    ASSUME UNCHANGED <<client, input, cc>>
    PROVE  UNCHANGED Job!vars
<1>1. UNCHANGED <<cpc, c_status, c_ret, object>>
  BY DEF client
<1>2. JobOutcome' = JobOutcome /\ JobCompiler' = JobCompiler
  BY <1>1 DEF JobOutcome, JobCompiler, Success
<1>. QED  BY <1>1, <1>2 DEF Job!vars

LEMMA ServerStepOfJob ==
    ASSUME IInv, IInv', ServerStep \/ ServerFault
    PROVE  [Job!Next]_(Job!vars)
<1>0. UNCHANGED client
  BY DEF ServerStep, ServerFault, ServerStarts, dcc_r_request_header, dcc_r_cwd, dcc_r_argv,
     ServerReceives, ScanArgs, ReceiveInput, dcc_remap_compiler_refuses, dcc_spawn_child,
     CollectCompiler, ClientDisconnected, KillCompiler, dcc_x_result_header, dcc_x_cc_status,
     SendStderr, SendStdout, ServerSends, SendNoObject, SendObject, SendDeps, ServerCleansUp,
     ServerInternalError, CollectFails, LifetimeOver, ServerOnly
<1>1. UNCHANGED object /\ JobOutcome' = JobOutcome
  BY <1>0 DEF client, JobOutcome, Success
<1>2. CASE ReceiveInput /\ UNCHANGED cc /\ spc = "r_input"
  <2>1. input = "none" /\ cc = "none" /\ input' \in {"none", "whole"}
    BY <1>2 DEF IInv, ServerAt, Preparing
  <2>2. JobCompiler = "idle" /\ JobCompiler' = "idle"
    BY <1>2, <2>1 DEF JobCompiler
  <2>3. CASE input' = "none"
    BY <1>0, <1>2, <2>1, <2>3, StepBesideJob
  <2>4. CASE input' = "whole"
    BY <1>1, <2>1, <2>2, <2>4 DEF Job!Next, Job!Deliver
  <2>. QED  BY <2>1, <2>3, <2>4
<1>3. CASE spc = "compiler" /\ cc' = "running" /\ UNCHANGED input
  <2>1. input = "whole" /\ cc = "none"
    BY <1>3 DEF IInv, ServerAt
  <2>2. JobCompiler = "idle" /\ JobCompiler' = "running"
    BY <1>3, <2>1 DEF JobCompiler
  <2>. QED  BY <1>1, <1>3, <2>1, <2>2 DEF Job!Next, Job!Compile
<1>4. CASE cc = "running" /\ cc' = "killed" /\ UNCHANGED input
  <2>1. JobCompiler = "running" /\ JobCompiler' = "killed"
    BY <1>4 DEF JobCompiler
  <2>. QED  BY <1>1, <1>4, <2>1 DEF Job!Next, Job!CompilerEnds
<1>5. CASE UNCHANGED <<input, cc>>
  BY <1>0, <1>5, StepBesideJob
<1>6. CASE \/ dcc_x_result_header \/ dcc_x_cc_status \/ SendStderr \/ SendStdout
           \/ SendNoObject \/ SendObject \/ SendDeps \/ ServerCleansUp
  BY <1>5, <1>6 DEF dcc_x_result_header, dcc_x_cc_status, SendStderr, SendStdout, ServerSends,
     SendNoObject, SendObject, SendDeps, ServerCleansUp, ServerGoto, ServerFails
<1>7. CASE \/ ServerStarts \/ dcc_r_request_header \/ dcc_r_cwd \/ dcc_r_argv \/ ScanArgs
           \/ dcc_remap_compiler_refuses \/ CollectCompiler \/ ServerInternalError \/ CollectFails
  BY <1>5, <1>7 DEF ServerStarts, dcc_r_request_header, dcc_r_cwd, dcc_r_argv, ServerReceives,
     ScanArgs, dcc_remap_compiler_refuses, CollectCompiler, ServerInternalError, CollectFails,
     ServerGoto, ServerFails
<1>8. CASE ReceiveInput
  <2>1. spc = "r_input" /\ UNCHANGED cc
    BY <1>8 DEF ReceiveInput, ServerFails
  <2>. QED  BY <1>2, <1>8, <2>1
<1>9. CASE \E ok \in BOOLEAN : dcc_spawn_child(ok)
  <2>1. spc = "compiler" /\ UNCHANGED input /\ cc' \in {cc, "running"}
    BY <1>9 DEF dcc_spawn_child
  <2>. QED  BY <1>3, <1>5, <2>1
<1>10. CASE ClientDisconnected \/ LifetimeOver
  BY <1>4, <1>10 DEF ClientDisconnected, LifetimeOver, KillCompiler
<1>. QED  BY <1>6, <1>7, <1>8, <1>9, <1>10 DEF ServerStep, ServerFault

\* Every step of a session is one of the abstract job or changes nothing of
\* it, as long as no failure of LogEmail makes the client skip the object.
THEOREM SessionImplementsJob ==
    ASSUME "email" \notin Faults
    PROVE  Spec => ImplementsRemoteJob
<1>1. Init => Job!Init
  BY DEF Init, Job!Init, JobCompiler, JobOutcome, Success
<1>2. IInv /\ IInv' /\ [Next]_vars => [Job!Next]_(Job!vars)
  <2> SUFFICES ASSUME IInv, IInv', [Next]_vars PROVE [Job!Next]_(Job!vars)
    OBVIOUS
  <2>1. CASE ClientStep
    BY <2>1, ClientStepOfJob
  <2>2. CASE ServerStep \/ ServerFault
    BY <2>2, ServerStepOfJob
  <2>3. CASE \E s \in {"ok", "error", "signal"} : CompilerEnds(s)
    <3>1. /\ JobCompiler = "running" /\ JobCompiler' \in {"ok", "failed"}
          /\ UNCHANGED <<input, client>>
      BY <2>3 DEF CompilerEnds, JobCompiler
    <3>2. UNCHANGED object /\ JobOutcome' = JobOutcome
      BY <3>1 DEF client, JobOutcome, Success
    <3>. QED  BY <3>1, <3>2 DEF Job!Next, Job!CompilerEnds
  <2>4. CASE Reset \/ ServerVanishes \/ UNCHANGED vars
    <3>1. UNCHANGED <<client, input, cc>>
      BY <2>4 DEF Reset, ServerVanishes, vars, server
    <3>. QED  BY <3>1, StepBesideJob
  <2>5. CASE ClientKilled \/ ClientVanishes
    <3>1. UNCHANGED <<input, cc>> /\ cpc \notin {"done", "gone"} /\ cpc' = "gone"
      BY <2>5 DEF ClientKilled, ClientVanishes, ClientDies, ClientOnly, server
    <3>2. /\ JobOutcome = "pending" /\ JobOutcome' = "vanished"
          /\ JobCompiler' = JobCompiler
      BY <3>1 DEF JobOutcome, JobCompiler, Success
    <3>3. CASE object' = object
      BY <3>1, <3>2, <3>3 DEF Job!Next, Job!Vanish
    <3>4. CASE object' # object
      <4>1. object' \in {"absent", "partial"} /\ ObjectSent /\ object = "old"
        BY <2>5, <3>4, ObjectBegun
        DEF ClientKilled, ClientVanishes, ClientDies, MidTransfer, IInv, ClientAt, Ended
      <4>2. input = "whole" /\ JobCompiler = "ok"
        BY <4>1 DEF ObjectSent, JobCompiler
      <4>. QED  BY <3>1, <3>2, <4>1, <4>2 DEF Job!Next, Job!Vanish, Job!Fetchable
    <3>. QED  BY <3>3, <3>4
  <2>. QED  BY <2>1, <2>2, <2>3, <2>4, <2>5 DEF Next
<1>. QED  BY <1>1, <1>2, Invariant, PTL DEF Spec, ImplementsRemoteJob, Job!Spec
=============================================================================
