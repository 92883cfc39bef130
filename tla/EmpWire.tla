------------------------------- MODULE EmpWire -------------------------------
(***************************************************************************)
(* A session in its playing phase, from the keyboard to the player's       *)
(* thread: the client's loop (client/play.c, servcmd.c, secure.c), the     *)
(* connection, the server's I/O queues (lib/gen/ioqueue.c, empthread/io.c) *)
(* and what reads lines from them: the command loop, the execute command   *)
(* and the prompts of commands (player.c, recvclient.c, subs/pr.c).        *)
(*                                                                         *)
(* Text is a sequence of tokens, each the text of a line or a newline, so  *)
(* that a read or a buffer may end within a line.  What kind of line it is *)
(* is all there is to its text:                                            *)
(*    "cmd"      a command that prints something                           *)
(*    "ask"      a command that prompts for a line of input                *)
(*    "bad"      what is no command                                        *)
(*    "redir"    a command whose output is redirected                      *)
(*    "exec"     the execute command                                       *)
(*    "ctld"     EOF signalled by the client; "ctldB" is the same text, at *)
(*               the end of a batch file.  Nothing but properties tells    *)
(*               the two apart                                             *)
(*    "aborted"  interrupt signalled by the client                         *)
(* Server output is a sequence of tokens that are whole lines with their   *)
(* IDs: "data", "data>" (output of a redirected command; the client sees   *)
(* no difference), "C_PROMPT", "C_FLUSH", "C_EXECUTE" and "C_REDIR".       *)
(***************************************************************************)
EXTENDS Integers, SequencesExt

CONSTANTS RingSize,       \* RING_SIZE, in tokens
          BufSize,        \* bufsize of the I/O queues, in tokens
          SockSize,       \* what the connection holds in either direction
          LowWater,       \* room that select() takes for "can be written"
          Typings,        \* what may come from fd 0 before its end
          Batches,        \* what may be in a batch file
          MaxBatches,     \* bound on the batch files opened
          MaxInterrupts   \* bound on SIGINTs and on commands the server aborts

ASSUME WireAssumption ==
  /\ RingSize \in Nat /\ RingSize >= 2 /\ BufSize \in Nat \ {0}
  /\ SockSize \in Nat \ {0} /\ LowWater \in 1..SockSize /\ MaxInterrupts \in Nat

VARIABLES
  cpc,          \* where play()'s loop is
  want,         \* the descriptors in its fd_sets, then those that are ready
  typed,        \* what is still to come from fd 0
  batch,        \* what is still to come from the batch file
  inputFd,      \* input_fd: 0 or 1, a batch file
  inbuf,        \* ring buffer on its way to the server
  recent,       \* recent_input
  eof0, partial, sendEof, sendIntr,      \* play()'s and intr()'s flags; sendEof
                \* is "no" or the cookie to send
  executing, redir,                      \* servcmd.c's
  gripes,       \* assertions of the client that failed
  toServer, toClient,                    \* the connection
  inq, outq,    \* iop->input, iop->output
  spc,          \* where the player's thread is
  goes,         \* where it goes when its output need not be waited for
  inExec, failed,                        \* in c_execute(), its local
  commanding, aborted, gotCtld, ioEof,      \* player->..., IO_EOF
  flow,         \* what was put into inbuf and not yet taken by the server
  lineEnds,     \* whether what was put into inbuf last ended a line
  glued,        \* a cookie was put behind the beginning of a line
  opened,       \* number of batch files opened
  asked,        \* the player sees a prompt and has not answered it
  rushed,       \* he did something else than answer prompts with lines, as when
                \* he ends his input behind "exec", or the server aborted a command
  interrupts

clientVars == <<cpc, want, typed, batch, inputFd, inbuf, recent, eof0, partial, sendEof,
                sendIntr, executing, redir, gripes, lineEnds, glued, opened, asked>>
serverVars == <<inq, outq, spc, goes, inExec, failed, commanding, aborted, gotCtld, ioEof>>
wireVars == <<clientVars, serverVars, flow, toServer, toClient, rushed, interrupts>>

Lines == {"cmd", "ask", "bad", "redir", "exec", "ctld", "ctldB", "aborted"}
NL == "nl"
Input == Lines \cup {NL}
ASSUME InputAssumption == \A s \in Typings \cup Batches : s \in Seq(Input)

Output == {"data", "data>", "C_PROMPT", "C_FLUSH", "C_EXECUTE", "C_REDIR"}

Cookie(line) == <<line, NL>>

-----------------------------------------------------------------------------
(***************************************************************************)
(* I/O queues: buffers of BufSize or more, each with its bytes and how     *)
(* many of them are gone.  cc counts what is left; last is last_out of the *)
(* connection for the output queue.                                        *)
(***************************************************************************)
EmptyQueue == [list |-> <<>>, cc |-> 0, last |-> 0]

Left(io) == Len(io.data) - io.offset
Poured(list) == FlattenSeq([i \in DOMAIN list |->
                  SubSeq(list[i].data, list[i].offset + 1, Len(list[i].data))])
Content(q) == Poured(q.list)

WireMin(a, b) == IF a < b THEN a ELSE b
WireMax(a, b) == IF a < b THEN b ELSE a

\* appendcc(): fill the last buffer, and make one for the rest.
IoqAppend(q, s) ==
  LET n == Len(q.list)
      avail == IF n = 0 THEN 0 ELSE q.list[n].size - Len(q.list[n].data)
      len == WireMin(Len(s), avail)
      rest == SubSeq(s, len + 1, Len(s))
      filled == IF avail = 0 THEN q.list
                ELSE [q.list EXCEPT ![n].data = @ \o SubSeq(s, 1, len)]
      new == [size |-> WireMax(Len(rest), BufSize), data |-> rest, offset |-> 0]
  IN  [q EXCEPT !.list = IF avail >= Len(s) THEN filled ELSE Append(filled, new),
                !.cc = @ + Len(s)]

\* removecc(): drop the buffers that are used up, and move on in the next one.
\* Mutant: a buffer is dropped though some of it is left.
IoqDequeueAll(q, cc) ==
  IF cc = 0 THEN q ELSE [q EXCEPT !.list = Tail(@), !.cc = @ - Left(Head(q.list))]

IoqDequeue(q, cc) ==
  LET upto == [k \in 0..Len(q.list) |-> Len(Poured(SubSeq(q.list, 1, k)))]
      gone == CHOOSE k \in DOMAIN upto :
                upto[k] <= cc /\ (k = Len(q.list) \/ upto[k + 1] > cc)
      list == SubSeq(q.list, gone + 1, Len(q.list))
  IN  [q EXCEPT !.list = IF list = <<>> THEN list
                         ELSE [list EXCEPT ![1].offset = @ + (cc - upto[gone])],
                !.cc = @ - WireMin(cc, upto[Len(q.list)])]

IoqHasLine(q) == NL \in ToSet(Content(q))
LineLength(q) == SelectInSeq(Content(q), LAMBDA c : c = NL) - 1
\* ioq_gets(): the line, and the queue without it and its newline
IoqLine(q) == SubSeq(Content(q), 1, LineLength(q))
IoqGets(q) == IoqDequeue(q, LineLength(q) + 1)

\* ioq_drain()
IoqDrain(q) == EmptyQueue

-----------------------------------------------------------------------------
WireAtRest ==
  /\ cpc = "top" /\ want = {} /\ batch = <<>> /\ inputFd = 0
  /\ inbuf = <<>> /\ recent = <<>> /\ flow = <<>> /\ lineEnds = TRUE /\ glued = FALSE
  /\ eof0 = FALSE /\ partial = FALSE /\ sendEof = "no" /\ sendIntr = FALSE
  /\ executing = FALSE /\ redir = FALSE /\ gripes = {}
  /\ toServer = <<>> /\ toClient = <<>>
  /\ inq = EmptyQueue /\ outq = EmptyQueue
  /\ spc = "status" /\ goes = "status" /\ inExec = FALSE /\ failed = FALSE
  /\ commanding = FALSE /\ aborted = FALSE /\ gotCtld = FALSE /\ ioEof = FALSE
  /\ opened = 0 /\ asked = FALSE /\ rushed = FALSE /\ interrupts = 0

WireInit == WireAtRest /\ typed \in Typings

-----------------------------------------------------------------------------
(* The client.  An iteration of play()'s loop is five steps. *)

Space == RingSize - Len(inbuf)

\* Fill the fd_sets.
FillSets ==
  /\ cpc = "top" /\ cpc' = "select"
  /\ want' = {"sock"}
             \cup (IF ~sendIntr /\ sendEof = "no" /\ (inputFd # 0 \/ ~eof0) /\ Space > 0
                   THEN {"input"} ELSE {})
             \cup (IF sendIntr \/ sendEof # "no" \/ inbuf # <<>> THEN {"out"} ELSE {})
  /\ UNCHANGED <<typed, batch, inputFd, inbuf, recent, eof0, partial, sendEof, sendIntr, executing,
                 redir, gripes, flow, lineEnds, glued, opened, asked, serverVars, toServer, toClient, rushed, interrupts>>

\* After the server shut the connection down and all is read, reading gives 0.
ServerShut == spc \in {"closing", "gone"} /\ outq.cc = 0

Readable == toClient # <<>> \/ ServerShut
Writable == SockSize - Len(toServer) >= LowWater \/ spc = "gone"

(***************************************************************************)
(* select().  Batch files can be read at any time, fd 0 when the player    *)
(* has typed something or is done.                                         *)
(***************************************************************************)
SelectReturns ==
  /\ cpc = "select" /\ cpc' = "cookies"
  /\ \E typing \in BOOLEAN :
       want' = want \cap ((IF inputFd # 0 \/ typing THEN {"input"} ELSE {})
                          \cup (IF Readable THEN {"sock"} ELSE {})
                          \cup (IF Writable THEN {"out"} ELSE {}))
  /\ want' # {}
  /\ UNCHANGED <<typed, batch, inputFd, inbuf, recent, eof0, partial, sendEof, sendIntr, executing,
                 redir, gripes, flow, lineEnds, glued, opened, asked, serverVars, toServer, toClient, rushed, interrupts>>

(***************************************************************************)
(* SIGINT.  In select(), that returns with EINTR, unless the signal comes  *)
(* just before it; at the end of fd 0 the client stops catching it.        *)
(***************************************************************************)
Intr ==
  /\ cpc # "gone" /\ ~eof0 /\ interrupts < MaxInterrupts
  /\ sendIntr' = TRUE
  /\ \/ UNCHANGED <<cpc, want>>
     \/ cpc = "select" /\ cpc' = "cookies" /\ want' = {}
  /\ interrupts' = interrupts + 1 /\ rushed' = TRUE
  /\ UNCHANGED <<typed, batch, inputFd, inbuf, recent, eof0, partial, sendEof, executing,
                 redir, gripes, flow, lineEnds, glued, opened, asked, serverVars, toServer, toClient>>

(***************************************************************************)
(* Cookies go into the ring if they fit, EOF before interrupt, and never   *)
(* behind part of a line.                                                  *)
(***************************************************************************)
\* Mutant: the line that was begun is not ended first.
CookiesAnywhere(eof, intr) ==
  LET e == IF eof # "no" /\ Space >= 2 THEN Cookie(eof) ELSE <<>>
  IN  e \o (IF intr /\ Space - Len(e) >= 2 THEN Cookie("aborted") ELSE <<>>)

\* What goes into the ring
CookiesPut(eof, intr) ==
  LET line == IF (eof # "no" \/ intr) /\ partial /\ Space > 0 THEN <<NL>> ELSE <<>>
      whole == ~partial \/ line # <<>>
      e == IF eof # "no" /\ whole /\ Space - Len(line) >= 2 THEN Cookie(eof) ELSE <<>>
      i == IF intr /\ whole /\ Space - Len(line \o e) >= 2 THEN Cookie("aborted") ELSE <<>>
  IN  line \o e \o i

PutCookies ==
  LET p == CookiesPut(sendEof, sendIntr)
      intr == "aborted" \in ToSet(p)
  IN  /\ cpc = "cookies"
      /\ inbuf' = inbuf \o p /\ flow' = flow \o p
      /\ lineEnds' = (lineEnds \/ p # <<>>)
      /\ glued' = (glued \/ (~lineEnds /\ p # <<>> /\ p[1] # NL))
      /\ partial' = (partial /\ p = <<>>)
      /\ sendEof' = IF sendEof \in ToSet(p) THEN "no" ELSE sendEof
      /\ sendIntr' = (sendIntr /\ ~intr)
      /\ IF intr /\ inputFd # 0
         THEN inputFd' = 0 /\ batch' = <<>> /\ want' = want \ {"input"}
         ELSE UNCHANGED <<inputFd, batch, want>>
      /\ cpc' = IF want = {} THEN "top" ELSE "read"
      /\ UNCHANGED <<typed, recent, eof0, executing, redir, gripes, opened, asked,
                     serverVars, toServer, toClient, rushed, interrupts>>

\* What a patient player types: the answer to a prompt, one line at a time.
Patient(s) == asked /\ \A i \in DOMAIN s : s[i] = NL => i = Len(s)

(***************************************************************************)
(* recv_input(): reads what there is or part of it, or sees the end.       *)
(***************************************************************************)
ReadInput ==
  /\ cpc = "read" /\ cpc' = "send"
  /\ LET src == IF inputFd = 0 THEN typed ELSE batch
     IN  IF "input" \notin want \/ Space = 0
         THEN UNCHANGED <<typed, batch, inputFd, inbuf, flow, lineEnds, partial, sendEof, sendIntr, eof0, asked, rushed>>
         ELSE IF src = <<>>
         THEN /\ sendEof' = IF inputFd = 0 THEN "ctld" ELSE "ctldB"
              /\ IF inputFd = 0
                 THEN /\ eof0' = TRUE /\ sendIntr' = FALSE
                      /\ rushed' = (rushed \/ ~asked \/ flow = <<"exec">>)
                 ELSE UNCHANGED <<eof0, sendIntr, rushed>>
              /\ inputFd' = 0
              /\ UNCHANGED <<typed, batch, inbuf, flow, lineEnds, partial, asked>>
         ELSE \E n \in 1..WireMin(Space, Len(src)) :
              LET s == SubSeq(src, 1, n)
                  rest == SubSeq(src, n + 1, Len(src))
              IN  /\ inbuf' = inbuf \o s /\ flow' = flow \o s /\ lineEnds' = (s[n] = NL)
                  /\ partial' = (s[n] # NL)
                  /\ IF inputFd = 0
                     THEN /\ typed' = rest
                          /\ rushed' = (rushed \/ ~Patient(s))
                          /\ asked' = (asked /\ s[n] # NL)
                          /\ UNCHANGED batch
                     ELSE batch' = rest /\ UNCHANGED <<typed, rushed, asked>>
                  /\ UNCHANGED <<inputFd, sendEof, sendIntr, eof0>>
  /\ UNCHANGED <<want, recent, executing, redir, gripes, glued, opened, serverVars, toServer, toClient, interrupts>>

\* save_input(): forget whole lines until there is room; "none" if there is none.
SaveInput(r, c) ==
  IF Len(r) < RingSize THEN Append(r, c)
  ELSE LET eol == SelectInSeq(r, LAMBDA x : x = NL)
       IN  IF eol = 0 THEN <<"none">> ELSE Append(SubSeq(r, eol + 1, Len(r)), c)

(***************************************************************************)
(* send_input().  The client's socket blocks: writev() returns when all is *)
(* on its way, so the loop waits here if there is not enough room.         *)
(***************************************************************************)
SendInput ==
  /\ cpc = "send"
  /\ IF "out" \notin want
     THEN cpc' = "recv" /\ UNCHANGED <<inbuf, recent, toServer, gripes>>
     ELSE LET n == WireMin(Len(inbuf), SockSize - Len(toServer))
              saved == FoldLeft(SaveInput, recent, SubSeq(inbuf, 1, n))
              lost == "none" \in ToSet(saved)
          IN  /\ n > 0 \/ inbuf = <<>>
              /\ toServer' = toServer \o SubSeq(inbuf, 1, n)
              /\ inbuf' = SubSeq(inbuf, n + 1, Len(inbuf))
              /\ recent' = IF lost THEN <<>> ELSE saved
              /\ gripes' = gripes \cup (IF lost THEN {"save_input"} ELSE {})
              /\ cpc' = CASE lost -> "gone" [] n = Len(inbuf) -> "recv" [] OTHER -> "send"
  /\ UNCHANGED <<want, typed, batch, inputFd, eof0, partial, sendEof, sendIntr, executing, redir,
                 flow, lineEnds, glued, opened, asked, serverVars, toClient, rushed, interrupts>>

-----------------------------------------------------------------------------
(* servercmd(), for a line of server output at a time *)

Seen(line) == \E i \in 1..Len(recent) - 1 : recent[i] = line /\ recent[i + 1] = NL
RedirAuthorized == ~redir /\ Seen("redir") /\ ~executing
ExecAuthorized == Seen("exec") /\ ~executing

\* Mutant: the file is left open.
ShowPromptKeeps == executing' = FALSE /\ asked' = TRUE /\ UNCHANGED redir

ShowPrompt == redir' = FALSE /\ executing' = FALSE /\ asked' = TRUE

DoExecute(opens) ==
  IF ExecAuthorized /\ opens
  THEN /\ opened < MaxBatches /\ opened' = opened + 1
       /\ executing' = TRUE /\ inputFd' = 1
       /\ batch' \in Batches
       /\ gripes' = gripes \cup (IF inputFd # 0 THEN {"input_fd"} ELSE {})
       /\ UNCHANGED sendIntr
  ELSE /\ inputFd' = 0 /\ batch' = <<>> /\ sendIntr' = TRUE
       /\ UNCHANGED <<executing, gripes, opened>>

RecvOutput ==
  /\ cpc = "recv"
  /\ IF "sock" \notin want
     THEN cpc' = "top" /\ UNCHANGED <<redir, executing, asked, inputFd, batch, sendIntr, gripes, opened, toClient>>
     ELSE IF toClient = <<>>
     THEN cpc' = "gone" /\ UNCHANGED <<redir, executing, asked, inputFd, batch, sendIntr, gripes, opened, toClient>>
     ELSE /\ toClient' = Tail(toClient)
          /\ \/ /\ Head(toClient) \in {"data", "data>"}
                /\ UNCHANGED <<redir, executing, asked, inputFd, batch, sendIntr, gripes, opened>>
             \/ /\ Head(toClient) = "C_PROMPT" /\ ShowPrompt
                /\ UNCHANGED <<inputFd, batch, sendIntr, gripes, opened>>
             \/ /\ Head(toClient) = "C_FLUSH" /\ asked' = (asked \/ ~executing)
                /\ UNCHANGED <<redir, executing, inputFd, batch, sendIntr, gripes, opened>>
             \/ /\ Head(toClient) = "C_REDIR"
                /\ \E opens \in BOOLEAN : redir' = (redir \/ (RedirAuthorized /\ opens))
                /\ UNCHANGED <<executing, asked, inputFd, batch, sendIntr, gripes, opened>>
             \/ /\ Head(toClient) = "C_EXECUTE"
                /\ \E opens \in BOOLEAN : DoExecute(opens)
                /\ UNCHANGED <<redir, asked>>
          /\ cpc' = IF gripes' = {} THEN "top" ELSE "gone"
  /\ UNCHANGED <<want, typed, inbuf, recent, eof0, partial, sendEof, flow, lineEnds, glued,
                 serverVars, toServer, rushed, interrupts>>

-----------------------------------------------------------------------------
(* The server *)

\* pr_player() with s, then on at t when enough of the output is written
Long(q) == q.cc - q.last >= BufSize

Say(s, t) ==
  LET q == IoqAppend(outq, s)
  IN  /\ outq' = q
      /\ IF Long(q) THEN spc' = "output" /\ goes' = t ELSE spc' = t /\ UNCHANGED goes

\* io_output() of what fits
Written ==
  LET n == WireMin(outq.cc, SockSize - Len(toClient))
      q == IoqDequeue(outq, n)
  IN  /\ n > 0
      /\ toClient' = toClient \o SubSeq(Content(outq), 1, n)
      /\ outq' = [q EXCEPT !.last = q.cc]

(***************************************************************************)
(* player_output_some().  Commands that change the game do not wait for    *)
(* the client to read.                                                     *)
(***************************************************************************)
OutputSome ==
  /\ spc = "output"
  /\ \/ /\ Long(outq) /\ Written /\ UNCHANGED <<spc, goes>>
     \/ /\ ~Long(outq) \/ (commanding /\ Len(toClient) = SockSize)
        /\ spc' = goes /\ UNCHANGED <<goes, outq, toClient>>
  /\ UNCHANGED <<inq, inExec, failed, commanding, aborted, gotCtld, ioEof, flow, clientVars, toServer, rushed, interrupts>>

\* player_main(): status() and the prompt of command()
Prompt ==
  /\ spc = "status"
  /\ IF ioEof THEN Say(<<"data">>, "closing") ELSE Say(<<"C_PROMPT">>, "getcmd")
  /\ UNCHANGED <<inq, inExec, failed, commanding, aborted, gotCtld, ioEof,
                 flow, clientVars, toServer, toClient, rushed, interrupts>>

\* ... and what it does when command() returns
Loop ==
  /\ spc = "loop" /\ spc' = "status"
  /\ ioEof' = (ioEof \/ gotCtld)
  /\ inq' = IF gotCtld THEN IoqDrain(inq) ELSE inq
  /\ aborted' = FALSE
  /\ UNCHANGED <<outq, goes, inExec, failed, commanding, gotCtld, flow, clientVars, toServer, toClient, rushed, interrupts>>

\* recvclient() without a line: write all output, then wait for input
Gets == {"getcmd", "getarg", "getexec", "drain"}
Waits == spc \in Gets /\ ~aborted /\ ~IoqHasLine(inq)

FlushOutput ==
  /\ Waits /\ outq.cc > 0
  /\ Written
  /\ UNCHANGED <<inq, spc, goes, inExec, failed, commanding, aborted, gotCtld, ioEof, flow, clientVars, toServer, rushed, interrupts>>

IoInput ==
  /\ Waits /\ outq.cc = 0
  /\ \/ /\ toServer # <<>>
        /\ inq' = IoqAppend(inq, toServer) /\ toServer' = <<>>
        /\ UNCHANGED <<ioEof, aborted>>
     \/ /\ toServer = <<>> /\ (ioEof \/ cpc = "gone")
        /\ ioEof' = TRUE /\ aborted' = TRUE
        /\ UNCHANGED <<inq, toServer>>
  /\ UNCHANGED <<outq, spc, goes, inExec, failed, commanding, gotCtld, flow, clientVars, toClient, rushed, interrupts>>

\* dispatch() returns: on in the loop of c_execute() or of player_main()
Back == IF inExec THEN "exec" ELSE "loop"

(***************************************************************************)
(* recvclient() takes a line.  GotLine is what it does to the player's     *)
(* flags; who called it goes on with the line or, if that was a cookie or  *)
(* the player is aborted, with an error.                                   *)
(***************************************************************************)
GotLine(line) ==
  /\ gotCtld' = (gotCtld \/ line \in {<<"ctld">>, <<"ctldB">>})
  /\ aborted' = (line \in {<<"ctld">>, <<"ctldB">>, <<"aborted">>})

\* dispatch() of a line at the command prompt, or in a batch, by its kind
DoCommand(line) ==
  \/ /\ line = <<"cmd">>
     /\ Say(<<"data">>, Back)
     /\ commanding' = FALSE /\ UNCHANGED <<inExec, failed>>
  \/ /\ line = <<"ask">>
     /\ Say(<<"C_FLUSH">>, "getarg")
     /\ commanding' = TRUE /\ UNCHANGED <<inExec, failed>>
  \/ /\ line = <<"redir">> /\ ~inExec
     /\ Say(<<"C_REDIR", "data>">>, Back)
     /\ commanding' = FALSE /\ UNCHANGED <<inExec, failed>>
  \/ /\ line = <<"exec">> /\ ~inExec
     /\ Say(<<"C_EXECUTE">>, "exec")
     /\ commanding' = TRUE /\ inExec' = TRUE /\ failed' = FALSE
  \/ /\ line \in {<<"redir">>, <<"exec">>} /\ inExec
     /\ Say(<<"data">>, Back)
     /\ failed' = TRUE /\ UNCHANGED <<commanding, inExec>>
  \/ /\ line \notin {<<"cmd">>, <<"ask">>, <<"redir">>, <<"exec">>}
     /\ Say(<<"data">>, Back)
     /\ failed' = inExec /\ UNCHANGED <<commanding, inExec>>

\* c_execute() ends
Terminate == /\ Say(<<"data">>, "loop")
             /\ inExec' = FALSE /\ failed' = FALSE /\ commanding' = FALSE

TakeLine ==
  LET line == IoqLine(inq)
  IN  /\ spc \in Gets /\ ~aborted /\ IoqHasLine(inq)
      /\ inq' = IoqGets(inq)
      /\ flow' = SubSeq(flow, Len(line) + 2, Len(flow))
      /\ GotLine(line)
      /\ IF aborted' THEN UNCHANGED <<outq, spc, goes, inExec, failed, commanding>>
         ELSE \/ /\ spc \in {"getcmd", "getexec"} /\ DoCommand(line)
              \/ /\ spc = "getarg" /\ Say(<<"data">>, Back)
                 /\ commanding' = FALSE /\ UNCHANGED <<inExec, failed>>
              \/ /\ spc = "drain" /\ UNCHANGED <<outq, spc, goes, inExec, failed, commanding>>
      /\ UNCHANGED <<ioEof, clientVars, toServer, toClient, rushed, interrupts>>

\* recvclient() returns -1.
TakeNothing ==
  /\ spc \in Gets /\ aborted
  /\ \/ /\ spc = "getcmd" /\ spc' = "loop"
        /\ UNCHANGED <<outq, goes, inExec, failed, commanding, gotCtld>>
     \/ /\ spc = "getarg" /\ spc' = Back
        /\ commanding' = FALSE /\ UNCHANGED <<outq, goes, inExec, failed, gotCtld>>
     \/ /\ spc \in {"getexec", "drain"} /\ Terminate
        /\ gotCtld' = FALSE
  /\ UNCHANGED <<inq, aborted, ioEof, flow, clientVars, toServer, toClient, rushed, interrupts>>

\* The loop of c_execute()
Execute ==
  /\ spc = "exec"
  /\ IF failed \/ (~ioEof /\ ~gotCtld)
     THEN /\ spc' = IF failed THEN "drain" ELSE "getexec"
          /\ UNCHANGED <<outq, goes, inExec, failed, commanding, gotCtld>>
     ELSE Terminate /\ gotCtld' = FALSE
  /\ UNCHANGED <<inq, aborted, ioEof, flow, clientVars, toServer, toClient, rushed, interrupts>>

(***************************************************************************)
(* An update aborts whoever has a command, or the command itself finds it  *)
(* cannot go on (att_abort()).                                             *)
(***************************************************************************)
ServerAborts ==
  /\ spc \in {"getarg", "getexec"} /\ commanding /\ ~aborted /\ interrupts < MaxInterrupts
  /\ aborted' = TRUE /\ rushed' = TRUE /\ interrupts' = interrupts + 1
  /\ UNCHANGED <<inq, outq, spc, goes, inExec, failed, commanding, gotCtld, ioEof, flow, clientVars, toServer, toClient>>

\* io_close(): flush, shut down, and read on until the client is gone.
Close ==
  /\ spc = "closing"
  /\ \/ /\ outq.cc > 0 /\ cpc # "gone" /\ Written /\ UNCHANGED <<toServer, spc>>
     \/ /\ outq.cc = 0 /\ toServer # <<>> /\ toServer' = <<>>
        /\ UNCHANGED <<outq, toClient, spc>>
     \/ /\ cpc = "gone" /\ spc' = "gone" /\ UNCHANGED <<outq, toClient, toServer>>
  /\ UNCHANGED <<inq, goes, inExec, failed, commanding, aborted, gotCtld, ioEof, flow, clientVars, rushed, interrupts>>

WireNext ==
  \/ FillSets \/ SelectReturns \/ Intr \/ PutCookies \/ ReadInput \/ SendInput \/ RecvOutput
  \/ OutputSome \/ Prompt \/ Loop \/ FlushOutput \/ IoInput \/ TakeLine \/ TakeNothing
  \/ Execute \/ ServerAborts \/ Close

WireSpec == WireInit /\ [][WireNext]_wireVars

-----------------------------------------------------------------------------
QueueOK(q, bytes) ==
  /\ \A i \in DOMAIN q.list :
       LET io == q.list[i]
       IN  /\ io.data \in Seq(bytes) /\ Len(io.data) <= io.size /\ io.offset \in 0..Len(io.data)
           /\ io.offset > 0 => i = 1
  /\ q.cc = Len(Content(q)) /\ q.last <= q.cc

WireTypeOK ==
  /\ cpc \in {"top", "select", "cookies", "read", "send", "recv", "gone"}
  /\ want \subseteq {"input", "out", "sock"} /\ inputFd \in {0, 1}
  /\ Len(inbuf) <= RingSize /\ Len(recent) <= RingSize
  /\ Len(toServer) <= SockSize /\ Len(toClient) <= SockSize
  /\ toServer \in Seq(Input) /\ toClient \in Seq(Output)
  /\ QueueOK(inq, Input) /\ QueueOK(outq, Output)

\* A cookie is a line of its own, whatever the player's line was when it
\* had to be sent (play()).
CookiesStandAlone == ~glued

\* What was put into the ring and not taken by the server yet is on its way,
\* in order, in ring, connection and queue, until the server drains the last.
InputArrives ==
  ~ioEof => Content(inq) \o toServer \o inbuf = flow

(***************************************************************************)
(* As long as the client lives, the player only answers prompts, and the   *)
(* server does not abort on its own, both ends agree on who reads a batch  *)
(* file: when the command loop reads, no batch file is open nor is         *)
(* anything from one on its way, whatever failed on either side.           *)
(***************************************************************************)
BatchInStep ==
  ~rushed /\ cpc # "gone" /\ spc \in {"status", "getcmd"} =>
    /\ inputFd = 0 /\ sendEof # "ctldB"
    /\ "ctldB" \notin ToSet(Content(inq) \o toServer \o inbuf)

WireStateOK == WireTypeOK /\ CookiesStandAlone /\ InputArrives /\ BatchInStep

\* Only a redirected command's output is redirected, and all of it is once
\* the client has opened the file (servercmd(), dispatch()).
RedirAsAsked ==
  [][(toClient # <<>> /\ toClient' = Tail(toClient)) =>
       (Head(toClient) = "data" => ~redir)]_wireVars

(***************************************************************************)
(* The EOF at the end of a batch file "does not terminate the session"     *)
(* (doc/clients-howto): it is not what the command loop reads.             *)
(***************************************************************************)
BatchEofKeepsSession ==
  spc = "getcmd" /\ ~aborted /\ IoqHasLine(inq) => IoqLine(inq) # <<"ctldB">>

-----------------------------------------------------------------------------
(* What player and batch file say in the instances for TLC *)

\* a redirected command, a batch file, and a line without an end
OneTyping == {<<"redir", NL, "exec", NL, "cmd">>}

\* Both prompt; the first tries to redirect, the second has a line that is
\* longer than the client's ring buffers.
TwoBatches == {<<"ask", NL, "cmd", NL, "redir">>, <<"ask", NL, "cmd", "cmd", "bad", "bad">>}

=============================================================================
