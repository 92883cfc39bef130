------------------------------ MODULE EmpFlow ------------------------------
(***************************************************************************)
(* How a command works with the game's objects.                            *)
(*                                                                         *)
(* Commands copy sectors, ships, planes, ... into buffers of their own,    *)
(* ask the player, look at what they copied, change it, and write it back. *)
(* While a command waits for an answer other commands, the market and the  *)
(* teleporting deity run, and the copies grow stale.  file.c counts yields *)
(* (ef_make_stale()) and writes to an object (its seqno) so that ef_write()*)
(* can complain about a copy that may clobber somebody else's write, and   *)
(* check_obj_ok() lets a command find out whether its copy still stands.   *)
(*                                                                         *)
(* This module holds what a command's body is made of.  A body is a        *)
(* sequence of steps; a step names its buffers and where to go when it     *)
(* does not succeed.  What the copied fields say is left out: wherever the *)
(* code tests one, the body says "perhaps".                                *)
(***************************************************************************)
EXTENDS Integers, Sequences

----------------------------------------------------------------------------
(* Where to go: a distance, or one of these.                               *)
Quit   == 0       \* the command ends
Next   == 10001   \* to the next turn of the enclosing loop
Leave  == 10002   \* out of the enclosing loop
Return == 10003   \* out of the enclosing procedure

Step(op, vs, else) == [op |-> op, vs |-> vs, else |-> else]
One(op, vs, else) == <<Step(op, vs, else)>>

\* a question whose answer may stand on the command line, and one that may not
Ask     == One("ask", <<>>, Quit)
Confirm == One("confirm", <<>>, Quit)
AskOr(else)     == One("ask", <<>>, else)
ConfirmOr(else) == One("confirm", <<>>, else)

\* v := any object of its kind; any but that of w, or those in ws; v again
Get(v)         == One("get", <<v>>, Quit)
GetOther(v, w) == One("other", <<v, w>>, Quit)
GetNone(v, ws, else) == One("other", <<v>> \o ws, else)
Reget(v)       == One("again", <<v>>, Quit)
\* v := the copy in w, with all it knows of its age
Copy(v, w)     == One("copy", <<v, w>>, Quit)
\* v is made up anew for an object that does not exist
Blank(v)       == One("blank", <<v>>, Quit)
\* v is struck from the list it is in; the code goes elsewhere when the list
\* vs is empty
Drop(v)        == One("drop", <<v>>, Quit)
Have(vs, else) == One("have", vs, else)

\* the code looks at something and may not go on
Perhaps(else)     == One("perhaps", <<>>, else)
\* check_*_ok()
Check(v, else)    == One("check", <<v>>, else)
\* the code goes elsewhere when v and w are the same object
Unless(v, w, else) == One("unless", <<v, w>>, else)
\* put*()
Put(v)  == One("put", <<v>>, Quit)
\* a function called from here reads and writes objects of v's kind with
\* buffers of its own: any of them, or none that is in one of vs
Touch(v)     == One("touch", <<v>>, Quit)
Others(vs) == One("others", vs, Quit)

Go(to) == One("go", <<>>, to)

----------------------------------------------------------------------------
(* Composition.                                                            *)

Aim(body, label, to(_)) ==
    [i \in DOMAIN body |-> IF body[i].else = label THEN [body[i] EXCEPT !.else = to(i)]
                                                   ELSE body[i]]

May(body) == One("perhaps", <<>>, Len(body) + 1) \o body
Either(a, b) == One("perhaps", <<>>, Len(a) + 2) \o a \o Go(Len(b) + 1) \o b

\* a loop with nxtsct() or nxtitem(): v takes the objects of a selection in
\* order of their numbers
Each(v, body) ==
    LET n == Len(body)
        once == Aim(Aim(body, Next, LAMBDA i : -i), Leave, LAMBDA i : n + 2 - i)
    IN  One("first", <<v>>, Quit) \o One("next", <<v>>, n + 2) \o once \o Go(-(n + 1))

\* a loop the code leaves by break only
Forever(body) ==
    LET n == Len(body)
        once == Aim(Aim(body, Next, LAMBDA i : -i), Leave, LAMBDA i : n + 2 - i)
    IN  Go(1) \o once \o Go(-(n + 1))

\* F(v) for one after another
Every(vs, F(_)) ==
    LET g[i \in 0..Len(vs)] == IF i = 0 THEN <<>> ELSE g[i - 1] \o F(vs[i])
    IN  g[Len(vs)]

\* a list is made of some of the objects of a kind, after F(v) for each
Pick(vs, F(_)) ==
    Every(vs, LAMBDA v : May(GetNone(v, vs, Len(F(v)) + 1) \o F(v)))

\* a loop over the list vs: F(v) for each of its elements that is left
For(vs, F(_)) ==
    LET g[i \in 1..(Len(vs) + 1)] ==
            IF i > Len(vs) THEN <<>>
            ELSE LET once == F(vs[i])
                     n == Len(once) + 1
                     one == Have(<<vs[i]>>, n) \o once
                 IN  Aim(Aim(one, Next, LAMBDA j : n + 1 - j),
                         Leave, LAMBDA j : n + 1 + Len(g[i + 1]) - j) \o g[i + 1]
    IN  g[1]

\* a function of the command's file: a return leads behind it
Call(body) == Aim(body, Return, LAMBDA i : Len(body) + 1 - i)
=============================================================================
