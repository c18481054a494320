--------------------------- MODULE LspCoordinator ---------------------------
(***************************************************************************)
(* The language server coordinator (app/lsp_coordinator.rs) and its client *)
(* (lsp/client.rs): one server, the file buffers it serves, the two pipes  *)
(* between them, and the session's frames and keys.                        *)
(*                                                                         *)
(* A text is named by its buffer and revision.  An edit batch is the set   *)
(* of texts it was computed from.  A completion item is named by the       *)
(* answer that brought it and its index.  Hover, references and            *)
(* diagnostics are shown and never touch a buffer: they are left out.      *)
(***************************************************************************)
EXTENDS Integers, Sequences

CONSTANTS
    Buffer,     \* the file buffers the server serves
    Asked,      \* what the user asks of the server, of goto, format, rename, action
    Item,       \* indices of the completion menu, 0 first
    MaxRev,     \* bound: revisions of a buffer
    MaxId       \* bound: request ids

ASSUME ConstantsAssumption ==
    /\ Buffer # {}
    /\ Asked \subseteq {"goto", "format", "rename", "action"}
    /\ Item \subseteq Nat /\ 0 \in Item
    /\ MaxRev \in Nat /\ MaxId \in Nat \ {0}

VARIABLES
    focus, rev,     \* the focused buffer, the revision of each
    docs,           \* lsp_docs: the version and revision last sent (0: not opened)
    client,         \* LspClient: its life, next_id, the notifications held back
    out, in,        \* the pipes to and from the server
    server,         \* the server: its copies, the requests it works on, the
                    \* applyEdit it waits for
    pending,        \* the requests whose answer is awaited
    menu,           \* the completion popup menu
    req,            \* completion_req, resolve_req, pending_resolve, refilter
    stash,          \* deferred results, and answers polled in this frame
    picker,         \* the edit of the code action picked from
    phase,          \* where the frame stands
    frame,          \* the focused buffer's revision when the frame began
    closed          \* next_id when the menu was last closed

editor == <<focus, rev, picker>>
popup == <<menu, req, closed>>
vars == <<editor, docs, client, out, in, server, pending, popup, stash, phase, frame>>

None == -1
Kinds == {"goto", "format", "rename", "action", "command", "completion", "resolve"}
Text == [buf : Buffer, rev : 0 .. MaxRev]
NoMenu == [rid |-> 0]
NoReq == [completion |-> None, resolve |-> None, want |-> None, refilter |-> FALSE]
NoStash == [goto |-> {}, format |-> {}, rename |-> {}, asked |-> <<>>,
            completions |-> {}, resolves |-> {}]

\* Requests, menus and stashes have their shapes; an id is used once.
TypeOK ==
    /\ focus \in Buffer
    /\ rev \in [Buffer -> 0 .. MaxRev]
    /\ docs \in [Buffer -> [version : Nat, rev : 0 .. MaxRev]]
    /\ client.life \in {"none", "missing", "starting", "ready"}
    /\ client.next_id \in 1 .. MaxId + 1
    /\ pending \subseteq [rid : 2 .. MaxId, kind : Kinds, rev : 0 .. MaxRev, idx : Item]
    /\ \A p, q \in pending : p.rid = q.rid => p = q
    /\ menu = NoMenu \/ (menu.rid \in 2 .. MaxId /\ menu.sel \in Item)
    /\ picker \subseteq Text
    /\ phase \in {"sync", "poll", "ingest", "apply", "key"} /\ frame \in 0 .. MaxRev
    /\ closed \in 0 .. MaxId + 1

----------------------------------------------------------------------------
Init ==
    /\ focus \in Buffer
    /\ rev = [b \in Buffer |-> 0]
    /\ docs = [b \in Buffer |-> [version |-> 0, rev |-> 0]]
    /\ client = [life |-> "none", next_id |-> 1, held |-> <<>>]
    /\ out = <<>> /\ in = <<>>
    /\ server = [alive |-> FALSE, copy |-> [b \in Buffer |-> [version |-> 0, rev |-> 0]],
                 jobs |-> {}, asking |-> FALSE]
    /\ pending = {}
    /\ menu = NoMenu /\ req = NoReq /\ closed = 0
    /\ stash = NoStash
    /\ picker = {}
    /\ phase = "sync" /\ frame = 0

(* Sending.                                                                *)

\* A write to a server that is gone fails, and the failure is ignored.
Written(ms) == IF server.alive THEN out \o ms ELSE out

\* focused_server: a server that could be asked.
Served == client.life \in {"starting", "ready"} /\ docs[focus].version > 0

CanSend == client.next_id <= MaxId

\* LspCoordinator::send and LspClient::request.  A request is written at
\* once, whether or not the handshake is over.
Request(kind, idx) ==
    [op |-> "request", rid |-> client.next_id, kind |-> kind, rev |-> frame,
     idx |-> idx, buf |-> focus, version |-> 0]
Awaits(r) == [rid |-> r.rid, kind |-> r.kind, rev |-> r.rev, idx |-> r.idx]

Send(rs) ==
    /\ out' = Written(rs)
    /\ client' = [client EXCEPT !.next_id = @ + Len(rs)]
    /\ pending' = pending \cup {Awaits(rs[k]) : k \in DOMAIN rs}

Notification(op, b, version) ==
    [op |-> op, rid |-> 0, kind |-> op, rev |-> rev[b], idx |-> 0, buf |-> b, version |-> version]

\* Variant: before the handshake a notification is dropped.
NotifyReadyOnly(m) ==
    /\ out' = IF client.life = "ready" THEN Written(<<m>>) ELSE out
    /\ client' = client

\* LspClient::notify: before the handshake it is held back.
Notify(m) ==
    IF client.life = "ready"
    THEN out' = Written(<<m>>) /\ client' = client
    ELSE out' = out /\ client' = [client EXCEPT !.held = Append(@, m)]

----------------------------------------------------------------------------
(* The frame: sync, poll, ingest, apply.                                   *)

\* The server is started once, if it can be (the workspace is trusted).
Spawn ==
    /\ phase = "sync"
    /\ client.life = "none"
    /\ \/ /\ client' = [client EXCEPT !.life = "starting", !.next_id = 2]
          /\ out' = Append(out, [op |-> "request", rid |-> 1, kind |-> "initialize", rev |-> 0,
                                 idx |-> 0, buf |-> focus, version |-> 0])
          /\ server' = [server EXCEPT !.alive = TRUE]
       \/ /\ client' = [client EXCEPT !.life = "missing"]
          /\ UNCHANGED <<out, server>>
    /\ UNCHANGED <<editor, docs, in, pending, popup, stash, phase, frame>>

Sent(b) == docs[b].version > 0 /\ docs[b].rev = rev[b]

\* The focused buffer is opened in the server, or its change sent.
Sync ==
    /\ phase = "sync"
    /\ client.life # "none"
    /\ frame' = rev[focus]
    /\ IF client.life \notin {"starting", "ready"} \/ Sent(focus)
       THEN UNCHANGED <<docs, client, out>>
       ELSE LET v == docs[focus].version + 1
            IN  /\ docs' = [docs EXCEPT ![focus] = [version |-> v, rev |-> rev[focus]]]
                /\ Notify(Notification(IF v = 1 THEN "open" ELSE "change", focus, v))
    /\ phase' = "poll"
    /\ UNCHANGED <<editor, in, server, pending, popup, stash>>

\* become_ready: `initialized`, then what was held back.
BecomeReady ==
    /\ client' = [client EXCEPT !.life = "ready", !.held = <<>>]
    /\ out' = Written(client.held)

\* What an answer leaves for later in the frame.
Stashed(p, m) ==
    CASE p.kind = "goto" -> [stash EXCEPT !.goto = m.edit]
      [] p.kind = "format" -> [stash EXCEPT !.format = m.edit]
      [] p.kind = "rename" -> [stash EXCEPT !.rename = m.edit]
      [] p.kind = "completion" -> [stash EXCEPT !.completions = @ \cup {p}]
      [] p.kind = "resolve" -> [stash EXCEPT !.resolves = @ \cup {[p |-> p, item |-> m.item]}]
      [] OTHER -> stash

\* LspClient::poll and the dispatch of one message.  An error answer is not
\* a response (classify): its request stays pending.
Poll ==
    /\ phase = "poll"
    /\ in # <<>>
    /\ in' = Tail(in)
    /\ LET m == Head(in)
       IN  CASE m.op = "ready" ->
                  /\ IF client.life = "starting" THEN BecomeReady ELSE UNCHANGED <<client, out>>
                  /\ UNCHANGED <<pending, stash, picker>>
             [] m.op = "answer" ->
                  /\ \E p \in pending :
                       /\ p.rid = m.rid
                       /\ pending' = pending \ {p}
                       /\ stash' = Stashed(p, m)
                       /\ picker' = IF p.kind = "action" THEN m.edit ELSE picker
                  /\ UNCHANGED <<client, out>>
             [] m.op = "apply_edit" ->
                  /\ stash' = [stash EXCEPT !.asked = Append(@, m.edit)]
                  /\ UNCHANGED <<client, out, pending, picker>>
             [] OTHER -> UNCHANGED <<client, out, pending, stash, picker>>
    /\ UNCHANGED <<focus, rev, docs, server, popup, phase, frame>>

PollEnds ==
    /\ phase = "poll"
    /\ in = <<>>
    /\ phase' = "ingest"
    /\ UNCHANGED <<editor, docs, client, out, in, server, pending, popup, stash, frame>>

\* ingest_completion takes the latest request's answer, at the current
\* revision.
Accepts(p) == p.rid = req.completion /\ p.rev = frame

\* ingest_completion: the menu is filled, or closed when the prefix is empty
\* or no item matches it.
Ingest ==
    /\ phase = "ingest"
    /\ stash.completions # {}
    /\ \E p \in stash.completions :
         /\ stash' = [stash EXCEPT !.completions = @ \ {p}]
         /\ IF ~Accepts(p)
            THEN UNCHANGED <<menu, req, closed>>
            ELSE \/ \E sel \in IF menu = NoMenu THEN {0} ELSE {0, menu.sel} :
                      /\ menu' = [rid |-> p.rid, rev |-> p.rev, sel |-> sel,
                                  extra |-> [i \in Item |-> <<>>]]
                      /\ req' = [req EXCEPT !.want = sel]
                      /\ closed' = closed
                 \/ /\ menu' = NoMenu
                    /\ req' = [req EXCEPT !.completion = None]
                    /\ closed' = client.next_id
    /\ UNCHANGED <<editor, docs, client, out, in, server, pending, phase, frame>>

\* ingest_resolve
Resolves(r) == r.p.rid = req.resolve /\ r.p.rev = frame /\ menu # NoMenu
Resolved ==
    LET rs == {r \in stash.resolves : Resolves(r)}
    IN  IF rs = {} THEN menu
        ELSE [menu EXCEPT !.extra = [i \in Item |->
                IF \E r \in rs : r.p.idx = i THEN (CHOOSE r \in rs : r.p.idx = i).item ELSE @[i]]]

\* The live filter's request, the resolve answers, and the request that
\* resolves the selected item, if it carries data and is not resolved.
Requests ==
    /\ phase = "ingest"
    /\ stash.completions = {}
    /\ LET refilter == req.refilter /\ menu # NoMenu /\ Served /\ CanSend
           first == client.next_id
           filled == Resolved
           wanted == req.want # None /\ menu # NoMenu /\ Served
                     /\ first + (IF refilter THEN 1 ELSE 0) <= MaxId
                     /\ filled.extra[req.want] = <<>>
       IN  \E resolve \in IF wanted THEN BOOLEAN ELSE {FALSE} :
             LET rs == (IF refilter THEN <<Request("completion", 0)>> ELSE <<>>)
                 n == first + Len(rs)
                 sent == IF resolve
                         THEN Append(rs, [Request("resolve", req.want) EXCEPT
                                            !.rid = n, !.version = menu.rid])
                         ELSE rs
             IN  /\ Send(sent)
                 /\ menu' = filled
                 /\ req' = [req EXCEPT !.refilter = FALSE, !.want = None,
                                       !.completion = IF refilter THEN first ELSE @,
                                       !.resolve = IF resolve THEN n ELSE @]
    /\ stash' = [stash EXCEPT !.resolves = {}]
    /\ phase' = "apply"
    /\ UNCHANGED <<editor, docs, in, server, closed, frame>>

\* The buffers whose edits are applied: a batch that is out of range or
\* overlaps is refused whole, a file that cannot be opened is skipped.
Fit(edit) == {b \in {t.buf : t \in edit} : rev[b] < MaxRev}
Edited(bs) == [b \in Buffer |-> IF b \in bs THEN rev[b] + 1 ELSE rev[b]]

\* Variant: an empty edit is not answered.
RepliesIfApplied(asked) == SelectSeq(asked, LAMBDA e : e # {})

\* Every applyEdit is answered, whether it was applied or not.
Replies(asked) == asked

\* apply_pending: the jump may move the focus first; the format edits go to
\* the focused buffer, whatever it is by now.
ApplyPending ==
    /\ phase = "apply"
    /\ focus' \in IF stash.goto = {} THEN {focus} ELSE {t.buf : t \in stash.goto}
    /\ \E formatted \in SUBSET (IF stash.format = {} THEN {} ELSE {b \in {focus'} : rev[b] < MaxRev}),
          renamed \in SUBSET Fit(stash.rename \cup UNION {stash.asked[k] : k \in DOMAIN stash.asked}) :
         rev' = Edited(formatted \cup renamed)
    /\ out' = Written([k \in 1 .. Len(Replies(stash.asked)) |-> Notification("reply", focus, 0)])
    /\ stash' = NoStash
    /\ phase' = "key"
    /\ UNCHANGED <<docs, client, in, server, pending, popup, picker, frame>>

----------------------------------------------------------------------------
(* One event per frame.                                                    *)

\* Variant: the popup closes and its request stays the latest.
MenuHidden == menu' = NoMenu /\ req' = req /\ closed' = client.next_id

\* close_completion
CloseCompletion ==
    /\ menu' = NoMenu
    /\ req' = [NoReq EXCEPT !.refilter = req.refilter]
    /\ closed' = client.next_id

\* No key comes: the tick that polls the server.
Tick ==
    /\ phase = "key"
    /\ phase' = "sync"
    /\ UNCHANGED <<editor, docs, client, out, in, server, pending, popup, stash, frame>>

Changed == rev[focus] < MaxRev /\ rev' = Edited({focus})

\* A word character or a backspace: typed, and with the menu open the list is
\* asked for again.  Any other key closes the menu.
Type(word) ==
    /\ phase = "key"
    /\ Changed
    /\ IF menu = NoMenu THEN UNCHANGED popup
       ELSE IF word THEN req' = [req EXCEPT !.refilter = TRUE] /\ UNCHANGED <<menu, closed>>
       ELSE CloseCompletion
    /\ phase' = "sync"
    /\ UNCHANGED <<focus, picker, docs, client, out, in, server, pending, stash, frame>>

\* <C-n> and <C-p>
Select ==
    /\ phase = "key"
    /\ menu # NoMenu
    /\ \E i \in Item : menu' = [menu EXCEPT !.sel = i] /\ req' = [req EXCEPT !.want = i]
    /\ phase' = "sync"
    /\ UNCHANGED <<editor, docs, client, out, in, server, pending, closed, stash, frame>>

\* <Esc>, or <CR> and <Tab>, which put the item in.
LeaveMenu(accept) ==
    /\ phase = "key"
    /\ menu # NoMenu
    /\ CloseCompletion
    /\ IF accept THEN Changed ELSE rev' = rev
    /\ phase' = "sync"
    /\ UNCHANGED <<focus, picker, docs, client, out, in, server, pending, stash, frame>>

\* <C-x><C-o>, which an open menu would have taken.
Omni ==
    /\ phase = "key"
    /\ menu = NoMenu /\ Served /\ CanSend
    /\ Send(<<Request("completion", 0)>>)
    /\ req' = [req EXCEPT !.completion = client.next_id]
    /\ phase' = "sync"
    /\ UNCHANGED <<editor, docs, in, server, menu, closed, stash, frame>>

\* <C-]>, :fmt, :rename, :codeaction: the menu is closed by their keys.
Ask(kind) ==
    /\ phase = "key"
    /\ menu = NoMenu /\ Served /\ CanSend
    /\ Send(<<Request(kind, 0)>>)
    /\ phase' = "sync"
    /\ UNCHANGED <<editor, docs, in, server, popup, stash, frame>>

\* The picked code action: its edit, then its command.
AcceptAction ==
    /\ phase = "key"
    /\ picker # {} /\ menu = NoMenu
    /\ \E bs \in SUBSET Fit(picker) : rev' = Edited(bs)
    /\ \/ Served /\ CanSend /\ Send(<<Request("command", 0)>>)
       \/ UNCHANGED <<client, out, pending>>
    /\ picker' = {}
    /\ phase' = "sync"
    /\ UNCHANGED <<focus, docs, in, server, popup, stash, frame>>

\* :b and the like
Focus(b) ==
    /\ phase = "key"
    /\ b # focus /\ menu = NoMenu
    /\ focus' = b
    /\ phase' = "sync"
    /\ UNCHANGED <<rev, picker, docs, client, out, in, server, pending, popup, stash, frame>>

----------------------------------------------------------------------------
(* The server (external).  Its steps commute with those of a frame, which  *)
(* drains the pipe: they are taken between frames.                         *)

Runs == server.alive /\ phase = "key"

\* It takes messages in order.
Takes ==
    /\ Runs /\ out # <<>>
    /\ out' = Tail(out)
    /\ LET m == Head(out)
       IN  /\ server' =
                CASE m.op \in {"open", "change"} ->
                       [server EXCEPT !.copy[m.buf] = [version |-> m.version, rev |-> m.rev]]
                  [] m.op = "request" /\ m.kind # "initialize" ->
                       [server EXCEPT !.jobs = @ \cup {m}]
                  [] m.op = "reply" -> [server EXCEPT !.asking = FALSE]
                  [] OTHER -> server
           /\ in' = IF m.kind = "initialize" THEN Append(in, [op |-> "ready"]) ELSE in
    /\ UNCHANGED <<editor, docs, client, pending, popup, stash, phase, frame>>

Copies == {[buf |-> b, rev |-> server.copy[b].rev] : b \in Buffer}

\* It answers in any order, from its copies; a formatting from the one asked
\* about.
Answer(j) ==
    /\ Runs /\ j \in server.jobs
    /\ ~(j.kind = "command" /\ server.asking)
    /\ server' = [server EXCEPT !.jobs = @ \ {j}]
    /\ \E edit \in CASE j.kind = "format" -> {{[buf |-> j.buf, rev |-> server.copy[j.buf].rev]}, {}}
                     [] j.kind = "goto" -> {{c} : c \in Copies}
                     [] j.kind \in {"rename", "action"} -> {Copies}
                     [] OTHER -> {{}} :
         in' = Append(in, [op |-> "answer", rid |-> j.rid, edit |-> edit,
                           item |-> <<j.version, j.idx>>])
    /\ UNCHANGED <<editor, docs, client, out, pending, popup, stash, phase, frame>>

\* An error ("content modified") instead of an answer.
Refuses(j) ==
    /\ Runs /\ j \in server.jobs
    /\ server' = [server EXCEPT !.jobs = @ \ {j}]
    /\ in' = Append(in, [op |-> "error"])
    /\ UNCHANGED <<editor, docs, client, out, pending, popup, stash, phase, frame>>

\* A command's effect comes as a workspace/applyEdit, which the server waits
\* for.
AsksEdit(j) ==
    /\ Runs /\ j \in server.jobs
    /\ j.kind = "command" /\ ~server.asking
    /\ server' = [server EXCEPT !.asking = TRUE]
    /\ \E edit \in {Copies, {}} : in' = Append(in, [op |-> "apply_edit", edit |-> edit])
    /\ UNCHANGED <<editor, docs, client, out, pending, popup, stash, phase, frame>>

\* It dies, and is not started again.
ServerDies ==
    /\ Runs
    /\ server' = [server EXCEPT !.alive = FALSE, !.jobs = {}, !.asking = FALSE]
    /\ out' = <<>>
    /\ UNCHANGED <<editor, docs, client, in, pending, popup, stash, phase, frame>>

Frame == Spawn \/ Sync \/ Poll \/ PollEnds \/ Ingest \/ Requests \/ ApplyPending

Next ==
    \/ Frame \/ Tick
    \/ \E word \in BOOLEAN : Type(word)
    \/ Select
    \/ \E accept \in BOOLEAN : LeaveMenu(accept)
    \/ Omni
    \/ \E kind \in Asked : Ask(kind)
    \/ AcceptAction
    \/ \E b \in Buffer : Focus(b)
    \/ Takes
    \/ \E j \in server.jobs : Answer(j) \/ Refuses(j) \/ AsksEdit(j)
    \/ ServerDies

Spec == Init /\ [][Next]_vars

\* The loop runs a frame after every event and ticks while a client is
\* there; the server, a process of its own, reads its pipe (strong fairness
\* because its steps are placed between frames).
FairSpec == Spec /\ WF_vars(Frame) /\ WF_vars(Tick) /\ SF_vars(Takes)

----------------------------------------------------------------------------
(* Properties.                                                             *)

\* Where in ms buffer b is opened or changed.
Notifies(ms, b) == {i \in DOMAIN ms : ms[i].op \in {"open", "change"} /\ ms[i].buf = b}

\* The messages ms take the server from the copy `had` of buffer b to `doc`:
\* every version in between is there, in order, and the last one's text.
Follows(ms, b, had, doc) ==
    LET at == Notifies(ms, b)
    IN  /\ had.version <= doc.version
        /\ {ms[i].version : i \in at} = had.version + 1 .. doc.version
        /\ \A i, k \in at : i < k => ms[i].version < ms[k].version
        /\ \A i \in at : (ms[i].op = "open") = (ms[i].version = 1)
        /\ IF had.version = doc.version THEN had.rev = doc.rev
           ELSE \E i \in at : ms[i].version = doc.version /\ ms[i].rev = doc.rev

\* What is on its way to the server brings its copy of a buffer, version by
\* version and beginning with an open, to the text the coordinator believes it
\* has, although notifications are held back during the handshake while
\* requests are not.
ServerFollows ==
    /\ TypeOK
    /\ server.alive =>
         \A b \in Buffer : Follows(out \o client.held, b, server.copy[b], docs[b])

\* A closed completion menu is not opened again by an answer to a request made
\* before it was closed.
ClosedStaysClosed == [][menu = NoMenu /\ menu' # NoMenu => menu'.rid >= closed]_vars

\* The server never waits for ever for the answer to its workspace/applyEdit.
ApplyEditAnswered == server.asking ~> ~server.asking

\* RFC-0007: "an LSP/AI/plugin transaction built against a superseded revision
\* is dropped, not applied".
EditsAreCurrent ==
    phase = "apply" =>
      /\ \A t \in stash.format : t.buf = focus /\ t.rev = rev[focus]
      /\ \A t \in stash.rename : t.rev = rev[t.buf]
=============================================================================
