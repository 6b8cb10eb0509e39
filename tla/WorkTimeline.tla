------------------------------ MODULE WorkTimeline ------------------------------
(***************************************************************************)
(* The projection of a conversation into what the chat panel renders        *)
(* (task-flow/project.ts, projectWorkTimeline): message bodies, the process *)
(* of each turn, artifact cards; and the attribution of a process to the    *)
(* tasks of its todo list (process-tasks.ts).  The projection is a function *)
(* of the transcript, computed anew at every state; the transcript grows    *)
(* by the steps of the slot's message store, which are external here.       *)
(*                                                                          *)
(* A time stamp is the number of the message.  A todo item is its identity  *)
(* and its status, a delivery is read or not, labels and counts are left    *)
(* out.  A todo list without items stands for arguments that do not parse.  *)
(***************************************************************************)
EXTENDS Naturals, SequencesExt, Filter

CONSTANTS None, Turns, Agents,
          Todos,      \* the todo lists written: sequences of <<task, status>>
          MaxMessages,  \* bound on the messages
          Mixes,        \* bounds: the kinds of segment that occur together, how many of
                        \* them at most, and in how many messages
          MaxSegs       \* bound on the segments of the whole transcript

VARIABLE talk         \* the messages

workVars == <<talk>>

Tool(name, call, status, data) == [name |-> name, call |-> call, status |-> status, data |-> data]
Segment(kind) == [kind |-> kind, tool |-> None]

-------------------------------------------------------------------------------
\* The segments of a message.

\* segmentsOf: the flat calls are newer than those of the segments, and follow them
\* when they have no segment.
SegmentsOf(m) ==
  LET Latest(s) == LET flat == {k \in DOMAIN m.calls : s.kind = "tool" /\ m.calls[k].call = s.tool.call}
                   IN  IF flat = {} THEN s ELSE [s EXCEPT !.tool = m.calls[Max(flat)]]
      own == IF m.segs = <<>> /\ m.plain THEN <<Segment("text")>>
             ELSE [i \in DOMAIN m.segs |-> Latest(m.segs[i])]
      Unseen(c) == \A i \in DOMAIN own : own[i].kind = "tool" => own[i].tool.call # c.call
      rest == Among(m.calls, {c \in ToSet(m.calls) : Unseen(c)})
  IN  own \o [i \in DOMAIN rest |-> [kind |-> "tool", tool |-> rest[i]]]

Names(s, names) == s.kind = "tool" /\ s.tool.name \in names
Repeated(segs, i) == segs[i].kind = "tool" /\
  \E j \in 1..(i - 1) : segs[j].kind = "tool" /\ segs[j].tool.call = segs[i].tool.call

\* A text is narration when a process event follows it, with no question between.
HasLaterProcessEvent(segs, i) ==
  \E j \in (i + 1)..Len(segs) :
    /\ segs[j].kind \in {"summary", "tool"} /\ ~Names(segs[j], {"ask", "cliAsk", "deliver"})
    /\ \A k \in (i + 1)..j : ~Names(segs[k], {"ask", "cliAsk"})

\* The segments that stay in the reply, and those that are an entry of the process.
Kept(m, segs, i) ==
  \/ segs[i].kind = "text" /\ m.status # "streaming" /\ ~HasLaterProcessEvent(segs, i)
  \/ /\ ~Repeated(segs, i)
     /\ Names(segs[i], {"ask", "todo"}) /\ segs[i].tool.data = <<>>

Entered(m, segs, i) ==
  \/ segs[i].kind = "summary"
  \/ segs[i].kind = "text" /\ ~Kept(m, segs, i)
  \/ /\ segs[i].kind = "tool" /\ ~Repeated(segs, i) /\ ~Kept(m, segs, i)
     /\ ~Names(segs[i], {"cliAsk", "deliver"})

Entry(m, segs, i) ==
  LET s == segs[i]
      kind == IF s.kind = "tool" /\ s.tool.name # "todo" THEN "tool"
              ELSE IF s.kind = "tool" THEN "todo" ELSE s.kind
  IN  [kind |-> kind,
       id |-> IF s.kind = "tool" THEN <<kind, s.tool.call>> ELSE <<kind, m.id, i>>,
       ts |-> m.id,
       step |-> IF s.kind = "tool" THEN s.tool.status ELSE None,
       items |-> IF kind = "todo" THEN s.tool.data ELSE <<>>]

Numbers(segs) == [i \in DOMAIN segs |-> i]
Places(m, In(_, _, _)) ==
  LET segs == SegmentsOf(m) IN Among(Numbers(segs), {i \in DOMAIN segs : In(m, segs, i)})

RunEntry(m, a) == [kind |-> "subagent", id |-> <<"subagent", a>>, ts |-> m.id, step |-> None, items |-> <<>>]

Entries(m) ==
  LET segs == SegmentsOf(m)
      at == Places(m, Entered)
      runs == SetToSeq(m.agents)
  IN  [k \in DOMAIN at |-> Entry(m, segs, at[k])] \o [k \in DOMAIN runs |-> RunEntry(m, runs[k])]

-------------------------------------------------------------------------------
\* The process of a turn.

\* hasPendingAskUser: a question of the agent that waits for its answer.
PendingAsk(m) == \E i \in DOMAIN m.calls : m.calls[i].name = "ask" /\ m.calls[i].status = "running"

ProcessPhase(m) == IF m.aborted THEN "aborted"
                   ELSE IF PendingAsk(m) THEN "waiting_for_input"
                   ELSE IF m.status = "streaming" THEN "running"
                   ELSE IF m.status = "error" THEN "error" ELSE "done"

\* Array.sort by time, which keeps the order of equals.
Inserted(entries, e) ==
  LET after == {k \in DOMAIN entries : entries[k].ts > e.ts}
  IN  IF after = {} THEN Append(entries, e) ELSE InsertAt(entries, Min(after), e)

\* mergeProcessEntries: a call or a run that comes again replaces the earlier one.
MergeProcessEntries(existing, incoming) ==
  LET Again(e) == {k \in DOMAIN incoming : incoming[k].id = e.id /\ incoming[k].kind \in {"tool", "subagent"}}
      kept == [k \in DOMAIN existing |-> IF Again(existing[k]) = {} THEN existing[k]
                                         ELSE incoming[Max(Again(existing[k]))]]
      New(x) == \A k \in DOMAIN existing : existing[k].id # x.id
      all == kept \o Among(incoming, {x \in ToSet(incoming) : New(x)})
  IN  Folded(Inserted, <<>>, all)

LastTodo(entries) == LET todos == {k \in DOMAIN entries : entries[k].kind = "todo"}
                     IN  IF todos = {} THEN <<>> ELSE entries[Max(todos)].items

ProcessId(m) == IF m.turn # None THEN <<"turn", m.turn>> ELSE <<"message", m.id>>

\* processFromMessage
Begun(m) == [anchor |-> m.id, sources |-> <<m.id>>, phase |-> ProcessPhase(m),
             entries |-> Entries(m), todo |-> LastTodo(Entries(m))]

\* The process so far, continued by a message.
Continued(old, m) ==
  LET todo == LastTodo(Entries(m))
  IN  [old EXCEPT !.phase = ProcessPhase(m), !.sources = Append(@, m.id),
                  !.entries = MergeProcessEntries(@, Entries(m)),
                  !.todo = IF todo = <<>> THEN @ ELSE todo]

-------------------------------------------------------------------------------
\* projectWorkTimeline: one message after the other.

\* Whether the message itself is rendered.
Shown(m) == Places(m, Kept) # <<>> \/ Entries(m) # <<>> \/ m.plain \/ m.status \in {"streaming", "error"}

\* An old row's artifact is read from its delivery, a current one is the host's.
Delivered(m) == \E i \in DOMAIN SegmentsOf(m) : LET s == SegmentsOf(m)[i] IN
                  Names(s, {"deliver"}) /\ s.tool.status = "done"
Artifacts(m) == (IF m.artifact THEN <<<<"host", ProcessId(m)>>>> ELSE <<>>) \o
                (IF Delivered(m) /\ m.turn = None THEN <<<<"legacy", ProcessId(m)>>>> ELSE <<>>)

Item(kind, id) == <<kind, id>>

Projected(acc, m) ==
  IF m.role = "user" THEN [acc EXCEPT !.timeline = Append(@, Item("message", m.id))]
  ELSE
    LET pid == ProcessId(m)
        known == pid \in DOMAIN acc.processes
        works == Entries(m) # <<>> \/ known
        process == IF works /\ ~known THEN <<Item("process", pid)>> ELSE <<>>
        body == IF Shown(m) THEN <<Item("message", m.id)>> ELSE <<>>
        cards == Among(Artifacts(m), {a \in ToSet(Artifacts(m)) : Item("artifact", a) \notin ToSet(acc.timeline)})
    IN  [timeline |-> acc.timeline \o process \o body \o
                        [k \in DOMAIN cards |-> Item("artifact", cards[k])],
         processes |-> IF ~works THEN acc.processes
                       ELSE [p \in DOMAIN acc.processes \cup {pid} |->
                               IF p # pid THEN acc.processes[p]
                               ELSE IF known THEN Continued(acc.processes[pid], m) ELSE Begun(m)]]

ProjectWorkTimeline(messages) ==
  Folded(Projected, [timeline |-> <<>>, processes |-> [p \in {} |-> None]], messages)

-------------------------------------------------------------------------------
\* process-tasks.ts: who owned which step.

Settles(e) == e.kind = "todo" /\ \A k \in DOMAIN e.items : e.items[k][2] \in {"completed", "cancelled"}
\* splitTodoProcessWindow: from the first list to the first that is settled.
TodoWindow(entries) ==
  LET lists == {i \in DOMAIN entries : entries[i].kind = "todo"}
      settled == {i \in lists : Settles(entries[i])}
      end == IF settled = {} THEN Len(entries) ELSE Min(settled)
  IN  IF lists = {} THEN <<>> ELSE SubSeq(entries, Min(lists), end)

\* The task a list is working on, when the latest list still has it.
ActiveOf(items, todo) ==
  LET busy == {k \in DOMAIN items : items[k][2] = "in_progress"}
      task == items[Min(busy)][1]
  IN  IF busy = {} \/ \A k \in DOMAIN todo : todo[k][1] # task THEN None ELSE task
Working(e) == e.kind = "todo" /\ \E k \in DOMAIN e.items : e.items[k][2] = "in_progress"

\* Its active task, the next active one, the last one, the first of the list.
Owner(es, i, todo) ==
  LET before == {j \in 1..(i - 1) : es[j].kind = "todo"}
      later == {j \in (i + 1)..Len(es) : Working(es[j])}
      earlier == {j \in before : ActiveOf(es[j].items, todo) # None}
      now == ActiveOf(es[Max(before)].items, todo)
      next == IF later = {} THEN None ELSE ActiveOf(es[Min(later)].items, todo)
  IN  IF now # None THEN now
      ELSE IF next # None THEN next
      ELSE IF earlier # {} THEN ActiveOf(es[Max(earlier)].items, todo)
      ELSE todo[1][1]

\* A step is the entries it shows; words wait for the next step of their task, or make
\* a step of their own when another task takes over.
Flushed(acc) == IF acc.words = {} THEN acc
                ELSE [acc EXCEPT !.steps[acc.owner] = Append(@, acc.words), !.words = {}]

\* Mutant: the words that wait pass to the task that takes over.
MutTook(acc, e, owner) ==
  IF e.kind \in {"summary", "text"} THEN [acc EXCEPT !.owner = owner, !.words = @ \cup {e.id}]
  ELSE [acc EXCEPT !.owner = owner, !.words = {}, !.steps[owner] = Append(@, acc.words \cup {e.id})]

Took(acc, e, owner) ==
  LET at == IF acc.owner # owner THEN Flushed(acc) ELSE acc
  IN  IF e.kind \in {"summary", "text"} THEN [at EXCEPT !.owner = owner, !.words = @ \cup {e.id}]
      ELSE [at EXCEPT !.owner = owner, !.words = {}, !.steps[owner] = Append(@, at.words \cup {e.id})]

Attributed(process) ==
  LET es == TodoWindow(process.entries)
      todo == process.todo
      none == [t \in {todo[k][1] : k \in DOMAIN todo} |-> <<>>]
      Take(acc, i) == IF es[i].kind = "todo" THEN acc ELSE Took(acc, es[i], Owner(es, i, todo))
  IN  Flushed(Folded(Take, [steps |-> none, owner |-> None, words |-> {}], Numbers(es))).steps

-------------------------------------------------------------------------------
\* The transcript (external): the last message grows, then settles.

Init == talk = <<>>

Blank(role, turn, plain) ==
  [id |-> Len(talk) + 1, role |-> role, turn |-> turn, status |-> IF plain THEN "done" ELSE "streaming",
   aborted |-> FALSE, segs |-> <<>>, calls |-> <<>>, agents |-> {}, artifact |-> FALSE, plain |-> plain]

Growing == talk # <<>> /\ Last(talk).role = "assistant" /\ Last(talk).status = "streaming"
Total == FoldLeft(LAMBDA n, m : n + Len(m.segs) + Cardinality(m.agents), 0, talk)
Used == UNION {{talk[j].segs[i].kind : i \in DOMAIN talk[j].segs} \cup {talk[j].calls[i].name : i \in DOMAIN talk[j].calls}
                 \cup (IF talk[j].agents = {} THEN {} ELSE {"subagent"}) : j \in DOMAIN talk} \ {"tool"}
Within(kinds, total, messages) ==
  \E mix \in Mixes : Used \cup kinds \subseteq mix.kinds /\ total <= mix.most /\ messages <= mix.messages
Room(kind) == Growing /\ Total < MaxSegs /\ Within({kind}, Total + 1, Len(talk))
Grow(m) == talk' = [talk EXCEPT ![Len(talk)] = m]

NewMessage(role, turn, plain) ==
  /\ Len(talk) < MaxMessages /\ ~Growing
  /\ role = "user" => plain /\ turn = None
  /\ plain => turn = None
  /\ ~plain => \A j \in DOMAIN talk : talk[j].plain \/ talk[j].turn = turn
  /\ Within({}, Total, Len(talk) + 1)
  /\ talk' = Append(talk, Blank(role, turn, plain))

Says(kind) == Room(kind) /\ Grow([Last(talk) EXCEPT !.segs = Append(@, Segment(kind))])

\* A call is written to the segments and to the flat list; one of its turn may come
\* again, in the message or in a later one.
Made == UNION {{[call |-> talk[j].calls[i].call, name |-> talk[j].calls[i].name, turn |-> talk[j].turn] :
                  i \in DOMAIN talk[j].calls} : j \in DOMAIN talk}
NextCall == Cardinality({x.call : x \in Made}) + 1

Comes(name, call, data) ==
  /\ Growing
  /\ name # "todo" => data = <<>>
  /\ \/ call = NextCall
     \/ name = "work" /\ Last(talk).turn # None /\ [call |-> call, name |-> name, turn |-> Last(talk).turn] \in Made
  /\ Room(name)
  /\ LET tool == Tool(name, call, "running", data)
         m == Last(talk)
         seen == \E i \in DOMAIN m.calls : m.calls[i].call = call
     IN  Grow([m EXCEPT !.segs = Append(@, [kind |-> "tool", tool |-> tool]),
                        !.calls = IF seen THEN @ ELSE Append(@, tool)])

\* A result (the one of a list or of a CLI question changes nothing here).
Finishes(k) ==
  /\ Growing
  /\ k \in DOMAIN Last(talk).calls /\ Last(talk).calls[k].status = "running"
  /\ Last(talk).calls[k].name \in {"work", "ask", "deliver"}
  /\ Grow([Last(talk) EXCEPT !.calls[k].status = "done"])

Delegates(a) == Room("subagent") /\ a \notin Last(talk).agents /\ Grow([Last(talk) EXCEPT !.agents = @ \cup {a}])

\* A turn that waits for an answer is not sealed but by an error or an abort; the host
\* adds the artifact of a turn that went well.
Seals(end, artifact) ==
  /\ Growing
  /\ end = "done" => ~PendingAsk(Last(talk))
  /\ artifact => Last(talk).turn # None /\ end = "done"
  /\ Grow([Last(talk) EXCEPT !.status = IF end = "error" THEN "error" ELSE "done",
                             !.aborted = end = "aborted", !.artifact = artifact])

Next == \/ \E turn \in Turns \cup {None}, plain \in BOOLEAN, role \in {"user", "assistant"} :
             NewMessage(role, turn, plain)
        \/ \E kind \in {"private", "summary", "text"} : Says(kind)
        \/ \E call \in 1..MaxSegs, name \in {"work", "todo", "ask", "cliAsk", "deliver"}, data \in Todos \cup {<<>>} :
             Comes(name, call, data)
        \/ \E k \in 1..MaxSegs : Finishes(k)
        \/ \E a \in Agents : Delegates(a)
        \/ \E end \in {"done", "error", "aborted"}, artifact \in BOOLEAN : Seals(end, artifact)

Spec == Init /\ [][Next]_workVars

-------------------------------------------------------------------------------
IsShown(view, m) == Item("message", m.id) \in ToSet(view.timeline)

\* What the agent said and did is rendered in one place: the reply, or the process of
\* the turn, whose owner is rendered; private reasoning, deliveries and the questions
\* of a CLI in neither (projectWorkTimeline).
NothingHidden(view) ==
  \A n \in DOMAIN talk : talk[n].role = "assistant" =>
    LET m == talk[n]
        segs == SegmentsOf(m)
        pid == ProcessId(m)
        In(i) == /\ pid \in DOMAIN view.processes
                 /\ Entry(m, segs, i).id \in {e.id : e \in ToSet(view.processes[pid].entries)}
    IN  /\ pid \in DOMAIN view.processes => IsShown(view, talk[view.processes[pid].anchor])
        /\ \A i \in DOMAIN segs : ~Repeated(segs, i) =>
             LET hidden == segs[i].kind = "private" \/ Names(segs[i], {"cliAsk", "deliver"})
                 body == IsShown(view, m) /\ Kept(m, segs, i)
             IN  IF hidden THEN ~body /\ ~In(i) ELSE body # In(i)

\* The keys of the rendered lists are distinct (project.ts: a duplicate would collide).
KeysDistinct(view) ==
  LET Distinct(s) == \A k, l \in DOMAIN s : s[k] = s[l] => k = l
      Ids(s) == [k \in DOMAIN s |-> s[k].id]
  IN  /\ Distinct(view.timeline)
      /\ \A p \in DOMAIN view.processes : Distinct(Ids(view.processes[p].entries))

\* Every step of the todo window is shown under one task of the latest list, and under
\* the one that was active when it was taken, if the latest list still has that task.
StepsOwned(view) ==
  \A p \in DOMAIN view.processes :
    LET process == view.processes[p]
        steps == Attributed(process)
        es == TodoWindow(process.entries)
        due == {e.id : e \in {x \in ToSet(es) : x.kind # "todo"}}
        Under(t) == UNION ToSet(steps[t])
        Lists(i) == {j \in 1..(i - 1) : es[j].kind = "todo"}
    IN  process.todo # <<>> =>
          /\ UNION {Under(t) : t \in DOMAIN steps} = due
          /\ \A t, u \in DOMAIN steps : t # u => Under(t) \cap Under(u) = {}
          /\ \A i \in DOMAIN es : es[i].kind # "todo" =>
               LET task == ActiveOf(es[Max(Lists(i))].items, process.todo)
               IN  task # None => es[i].id \in Under(task)

\* A step of a process has the state of its call in the latest message that has it, not
\* of the segment that came first (segmentsOf, mergeProcessEntries).
StepsCurrent(view) ==
  \A p \in DOMAIN view.processes : \A e \in ToSet(view.processes[p].entries) :
    e.kind = "tool" =>
      LET Has(m) == \E i \in DOMAIN m.calls : m.calls[i].call = e.id[2]
          m == talk[Max({n \in DOMAIN talk : Has(talk[n])})]
      IN  \E i \in DOMAIN m.calls : m.calls[i].call = e.id[2] /\ m.calls[i].status = e.step

\* All four of what is rendered.
WorkShown ==
  LET view == ProjectWorkTimeline(talk)
  IN  NothingHidden(view) /\ KeysDistinct(view) /\ StepsOwned(view) /\ StepsCurrent(view)
================================================================================
