------------------------------- MODULE ThreadScroll -------------------------------
(***************************************************************************)
(* The scrolling of the thread: the follower of the live tail               *)
(* (scroll-follow.ts), the anchor of older pages (use-scroll-anchor.ts),    *)
(* the unread count (unread-messages.ts) and the effects of the panel that  *)
(* drive them (ChatPanel.tsx).                                              *)
(*                                                                          *)
(* The browser is external: it reports a scroll, the end of one and a       *)
(* resize later, in any order, and keeps the position inside the content.   *)
(* A message is its author and its length; its height is its length, and    *)
(* one unit of height is more than the tolerances in pixels.                *)
(***************************************************************************)
EXTENDS Naturals, SequencesExt

CONSTANTS None, Lost,
          Window,    \* MEMLEAK_CASE02_RENDER_WINDOW
          Views,     \* heights of the viewport
          Threads,   \* the conversations a tab may switch to: sequences of messages
          MaxRows,   \* bound on the messages
          MaxLength  \* bound on the length of a message

VARIABLES
  shown,     \* the messages of the selected thread, each with its author and length
  limit,     \* renderLimit
  paging,    \* an older page not rendered yet: None, or the anchor and the limit it sets
  top,       \* scrollTop
  view,      \* clientHeight
  follower,  \* pinned, lastTop, height, view (as recorded), towardBottom, dragging
  scrolled,  \* the scroll event: "no", "moved" or "settling"
  resized,   \* an observer has something to report
  seen,      \* seenUnits: lengths of the messages when the reader left the tail (read there only)
  unread,
  lastUser,  \* lastUserMsgId, as a place in shown
  place      \* history: what a reader off the tail has at the top, from the first message
             \* on; None at the tail; Lost when the page is known to have moved it

scrollVars == <<shown, limit, paging, top, view, follower, scrolled, resized, seen, unread,
                lastUser, place>>

NoPage == [height |-> 0, top |-> 0, limit |-> 0]

-------------------------------------------------------------------------------
Lower(x, y) == IF x < y THEN x ELSE y
Higher(x, y) == IF x > y THEN x ELSE y

\* How far from the first message on each one ends.
Ends(rows) == LET ends[n \in 0..Len(rows)] == IF n = 0 THEN 0 ELSE ends[n - 1] + rows[n].length
              IN  ends
Hidden(rows, n) == Ends(rows)[Higher(Len(rows), n) - n]
Height(rows, n) == Ends(rows)[Len(rows)] - Hidden(rows, n)
Bottom(rows, n, v) == LET h == Height(rows, n) IN Higher(h, v) - v

Lengths(rows) == [i \in DOMAIN rows |-> rows[i].length]
LastUser(rows) == LET users == {i \in DOMAIN rows : rows[i].user}
                  IN  IF users = {} THEN 0 ELSE CHOOSE i \in users : \A j \in users : j <= i

UnreadMessageCount(rows, old) ==
  Cardinality({i \in DOMAIN rows : i \notin DOMAIN old \/ rows[i].length > old[i]})

Init == /\ shown \in Threads
        /\ limit = Window /\ paging = NoPage
        /\ view \in Views
        /\ top = Bottom(shown, Window, view)
        /\ follower = [pinned |-> TRUE, lastTop |-> top, height |-> Height(shown, Window), view |-> view,
                       towardBottom |-> FALSE, dragging |-> FALSE]
        /\ scrolled = "no" /\ resized = FALSE
        /\ seen = <<>> /\ unread = 0 /\ lastUser = LastUser(shown)
        /\ place = None

\* Where the follower saw the viewport last.
Recorded(f, t, h) == [f EXCEPT !.lastTop = t, !.height = h, !.view = view]

\* The position is kept inside the content; the browser reports that it changed.
Lands(t, rows, n) == top' = Lower(t, Bottom(rows, n, view))
Scrolls(otherwise) == scrolled' = IF top' # top THEN "moved" ELSE otherwise

\* pause: all there is counts as read.
Paused(f) == [f EXCEPT !.pinned = FALSE, !.towardBottom = FALSE]
Reads == IF follower.pinned THEN seen' = Lengths(shown) /\ unread' = 0 ELSE UNCHANGED <<seen, unread>>

\* follow: to the end of what is rendered; the older pages go away.
Follow(rows, f) ==
  LET end == Bottom(rows, limit, view) IN
  /\ follower' = Recorded([f EXCEPT !.pinned = TRUE, !.towardBottom = FALSE], end, Height(rows, limit))
  /\ limit' = Window
  /\ paging' = IF paging = NoPage THEN NoPage ELSE [paging EXCEPT !.limit = Window]
  /\ Lands(end, rows, Window)
  /\ seen' = <<>> /\ unread' = 0
  /\ place' = None

-------------------------------------------------------------------------------
\* The panel.

\* The messages change and are rendered; the effect follows the reader's own message
\* and the tail, and counts what is unread.
Commit(rows) ==
  /\ shown' = rows
  /\ lastUser' = LastUser(rows)
  /\ resized' = TRUE
  /\ IF LastUser(rows) \notin {0, lastUser} \/ follower.pinned
     THEN Follow(rows, follower)
     ELSE /\ Lands(top, rows, limit)
          /\ unread' = UnreadMessageCount(rows, seen)
          /\ place' = IF paging # NoPage \/ top' # top \/ Hidden(rows, limit) # Hidden(shown, limit)
                      THEN Lost ELSE place
          /\ UNCHANGED <<limit, paging, follower, seen>>
  /\ Scrolls(scrolled)
  /\ UNCHANGED view

New(user) == Len(shown) < MaxRows /\ Commit(Append(shown, [user |-> user, length |-> 1]))
Says == /\ shown # <<>> /\ ~Last(shown).user /\ Last(shown).length < MaxLength
        /\ Commit([shown EXCEPT ![Len(shown)].length = @ + 1])
\* A rewind takes the last message away.
CutLast == shown # <<>> /\ Commit(Front(shown))

\* Another tab or agent is selected: its tail is followed.
SelectThread(rows) == /\ shown' = rows
                      /\ lastUser' = LastUser(rows)
                      /\ resized' = TRUE
                      /\ Follow(rows, follower) /\ Scrolls(scrolled)
                      /\ UNCHANGED view

JumpLatest == /\ unread > 0
              /\ resized' = (resized \/ limit # Window)
              /\ Follow(shown, follower) /\ Scrolls(scrolled)
              /\ UNCHANGED <<shown, view, lastUser>>

\* What the reader puts at the top; a page on its way puts back what was there.
Chosen(t) == IF paging = NoPage THEN Hidden(shown, limit) + t ELSE Lost

\* capture, and the page to render.
Older == [height |-> Height(shown, limit), top |-> top, limit |-> Lower(Len(shown), limit + Window)]

LoadEarlier == /\ Len(shown) > limit /\ paging = NoPage
               /\ paging' = Older
               /\ follower' = Paused(follower) /\ Reads
               /\ place' = Hidden(shown, limit) + top
               /\ UNCHANGED <<shown, limit, top, view, scrolled, resized, lastUser>>

\* Mutant: the anchor is the old position.
MutAnchored(rows, n) == paging.top

\* What was at the top stays there when all that is new is above it.
Anchored(rows, n) == Higher(Height(rows, n) + paging.top, paging.height) - paging.height

CommitPage == /\ paging # NoPage
              /\ limit' = paging.limit /\ paging' = NoPage
              /\ Lands(Anchored(shown, paging.limit), shown, paging.limit)
              /\ resized' = (resized \/ paging.limit # limit) /\ Scrolls(scrolled)
              /\ place' = IF follower.pinned \/ paging.height < view THEN Lost ELSE place
              /\ UNCHANGED <<shown, view, follower, seen, unread, lastUser>>

-------------------------------------------------------------------------------
\* The browser's reports.

\* The viewport gives way to the composer.
ResizeViewport(v) == /\ v # view
                     /\ view' = v
                     /\ top' = Lower(top, Bottom(shown, limit, v))
                     /\ Scrolls(scrolled)
                     /\ resized' = TRUE
                     /\ place' = IF top' # top /\ ~follower.pinned THEN Lost ELSE place
                     /\ UNCHANGED <<shown, limit, paging, follower, seen, unread, lastUser>>

\* onResize
Observe ==
  /\ resized
  /\ IF follower.pinned
     THEN Follow(shown, follower) /\ resized' = (limit # Window) /\ Scrolls(scrolled)
     ELSE /\ follower' = [Recorded(follower, top, Height(shown, limit)) EXCEPT !.towardBottom = FALSE]
          /\ resized' = FALSE
          /\ UNCHANGED <<limit, paging, top, scrolled, seen, unread, place>>
  /\ UNCHANGED <<shown, view, lastUser>>

\* onScroll: only what the reader intends releases the tail or returns to it.  A drag
\* goes on or is over with it.
OnScroll(goesOn) ==
  LET layoutChanged == follower.height # Height(shown, limit) \/ follower.view # view
      atBottom == top = Bottom(shown, limit, view)
      released == follower.dragging /\ ~layoutChanged /\ top # follower.lastTop /\ ~atBottom
      f == [(IF released THEN Paused(follower) ELSE follower) EXCEPT !.towardBottom = @ /\ ~layoutChanged]
      returned == /\ ~f.pinned /\ ~layoutChanged /\ top > follower.lastTop /\ atBottom
                  /\ f.dragging \/ f.towardBottom
      last == [f EXCEPT !.dragging = @ /\ goesOn]
      more == ~f.pinned /\ top = 0 /\ paging = NoPage /\ Len(shown) > limit
  IN  IF returned THEN Follow(shown, last) /\ resized' = (resized \/ limit # Window)
      ELSE /\ follower' = Recorded(last, top, Height(shown, limit))
           /\ (IF released THEN Reads ELSE UNCHANGED <<seen, unread>>)
           /\ paging' = IF more THEN Older ELSE paging
           /\ place' = IF released THEN Chosen(top) ELSE place
           /\ UNCHANGED <<limit, resized, top>>

ScrollEvent == /\ scrolled = "moved"
               /\ OnScroll(TRUE) /\ Scrolls("settling")
               /\ UNCHANGED <<shown, view, lastUser>>
ScrollEnd == /\ scrolled = "settling"
             /\ scrolled' = "no"
             /\ follower' = [follower EXCEPT !.towardBottom = FALSE]
             /\ UNCHANGED <<shown, limit, paging, top, view, resized, seen, unread, lastUser, place>>

-------------------------------------------------------------------------------
\* The reader.

\* The browser scrolls as the reader asks.
Goes(t) == /\ top' = t /\ Scrolls(scrolled)
           /\ place' = IF follower'.pinned THEN place ELSE Chosen(t)

\* Wheel, touch and keys, unless a list inside takes them.
IntentUp(t) == /\ t < top
               /\ follower' = Paused(follower) /\ Reads /\ Goes(t)
               /\ UNCHANGED <<shown, limit, paging, view, resized, lastUser>>
IntentDown(t) == /\ t \in top..Bottom(shown, limit, view)
                 /\ follower' = [follower EXCEPT !.towardBottom = TRUE]
                 /\ Goes(t)
                 /\ UNCHANGED <<shown, limit, paging, view, resized, seen, unread, lastUser>>

\* The scrollbar; an overlay one is released by the first scroll only.
PointerDown(gutter) ==
  /\ ~follower.dragging /\ Height(shown, limit) > view
  /\ follower' = [(IF gutter THEN Paused(follower) ELSE follower) EXCEPT !.dragging = TRUE]
  /\ IF gutter THEN Reads /\ Goes(top) ELSE UNCHANGED <<top, scrolled, seen, unread, place>>
  /\ UNCHANGED <<shown, limit, paging, view, resized, lastUser>>
Drag(t) == /\ follower.dragging
           /\ t \in 0..Bottom(shown, limit, view) /\ t # top
           /\ UNCHANGED <<shown, limit, paging, view, follower, resized, seen, unread, lastUser>>
           /\ Goes(t)
PointerUp == /\ follower.dragging
             /\ OnScroll(FALSE) /\ Scrolls(scrolled)
             /\ UNCHANGED <<shown, view, lastUser>>

Next == \/ \E user \in BOOLEAN : New(user)
        \/ Says \/ CutLast \/ JumpLatest \/ LoadEarlier \/ CommitPage
        \/ \E rows \in Threads : SelectThread(rows)
        \/ \E v \in Views : ResizeViewport(v)
        \/ Observe \/ ScrollEvent \/ ScrollEnd
        \/ \E t \in 0..(MaxRows * MaxLength) : IntentUp(t) \/ IntentDown(t) \/ Drag(t)
        \/ \E gutter \in BOOLEAN : PointerDown(gutter)
        \/ PointerUp

Spec == Init /\ [][Next]_scrollVars

-------------------------------------------------------------------------------
AtRest == ~resized /\ scrolled = "no" /\ paging = NoPage /\ ~follower.dragging

\* Once the browser has reported everything, a thread that follows its tail shows the
\* end of it, one window of messages and nothing unread; a reader elsewhere has what was
\* put at the top still there, whatever arrived or was rendered above, and the count of
\* what is new since (createScrollFollow, useScrollAnchor, unreadMessageCount).
FollowKept ==
  AtRest =>
    IF follower.pinned
    THEN place # Lost => top = Bottom(shown, limit, view) /\ limit = Window /\ unread = 0
    ELSE /\ unread = UnreadMessageCount(shown, seen)
         /\ place \in {Lost, Hidden(shown, limit) + top}
================================================================================
