------------------------------ MODULE Waitlist ------------------------------
(***************************************************************************)
(* The waitlist: its table, the four requests that change it, query by     *)
(* query, and the page of an administrator with its list of the entries of *)
(* one status, which is loaded again after every change and may be         *)
(* answered late.  Requests also come from other administrators, of whom   *)
(* the page hears nothing.                                                 *)
(***************************************************************************)
EXTENDS Naturals, Sequences, FiniteSets

CONSTANTS
  Mail,        \* the addresses that apply
  Slot,        \* the requests being served at one time
  MaxEntries,  \* bound of the model: entries ever made
  MaxLinks,    \* bound of the model: invite links ever made
  MaxLoads,    \* bound of the model: lists asked for at one time
  MaxMishaps   \* bound of the model: failures, and requests of other administrators

ASSUME WaitlistAssumption == {MaxEntries, MaxLinks, MaxLoads, MaxMishaps} \subseteq Nat

VARIABLES
  entry,      \* Waitlist: email -> its row, NoEntry for none
  lastEntry,  \* entries made
  links,      \* the invite links made, each as the entry it was made for
  known,      \* the addresses that have an account
  slot,       \* the requests being served
  panel,      \* the page: tab, wlFilter, entries, wlLoading, sendingId
  loads,      \* the lists under way
  mishaps,    \* failures and requests of others so far
  shaken,     \* history: entries two requests of which overlapped, or one was cut
  reopened,   \* history: how often an invited entry was rejected
  stale       \* history: the page was not told of a change, or not in order

waitlist == <<entry, lastEntry, links, known>>
waitHistory == <<shaken, reopened, stale>>
waitVars == <<waitlist, slot, panel, loads, mishaps, waitHistory>>

Status == {"pending", "invited", "rejected"}
Entry == 1..MaxEntries
NoEntry == [id |-> 0, status |-> "pending", link |-> 0]
Unused == [op |-> "none", step |-> "none", of |-> 0, link |-> 0, watched |-> FALSE,
           filter |-> "pending"]
Shown(e) == [id |-> e.id, status |-> e.status]

Rows == {entry[m] : m \in Mail} \ {NoEntry}
Find(id) == {e \in Rows : e.id = id}
\* Requests for the entry that are being served, the answered ones included.
Served(id) == {s \in Slot : slot[s].op \in {"invite", "reject", "delete"} /\ slot[s].of = id}
Watched == {s \in Slot : slot[s].watched}

Load == [filter : Status, n : 1..MaxLoads, served : BOOLEAN,
         rows : SUBSET [id : Entry, status : Status]]

WaitlistTypeOK ==
  /\ lastEntry \in 0..MaxEntries /\ links \in Seq(1..lastEntry) /\ known \subseteq Mail
  /\ entry \in [Mail -> {NoEntry} \cup
                  [id : 1..lastEntry, status : Status, link : 0..Len(links)]]
  /\ \A s \in Slot : slot[s].op = "join" => slot[s].of \in Mail
  /\ panel.filter \in Status /\ panel.sending \in 0..lastEntry
  /\ loads \subseteq Load
  /\ shaken \subseteq Entry /\ reopened \in [Entry -> Nat]

WaitlistInit ==
  /\ entry = [m \in Mail |-> NoEntry] /\ lastEntry = 0 /\ links = <<>> /\ known = {}
  /\ slot = [s \in Slot |-> Unused]
  /\ panel = [open |-> FALSE, filter |-> "pending", rows |-> {}, loading |-> FALSE,
              sending |-> 0]
  /\ loads = {} /\ mishaps = 0
  /\ shaken = {} /\ reopened = [e \in Entry |-> 0] /\ stale = FALSE

Mishap == mishaps < MaxMishaps /\ mishaps' = mishaps + 1

-----------------------------------------------------------------------------
(* join: the entry and the account of the address are looked for, and the  *)
(* entry is made, which fails when another request has made it by now.     *)
(* (Too many requests from one address of the network are refused first.)  *)

Join(s, m) ==
  /\ slot[s] = Unused /\ entry[m] = NoEntry
  /\ slot' = [slot EXCEPT ![s] = [Unused EXCEPT !.op = "join", !.step = "user", !.of = m]]
  /\ UNCHANGED <<waitlist, panel, loads, mishaps, waitHistory>>

FindAccount(s) ==
  /\ slot[s].step = "user"
  /\ slot' = [slot EXCEPT ![s] = IF @.of \in known THEN Unused ELSE [@ EXCEPT !.step = "create"]]
  /\ UNCHANGED <<waitlist, panel, loads, mishaps, waitHistory>>

CreateEntry(s) ==
  /\ slot[s].step = "create"
  /\ IF entry[slot[s].of] # NoEntry THEN UNCHANGED waitlist
     ELSE /\ lastEntry < MaxEntries
          /\ lastEntry' = lastEntry + 1
          /\ entry' = [entry EXCEPT ![slot[s].of] =
                         [id |-> lastEntry', status |-> "pending", link |-> 0]]
          /\ UNCHANGED <<links, known>>
  /\ slot' = [slot EXCEPT ![s] = Unused]
  /\ UNCHANGED <<panel, loads, mishaps, waitHistory>>

\* The address registers, with a link of the waitlist or with another.
RegisterMail(m) ==
  /\ m \notin known
  /\ known' = known \cup {m}
  /\ UNCHANGED <<entry, lastEntry, links, slot, panel, loads, mishaps, waitHistory>>

-----------------------------------------------------------------------------
(* sendInvite, rejectEntry and deleteEntry: the entry is read, and written *)
(* by its id, which fails when it is gone; an invite makes its link first. *)

Ask(s, op, id, watched) ==
  /\ slot[s] = Unused
  /\ slot' = [slot EXCEPT ![s] = [op |-> op, step |-> "find", of |-> id, link |-> 0,
                                  watched |-> watched, filter |-> panel.filter]]
  /\ shaken' = IF Served(id) = {} THEN shaken ELSE shaken \cup {id}

\* The requests of a page are answered, those of others concern nobody here.
Reply(s, answer) ==
  slot' = [slot EXCEPT ![s] = IF @.watched THEN [@ EXCEPT !.step = answer] ELSE Unused]

Refused(op, e) ==
  \/ op = "invite" /\ e.status = "invited"
  \/ op = "reject" /\ e.status = "rejected"

FindEntryMutant(s) ==
  /\ slot[s].step = "find"
  /\ IF \E e \in Find(slot[s].of) : TRUE
       THEN slot' = [slot EXCEPT ![s].step = IF slot[s].op = "invite" THEN "link" ELSE "write"]
       ELSE Reply(s, "failed")
  /\ UNCHANGED <<waitlist, panel, loads, mishaps, waitHistory>>

FindEntry(s) ==
  /\ slot[s].step = "find"
  /\ IF \E e \in Find(slot[s].of) : ~Refused(slot[s].op, e)
       THEN slot' = [slot EXCEPT ![s].step = IF slot[s].op = "invite" THEN "link" ELSE "write"]
       ELSE Reply(s, "failed")
  /\ UNCHANGED <<waitlist, panel, loads, mishaps, waitHistory>>

MakeLink(s) ==
  /\ slot[s].step = "link" /\ Len(links) < MaxLinks
  /\ links' = Append(links, slot[s].of)
  /\ slot' = [slot EXCEPT ![s].step = "write", ![s].link = Len(links')]
  /\ UNCHANGED <<entry, lastEntry, known, panel, loads, mishaps, waitHistory>>

Written(e, r) ==
  CASE r.op = "invite" -> [e EXCEPT !.status = "invited", !.link = r.link]
    [] r.op = "reject" -> [e EXCEPT !.status = "rejected"]
    [] r.op = "delete" -> NoEntry

WriteEntry(s) ==
  LET r == slot[s] IN
  /\ r.step = "write"
  /\ IF Find(r.of) = {}
       THEN Reply(s, "failed") /\ UNCHANGED <<waitlist, reopened, stale>>
       ELSE \E m \in Mail :
         /\ entry[m].id = r.of
         /\ entry' = [entry EXCEPT ![m] = Written(@, r)]
         /\ reopened' = IF r.op = "reject" /\ entry[m].status = "invited"
                        THEN [reopened EXCEPT ![r.of] = @ + 1] ELSE reopened
         /\ stale' = (stale \/ ~r.watched)
         /\ UNCHANGED <<lastEntry, links, known>>
         /\ Reply(s, "done")
  /\ UNCHANGED <<panel, loads, mishaps, shaken>>

\* Another administrator, on another page.
OtherAdmin(s, op, id) ==
  /\ Find(id) # {} /\ Mishap
  /\ Ask(s, op, id, FALSE)
  /\ UNCHANGED <<waitlist, panel, loads, reopened, stale>>

-----------------------------------------------------------------------------
(* The page.                                                               *)

\* loadWaitlist, k times
Loading(filter, k) ==
  LET N == {n \in 1..MaxLoads : \A l \in loads : l.n # n}
  IN \E M \in SUBSET N :
       /\ Cardinality(M) = k /\ \A n \in N \ M, m \in M : m < n
       /\ loads' = loads \cup {[filter |-> filter, n |-> m, served |-> FALSE, rows |-> {}] : m \in M}

\* The tab of the waitlist is shown.
ShowTab ==
  /\ ~panel.open
  /\ panel' = [panel EXCEPT !.open = TRUE, !.loading = TRUE]
  /\ Loading(panel.filter, 1)
  /\ stale' = (loads # {})
  /\ UNCHANGED <<waitlist, slot, mishaps, shaken, reopened>>

HideTab ==
  /\ panel.open
  /\ panel' = [panel EXCEPT !.open = FALSE]
  /\ UNCHANGED <<waitlist, slot, loads, mishaps, waitHistory>>

\* Another filter is loaded by the button and once more by the effect.
SetFilter(filter) ==
  /\ panel.open
  /\ panel' = [panel EXCEPT !.filter = filter, !.loading = TRUE]
  /\ Loading(filter, IF filter = panel.filter THEN 1 ELSE 2)
  /\ stale' = (loads # {})
  /\ UNCHANGED <<waitlist, slot, mishaps, shaken, reopened>>

ServeLoad(l) ==
  /\ ~l.served
  /\ loads' = (loads \ {l}) \cup
       {[l EXCEPT !.served = TRUE, !.rows = {Shown(e) : e \in {f \in Rows : f.status = l.filter}}]}
  /\ UNCHANGED <<waitlist, slot, panel, mishaps, waitHistory>>

SetEntries(l) ==
  /\ l.served
  /\ loads' = loads \ {l}
  /\ panel' = [panel EXCEPT !.rows = l.rows, !.loading = FALSE]
  /\ UNCHANGED <<waitlist, slot, mishaps, waitHistory>>

LoadFails(l) ==
  /\ Mishap
  /\ loads' = loads \ {l}
  /\ panel' = [panel EXCEPT !.loading = FALSE]
  /\ stale' = TRUE
  /\ UNCHANGED <<waitlist, slot, shaken, reopened>>

\* Only entries shown as pending have the two buttons.
Offered(e) == panel.open /\ ~panel.loading /\ e.status = "pending"

SendInviteToWaitlist(s, e) ==
  /\ Offered(e) /\ panel.sending # e.id
  /\ panel' = [panel EXCEPT !.sending = e.id]
  /\ Ask(s, "invite", e.id, TRUE)
  /\ UNCHANGED <<waitlist, loads, mishaps, reopened, stale>>

RejectWaitlist(s, e) ==
  /\ Offered(e)
  /\ Ask(s, "reject", e.id, TRUE)
  /\ UNCHANGED <<waitlist, panel, loads, mishaps, reopened, stale>>

Sent(r) == IF r.op = "invite" THEN 0 ELSE panel.sending

DoneMutant(s) ==
  LET r == slot[s] IN
  /\ r.step = "done"
  /\ slot' = [slot EXCEPT ![s] = Unused]
  /\ panel' = [panel EXCEPT !.sending = Sent(r), !.loading = r.op = "invite"]
  /\ IF r.op = "invite"
       THEN Loading(r.filter, 1) /\ stale' = (loads # {} \/ r.filter # panel.filter)
       ELSE UNCHANGED <<loads, stale>>
  /\ UNCHANGED <<waitlist, mishaps, shaken, reopened>>

\* The list is loaded again, with the filter of the moment of the click.
Done(s) ==
  LET r == slot[s] IN
  /\ r.step = "done"
  /\ slot' = [slot EXCEPT ![s] = Unused]
  /\ panel' = [panel EXCEPT !.sending = Sent(r), !.loading = TRUE]
  /\ Loading(r.filter, 1)
  /\ stale' = (loads # {} \/ r.filter # panel.filter)
  /\ UNCHANGED <<waitlist, mishaps, shaken, reopened>>

Failed(s) ==
  /\ slot[s].step = "failed"
  /\ slot' = [slot EXCEPT ![s] = Unused]
  /\ panel' = [panel EXCEPT !.sending = Sent(slot[s])]
  /\ UNCHANGED <<waitlist, loads, mishaps, waitHistory>>

\* The network fails: the request, which goes on if it has reached the server,
\* is sent once more,
SentAgain(s, t) ==
  LET r == slot[s] IN
  /\ s \in Watched /\ slot[t] = Unused /\ Mishap
  /\ slot' = [slot EXCEPT ![t] = [r EXCEPT !.step = "find", !.link = 0],
                          ![s] = IF r.step \in {"done", "failed"} THEN Unused
                                 ELSE [r EXCEPT !.watched = FALSE]]
  /\ shaken' = IF r.step \in {"done", "failed"} THEN shaken ELSE shaken \cup {r.of}
  /\ stale' = TRUE
  /\ UNCHANGED <<waitlist, panel, loads, reopened>>

\* and if it fails again, the page gives up.
GivesUp(s) ==
  LET r == slot[s] IN
  /\ s \in Watched /\ Mishap
  /\ slot' = [slot EXCEPT ![s] = IF r.step \in {"done", "failed"} THEN Unused
                                 ELSE [r EXCEPT !.watched = FALSE]]
  /\ panel' = [panel EXCEPT !.sending = Sent(r)]
  /\ stale' = TRUE
  /\ UNCHANGED <<waitlist, loads, shaken, reopened>>

\* The server stops: a link may have been made that no entry records.
ServerStops ==
  /\ Mishap
  /\ slot' = [s \in Slot |-> IF slot[s].watched /\ slot[s].step \notin {"done", "failed"}
                             THEN [slot[s] EXCEPT !.step = "failed"]
                             ELSE IF slot[s].watched THEN slot[s] ELSE Unused]
  /\ shaken' = shaken \cup {slot[s].of : s \in {t \in Slot : slot[t].link # 0 /\ slot[t].step = "write"}}
  /\ UNCHANGED <<waitlist, panel, loads, reopened, stale>>

WaitlistNext ==
  \/ \E s \in Slot :
       \/ \E m \in Mail : Join(s, m)
       \/ FindAccount(s) \/ CreateEntry(s) \/ FindEntry(s) \/ MakeLink(s) \/ WriteEntry(s)
       \/ \E op \in {"invite", "reject", "delete"}, id \in 1..lastEntry : OtherAdmin(s, op, id)
       \/ \E e \in panel.rows : SendInviteToWaitlist(s, e) \/ RejectWaitlist(s, e)
       \/ Done(s) \/ Failed(s) \/ GivesUp(s) \/ \E t \in Slot : SentAgain(s, t)
  \/ \E m \in Mail : RegisterMail(m)
  \/ \E l \in loads : ServeLoad(l) \/ SetEntries(l) \/ LoadFails(l)
  \/ ShowTab \/ HideTab \/ ServerStops
  \/ \E filter \in Status : SetFilter(filter)

WaitlistSpec == WaitlistInit /\ [][WaitlistNext]_waitVars

-----------------------------------------------------------------------------
(* Properties *)

(***************************************************************************)
(* Nobody is sent a second invite link: every link of an entry but one was *)
(* made after the entry had been rejected again, whatever lists the        *)
(* administrators work from; unless two requests for the entry overlapped  *)
(* or the server stopped between making a link and recording it.           *)
(***************************************************************************)
LinksAccounted ==
  \A id \in Entry \ shaken :
    Cardinality({n \in 1..Len(links) : links[n] = id}) <= 1 + reopened[id]

(***************************************************************************)
(* At rest the page shows entries of its filter, with the status they have *)
(* now: what the administrator did is loaded again.  It need not be so     *)
(* after requests of others, failures, lists that were asked for while     *)
(* others were under way, and a change of the filter during a request,     *)
(* whose list is then that of the filter before.                           *)
(***************************************************************************)
PanelCurrent ==
  panel.open /\ loads = {} /\ Watched = {} /\ ~stale =>
    \A r \in panel.rows : r.status = panel.filter /\ \E e \in Rows : Shown(e) = r
=============================================================================
