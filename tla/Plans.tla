------------------------------- MODULE Plans -------------------------------
(***************************************************************************)
(* Who has which plan until when: StripeService (checkout, customers and   *)
(* the webhook), UsersService.getPlan and setPlan, the downgrade of        *)
(* PlanGuardService and the administrator's updateUserPlan.  Stripe itself *)
(* is external: it keeps the subscriptions, and reports every change in an *)
(* event that it delivers at least once and in any order.  A handler is    *)
(* one HTTP request being served, an action what runs between two awaits.  *)
(***************************************************************************)
EXTENDS Integers, Sequences, FiniteSets

CONSTANTS
  User,         \* the accounts
  Handler,      \* the requests being served at one time
  None,         \* no user
  Paid,         \* the plans on sale ("PRO" and "TEAM")
  MaxTime,      \* bound of the model: the clock, in billing periods
  MaxSubs,      \* bound of the model: subscriptions ever taken out
  MaxEvents,    \* bound of the model: events Stripe ever reports
  MaxCustomers, \* bound of the model: customers ever created
  MaxFaults     \* bound of the model: repeated events, restarts and grants

ASSUME PlansAssumption ==
  /\ IsFiniteSet(Handler) /\ Handler # {}
  /\ None \notin User
  /\ "FREE" \notin Paid
  /\ {MaxTime, MaxSubs, MaxEvents, MaxCustomers, MaxFaults} \subseteq Nat

VARIABLES
  now,       \* the clock
  plan,      \* User.plan
  expires,   \* User.planExpiresAt, 0 for null
  customer,  \* User.stripeCustomerId, 0 for null
  row,       \* the user's row in Subscription
  made,      \* at Stripe: whom each customer was created for
  offers,    \* at Stripe: checkout sessions not yet paid
  sub,       \* at Stripe: the subscriptions, in the order they were taken out
  log,       \* at Stripe: the events, in the order they happened
  acked,     \* at Stripe: the events the webhook has answered
  pc,        \* the query each handler runs next
  usr,       \* the user it runs for
  arg,       \* the event it handles, or the plan to be bought
  got,       \* what it has read
  upset,     \* history: what has happened to a user that may cost him his plan
  repeats,   \* history: events delivered again
  crashes    \* history: restarts

users == <<plan, expires, customer, row>>
stripe == <<made, offers, sub, log, acked>>
locals == <<pc, usr, arg, got>>
history == <<upset, repeats, crashes>>
planVars == <<now, users, stripe, locals, history>>

Plan == Paid \cup {"FREE"}
Time == 0..(MaxTime + 1)
Status == {"none", "active", "past_due", "canceled"}

\* What an event, an answer of Stripe and a row say of a subscription.
State == [sub : 0..MaxSubs, status : Status, end : Time, cancel : BOOLEAN]
NoState == [sub |-> 0, status |-> "none", end |-> 0, cancel |-> FALSE]
Subscription ==
  [user : User, plan : Paid, cust : 1..MaxCustomers, state : State]
Event == [kind : {"completed", "updated", "deleted"}, user : User, state : State]

Step == {"idle", "downgrade", "newCustomer", "saveCustomer", "openSession",
         "retrieve", "setPlan", "saveRow"}
Webhook == {"retrieve", "setPlan", "saveRow"}

PlansTypeOK ==
  /\ now \in 0..MaxTime
  /\ plan \in [User -> Plan]
  /\ expires \in [User -> Time]
  /\ customer \in [User -> 0..MaxCustomers]
  /\ row \in [User -> State]
  /\ made \in Seq(User) /\ Len(made) <= MaxCustomers
  /\ offers \subseteq [user : User, plan : Paid, cust : 1..MaxCustomers]
  /\ sub \in Seq(Subscription) /\ Len(sub) <= MaxSubs
  /\ log \in Seq(Event) /\ Len(log) <= MaxEvents
  /\ acked \subseteq 1..Len(log)
  /\ pc \in [Handler -> Step]
  /\ usr \in [Handler -> User \cup {None}]
  /\ \A p \in Handler : pc[p] # "idle" => usr[p] \in User
  /\ \A p \in Handler : pc[p] \in Webhook => arg[p] \in 1..Len(log) /\ got[p] \in State

PlansInit ==
  /\ now = 0
  /\ plan = [u \in User |-> "FREE"]
  /\ expires = [u \in User |-> 0]
  /\ customer = [u \in User |-> 0]
  /\ row = [u \in User |-> NoState]
  /\ made = <<>> /\ offers = {} /\ sub = <<>> /\ log = <<>> /\ acked = {}
  /\ pc = [p \in Handler |-> "idle"]
  /\ usr = [p \in Handler |-> None]
  /\ arg = [p \in Handler |-> 0]
  /\ got = [p \in Handler |-> NoState]
  /\ upset = {} /\ repeats = 0 /\ crashes = 0

Take(p, u, a, g, step) ==
  /\ pc[p] = "idle"
  /\ pc' = [pc EXCEPT ![p] = step]
  /\ usr' = [usr EXCEPT ![p] = u]
  /\ arg' = [arg EXCEPT ![p] = a]
  /\ got' = [got EXCEPT ![p] = g]

Proceed(p, step, g) ==
  /\ pc' = [pc EXCEPT ![p] = step]
  /\ got' = [got EXCEPT ![p] = g]
  /\ UNCHANGED <<usr, arg>>

End(p) ==
  /\ pc' = [pc EXCEPT ![p] = "idle"]
  /\ usr' = [usr EXCEPT ![p] = None]
  /\ arg' = [arg EXCEPT ![p] = 0]
  /\ got' = [got EXCEPT ![p] = NoState]

\* UsersService.setPlan: both columns in one statement
WritePlan(u, pl, t) ==
  /\ plan' = [plan EXCEPT ![u] = pl]
  /\ expires' = [expires EXCEPT ![u] = t]

\* What the bound MaxFaults counts.
Faults == repeats + crashes + Cardinality({x \in upset : x[2] = "admin"})

Upset(u, why) == upset' = upset \cup {<<u, why>>}

-----------------------------------------------------------------------------
(* The downgrade of an expired plan, by the plan guard of every limited    *)
(* operation and by getPlan: one query reads, another writes.              *)

FindExpired(p, u) ==
  /\ plan[u] # "FREE" /\ expires[u] # 0 /\ expires[u] <= now
  /\ Take(p, u, plan[u], [NoState EXCEPT !.end = expires[u]], "downgrade")
  /\ UNCHANGED <<now, users, stripe, history>>

GetUserPlan(p, u) == FindExpired(p, u)
GetPlan(p, u) == FindExpired(p, u)

Downgrade(p) ==
  LET u == usr[p]
      outdated == plan[u] # arg[p] \/ expires[u] # got[p].end
  IN /\ pc[p] = "downgrade"
     /\ WritePlan(u, "FREE", 0)
     /\ IF outdated THEN Upset(u, "race") ELSE UNCHANGED upset
     /\ End(p)
     /\ UNCHANGED <<now, customer, row, stripe, repeats, crashes>>

(* The administrator, who may also give a plan without an end.  Bounds of  *)
(* the model: once a user, and never an end that has passed.               *)
UpdateUserPlan(u, pl, t) ==
  /\ <<u, "admin">> \notin upset /\ Faults < MaxFaults
  /\ t = 0 \/ t > now
  /\ WritePlan(u, pl, t)
  /\ Upset(u, "admin")
  /\ UNCHANGED <<now, customer, row, stripe, locals, repeats, crashes>>

-----------------------------------------------------------------------------
(* Checkout: the user's customer at Stripe is looked up, created and saved *)
(* if there is none, and a session is opened for it.                       *)

CheckingOut == {q \in Handler : pc[q] \in {"newCustomer", "saveCustomer", "openSession"}}

\* Bounds of the model: what is checked out can still be paid and created.
Checkout(p, u, pl) ==
  /\ Cardinality(offers) + Cardinality(CheckingOut) + Len(sub) < MaxSubs
  /\ customer[u] = 0 =>
       Len(made) + Cardinality({q \in Handler : pc[q] = "newCustomer"}) < MaxCustomers
  /\ Take(p, u, pl, [NoState EXCEPT !.sub = customer[u]],
           IF customer[u] # 0 THEN "openSession" ELSE "newCustomer")
  /\ UNCHANGED <<now, users, stripe, history>>

NewCustomer(p) ==
  /\ pc[p] = "newCustomer"
  /\ made' = Append(made, usr[p])
  /\ Proceed(p, "saveCustomer", [NoState EXCEPT !.sub = Len(made) + 1])
  /\ UNCHANGED <<now, users, offers, sub, log, acked, history>>

SaveCustomerMutant(p) ==
  /\ pc[p] = "saveCustomer"
  /\ Proceed(p, "openSession", got[p])
  /\ UNCHANGED <<now, users, stripe, history>>

SaveCustomer(p) ==
  /\ pc[p] = "saveCustomer"
  /\ customer' = [customer EXCEPT ![usr[p]] = got[p].sub]
  /\ Proceed(p, "openSession", got[p])
  /\ UNCHANGED <<now, plan, expires, row, stripe, history>>

OpenSession(p) ==
  /\ pc[p] = "openSession"
  /\ offers' = offers \cup {[user |-> usr[p], plan |-> arg[p], cust |-> got[p].sub]}
  /\ End(p)
  /\ UNCHANGED <<now, users, made, sub, log, acked, history>>

-----------------------------------------------------------------------------
(* Stripe (external): what may become of a session and of a subscription.  *)
(* Every change but the creation is reported with the new state.           *)

Live(u) == {s \in DOMAIN sub : sub[s].user = u /\ sub[s].state.status # "canceled"}

Report(kind, u, st) ==
  /\ Len(log) < MaxEvents
  /\ log' = Append(log, [kind |-> kind, user |-> u, state |-> st])

\* The period that starts now.
PeriodEnd == now + 1

Pay(o) ==
  LET st == [sub |-> Len(sub) + 1, status |-> "active", end |-> PeriodEnd, cancel |-> FALSE]
  IN /\ Len(sub) < MaxSubs
     /\ sub' = Append(sub, [user |-> o.user, plan |-> o.plan, cust |-> o.cust, state |-> st])
     /\ offers' = offers \ {o}
     /\ Report("completed", o.user, st)
     /\ IF Live(o.user) # {} THEN Upset(o.user, "two") ELSE UNCHANGED upset
     /\ UNCHANGED <<now, users, made, acked, locals, repeats, crashes>>

Change(s, kind, st) ==
  /\ sub[s].state.status # "canceled"
  /\ sub' = [sub EXCEPT ![s].state = st]
  /\ Report(kind, sub[s].user, st)
  /\ UNCHANGED <<now, users, made, offers, acked, locals, upset, repeats, crashes>>

\* The next period opens, whether it could be charged or not.
Renew(s, status) ==
  /\ sub[s].state.end <= now /\ ~sub[s].state.cancel
  /\ Change(s, "updated", [sub[s].state EXCEPT !.end = PeriodEnd, !.status = status])

Settle(s) ==
  /\ sub[s].state.status = "past_due"
  /\ Change(s, "updated", [sub[s].state EXCEPT !.status = "active"])

Cancel(s) == Change(s, "deleted", [sub[s].state EXCEPT !.status = "canceled"])

\* createBillingPortalSession: the portal shows the customer of the account.
BillingPortal(u, s) ==
  /\ customer[u] # 0 /\ sub[s].cust = customer[u] /\ sub[s].user = u
  /\ Change(s, "updated", [sub[s].state EXCEPT !.cancel = ~@])

Tick ==
  /\ now < MaxTime
  /\ now' = now + 1
  /\ UNCHANGED <<users, stripe, locals, history>>

-----------------------------------------------------------------------------
(* The webhook.  An event that is not acknowledged, because the server     *)
(* stopped or was slow, is delivered again, and so may any other be.       *)
(* invoice.payment_failed and unknown events change nothing.               *)

Pending(u) == {e \in DOMAIN log : log[e].user = u /\ e \notin acked}
InFlight(e) == \E p \in Handler : pc[p] \in Webhook /\ arg[p] = e

\* The event of its user that would be next if each came once and in order.
IsNext(e) ==
  /\ e \notin acked
  /\ \A d \in Pending(log[e].user) : e <= d /\ ~InFlight(d)

FirstQueryMutant(ev) ==
  CASE ev.kind = "completed" -> "retrieve"
    [] ev.kind = "updated" /\ ev.state.status = "active" -> "setPlan"
    [] OTHER -> "saveRow"

\* The switch of handleWebhook, to the first query of the handler it calls.
FirstQuery(ev) ==
  CASE ev.kind = "completed" -> "retrieve"
    [] ev.kind = "updated" /\ ev.state.status # "active" -> "saveRow"
    [] OTHER -> "setPlan"

HandleWebhook(p, e) ==
  LET ev == log[e]
      again == e \in acked \/ InFlight(e)
  IN /\ again => Faults < MaxFaults
     /\ repeats' = IF again THEN repeats + 1 ELSE repeats
     /\ IF IsNext(e) THEN UNCHANGED upset ELSE Upset(ev.user, "order")
     /\ Take(p, ev.user, e, ev.state, FirstQuery(ev))
     /\ UNCHANGED <<now, users, stripe, crashes>>

\* handleCheckoutCompleted asks Stripe how the subscription is now.
Retrieve(p) ==
  /\ pc[p] = "retrieve"
  /\ Proceed(p, "setPlan", sub[got[p].sub].state)
  /\ UNCHANGED <<now, users, stripe, history>>

SetPlan(p) ==
  /\ pc[p] = "setPlan"
  /\ IF log[arg[p]].kind = "deleted" THEN WritePlan(usr[p], "FREE", 0)
     ELSE WritePlan(usr[p], sub[got[p].sub].plan, got[p].end)
  /\ Proceed(p, "saveRow", got[p])
  /\ UNCHANGED <<now, customer, row, stripe, history>>

\* The upsert after a checkout; updateMany by the subscription's id otherwise.
SaveRow(p) ==
  LET u == usr[p]
      kind == log[arg[p]].kind
      st == IF kind = "deleted" THEN [row[u] EXCEPT !.status = "canceled"] ELSE got[p]
  IN /\ pc[p] = "saveRow"
     /\ row' = IF kind = "completed" \/ row[u].sub = got[p].sub
               THEN [row EXCEPT ![u] = st] ELSE row
     /\ acked' = acked \cup {arg[p]}
     /\ End(p)
     /\ UNCHANGED <<now, plan, expires, customer, made, offers, sub, log, history>>

Restart ==
  /\ Faults < MaxFaults
  /\ crashes' = crashes + 1
  /\ pc' = [p \in Handler |-> "idle"]
  /\ usr' = [p \in Handler |-> None]
  /\ arg' = [p \in Handler |-> 0]
  /\ got' = [p \in Handler |-> NoState]
  /\ UNCHANGED <<now, users, stripe, upset, repeats>>

PlansNext ==
  \/ \E p \in Handler, u \in User :
       GetUserPlan(p, u) \/ GetPlan(p, u) \/ \E pl \in Paid : Checkout(p, u, pl)
  \/ \E p \in Handler :
       \/ Downgrade(p) \/ NewCustomer(p) \/ SaveCustomer(p) \/ OpenSession(p)
       \/ Retrieve(p) \/ SetPlan(p) \/ SaveRow(p)
       \/ \E e \in DOMAIN log : HandleWebhook(p, e)
  \/ \E u \in User, pl \in Plan, t \in Time : UpdateUserPlan(u, pl, t)
  \/ \E o \in offers : Pay(o)
  \/ \E s \in DOMAIN sub :
       \/ \E status \in {"active", "past_due"} : Renew(s, status)
       \/ Settle(s) \/ Cancel(s)
       \/ \E u \in User : BillingPortal(u, s)
  \/ Tick
  \/ Restart

PlansSpec == PlansInit /\ [][PlansNext]_planVars

-----------------------------------------------------------------------------
(* Properties *)

Settled(u) == Pending(u) = {} /\ \A p \in Handler : usr[p] # u
Undisturbed(u) == \A why \in {"race", "order", "two", "admin"} : <<u, why>> \notin upset

(***************************************************************************)
(* Once the events of a user are handled, who pays has the plan he pays    *)
(* for, until the end of the period he has paid, and his row says so; who  *)
(* has no subscription left has no plan.  A restart between the two writes *)
(* of an event does not break this.  Four things do: an event out of order *)
(* or repeated, a downgrade that read the plan before it was renewed, a    *)
(* second subscription beside the first, and the administrator.            *)
(***************************************************************************)
PlanFollowsStripe ==
  \A u \in User : Settled(u) /\ Undisturbed(u) =>
    /\ \A s \in Live(u) : LET st == sub[s].state IN
         /\ row[u] = st
         /\ st.status = "active" /\ st.end > now =>
              plan[u] = sub[s].plan /\ expires[u] = st.end
    /\ Live(u) = {} => plan[u] = "FREE"

\* The customers created for u that nobody will save, or not last.
Lost(u) ==
  {c \in DOMAIN made : /\ made[c] = u /\ customer[u] # c
                       /\ \A p \in Handler : pc[p] = "saveCustomer" => got[p].sub # c}

(***************************************************************************)
(* Every checkout of an account without a customer creates one, and the    *)
(* last saved wins.  The others, whose subscriptions the account's portal  *)
(* cannot show, are fewer than the requests served at one time, and that   *)
(* many more for every restart.                                            *)
(***************************************************************************)
BoundedLost ==
  \A u \in User :
    Cardinality(Lost(u)) <= Cardinality(Handler) * (crashes + 1) - 1
=============================================================================
