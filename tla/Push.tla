-------------------------------- MODULE Push --------------------------------
(***************************************************************************)
(* Push notifications in one browser: the subscription that the browser    *)
(* holds, the table PushSubscription, which says whose messages go to an   *)
(* endpoint, and the button of the settings page, whose two handlers       *)
(* change the one and the other with awaits in between.  The button is not *)
(* disabled meanwhile.  A logout leaves the subscription on.               *)
(***************************************************************************)
EXTENDS Naturals, FiniteSets

CONSTANTS
  Reader,       \* the users of this browser
  Nobody,       \* no user
  MaxEndpoints, \* bound of the model: subscriptions ever made
  MaxPresses,   \* bound of the model: handlers of the button at one time
  MaxTroubles   \* bound of the model: failures of the network

ASSUME PushAssumption ==
  /\ Nobody \notin Reader
  /\ {MaxEndpoints, MaxPresses, MaxTroubles} \subseteq Nat

VARIABLES
  reader,     \* whose access token the browser has
  endpoint,   \* the subscription of the browser, 0 for none
  made,       \* subscriptions made; those before the present one are dead
  row,        \* PushSubscription: endpoint -> userId, Nobody for no row
  settings,   \* the settings page: open, effect still to run, subscribed
  toggles,    \* handlers of the button under way
  gone,       \* endpoints that answered 410 and are about to be deleted
  troubles,   \* failures so far
  muddled     \* history: the last toggle did not run alone and to its end

pushVars == <<reader, endpoint, made, row, settings, toggles, gone, troubles, muddled>>

Endpoint == 1..MaxEndpoints
Closed == [open |-> FALSE, effect |-> FALSE, subscribed |-> FALSE]

Toggle == [on : BOOLEAN, step : {"key", "save", "saved", "remove", "removed"},
           user : Reader, endpoint : 0..MaxEndpoints, mounted : BOOLEAN]

PushTypeOK ==
  /\ reader \in Reader \cup {Nobody}
  /\ made \in 0..MaxEndpoints /\ endpoint \in {0, made}
  /\ row \in [Endpoint -> Reader \cup {Nobody}]
  /\ settings \in [open : BOOLEAN, effect : BOOLEAN, subscribed : BOOLEAN]
  /\ settings.open => reader # Nobody
  /\ toggles \subseteq Toggle
  /\ gone \subseteq Endpoint \ {endpoint}

PushInit ==
  /\ reader = Nobody /\ endpoint = 0 /\ made = 0
  /\ row = [e \in Endpoint |-> Nobody]
  /\ settings = Closed /\ toggles = {} /\ gone = {}
  /\ troubles = 0 /\ muddled = FALSE

-----------------------------------------------------------------------------
(* The user and the settings page.                                         *)

Unmounted == {[t EXCEPT !.mounted = FALSE] : t \in toggles}

\* Somebody else's subscription may still be there.
LogInHere(u) ==
  /\ reader = Nobody
  /\ reader' = u
  /\ muddled' = (muddled \/ toggles # {} \/ (endpoint # 0 /\ row[endpoint] # u))
  /\ UNCHANGED <<endpoint, made, row, settings, toggles, gone, troubles>>

LogOutHere ==
  /\ reader # Nobody
  /\ reader' = Nobody
  /\ settings' = Closed /\ toggles' = Unmounted
  /\ muddled' = (muddled \/ toggles # {})
  /\ UNCHANGED <<endpoint, made, row, gone, troubles>>

OpenSettings ==
  /\ reader # Nobody /\ ~settings.open
  /\ settings' = [Closed EXCEPT !.open = TRUE, !.effect = TRUE]
  /\ muddled' = (muddled \/ toggles # {})
  /\ UNCHANGED <<reader, endpoint, made, row, toggles, gone, troubles>>

LeaveSettings ==
  /\ settings.open
  /\ settings' = Closed /\ toggles' = Unmounted
  /\ muddled' = (muddled \/ toggles # {})
  /\ UNCHANGED <<reader, endpoint, made, row, gone, troubles>>

\* A new access token runs the effect again.
TokenRenewed ==
  /\ settings.open /\ ~settings.effect
  /\ settings' = [settings EXCEPT !.effect = TRUE]
  /\ UNCHANGED <<reader, endpoint, made, row, toggles, gone, troubles, muddled>>

GetSubscription ==
  /\ settings.effect
  /\ settings' = [settings EXCEPT !.effect = FALSE, !.subscribed = endpoint # 0]
  /\ UNCHANGED <<reader, endpoint, made, row, toggles, gone, troubles, muddled>>

-----------------------------------------------------------------------------
(* The button.                                                             *)

Press(on) ==
  /\ settings.open /\ settings.subscribed = ~on
  /\ Cardinality(toggles) < MaxPresses
  /\ UNCHANGED <<reader, endpoint, made, row, settings, gone, troubles>>

NewToggle(on, step) ==
  [on |-> on, step |-> step, user |-> reader, mounted |-> TRUE,
   endpoint |-> IF on THEN 0 ELSE endpoint]

\* subscribe: the permission, and the public key of the server
SubscribeBegin ==
  /\ Press(TRUE)
  /\ toggles' = toggles \cup {NewToggle(TRUE, "key")}
  /\ muddled' = (toggles # {})

\* pushManager.subscribe: the present subscription, if there is one
Subscribe(t) ==
  /\ t.step = "key"
  /\ IF endpoint # 0 THEN UNCHANGED <<endpoint, made>>
     ELSE /\ made < MaxEndpoints
          /\ made' = made + 1 /\ endpoint' = made'
  /\ toggles' = (toggles \ {t}) \cup {[t EXCEPT !.step = "save", !.endpoint = endpoint']}
  /\ UNCHANGED <<reader, row, settings, gone, troubles, muddled>>

\* The permission is refused, or the server has no key.
NotGranted(t) ==
  /\ t.step = "key"
  /\ toggles' = toggles \ {t}
  /\ muddled' = TRUE
  /\ UNCHANGED <<reader, endpoint, made, row, settings, gone, troubles>>

SaveSubscriptionMutant(t) ==
  /\ t.step = "save"
  /\ row' = IF row[t.endpoint] # Nobody THEN row ELSE [row EXCEPT ![t.endpoint] = t.user]
  /\ toggles' = (toggles \ {t}) \cup {[t EXCEPT !.step = "saved"]}
  /\ UNCHANGED <<reader, endpoint, made, settings, gone, troubles, muddled>>

\* The server: the endpoint is the user's now, whosever it was.
SaveSubscription(t) ==
  /\ t.step = "save"
  /\ row' = [row EXCEPT ![t.endpoint] = t.user]
  /\ toggles' = (toggles \ {t}) \cup {[t EXCEPT !.step = "saved"]}
  /\ UNCHANGED <<reader, endpoint, made, settings, gone, troubles, muddled>>

\* unsubscribe: nothing is done when there is no subscription (any more)
UnsubscribeBegin ==
  /\ Press(FALSE)
  /\ endpoint # 0
  /\ toggles' = toggles \cup {NewToggle(FALSE, "remove")}
  /\ muddled' = (toggles # {})

\* The server: the row goes if it is the user's.
RemoveSubscription(t) ==
  /\ t.step = "remove"
  /\ row' = IF row[t.endpoint] = t.user THEN [row EXCEPT ![t.endpoint] = Nobody] ELSE row
  /\ toggles' = (toggles \ {t}) \cup {[t EXCEPT !.step = "removed"]}
  /\ UNCHANGED <<reader, endpoint, made, settings, gone, troubles, muddled>>

\* The status of the answer is not looked at.  A page that was left shows nothing.
SetSubscribed(t) ==
  /\ t.step \in {"saved", "removed"}
  /\ endpoint' = IF ~t.on /\ endpoint = t.endpoint THEN 0 ELSE endpoint
  /\ settings' = IF t.mounted THEN [settings EXCEPT !.subscribed = t.on] ELSE settings
  /\ toggles' = toggles \ {t}
  /\ UNCHANGED <<reader, made, row, gone, troubles, muddled>>

-----------------------------------------------------------------------------
\* A request is lost, or its answer, and the handler ends; or the server
\* refuses it, of which the handler takes no notice.
Trouble(t) ==
  /\ troubles < MaxTroubles /\ troubles' = troubles + 1
  /\ muddled' = TRUE
  /\ \/ toggles' = toggles \ {t}
     \/ /\ t.step \in {"save", "remove"}
        /\ toggles' = (toggles \ {t})
             \cup {[t EXCEPT !.step = IF t.on THEN "saved" ELSE "removed"]}
  /\ UNCHANGED <<reader, endpoint, made, row, settings, gone>>

\* sendToUser: a message for somebody who is not online.  An endpoint that
\* was unsubscribed answers 410,
SendToUser(u) ==
  LET dead == {e \in Endpoint \ {endpoint} : row[e] = u}
  IN /\ ~(dead \subseteq gone)
     /\ gone' = gone \cup dead
     /\ UNCHANGED <<reader, endpoint, made, row, settings, toggles, troubles, muddled>>

\* and its row is deleted, whosever it is.
DeleteGone(e) ==
  /\ e \in gone
  /\ row' = [row EXCEPT ![e] = Nobody]
  /\ gone' = gone \ {e}
  /\ UNCHANGED <<reader, endpoint, made, settings, toggles, troubles, muddled>>

PushNext ==
  \/ \E u \in Reader : LogInHere(u) \/ SendToUser(u)
  \/ LogOutHere \/ OpenSettings \/ LeaveSettings \/ TokenRenewed \/ GetSubscription
  \/ SubscribeBegin \/ UnsubscribeBegin
  \/ \E t \in toggles :
       \/ Subscribe(t) \/ NotGranted(t) \/ SaveSubscription(t) \/ RemoveSubscription(t)
       \/ SetSubscribed(t) \/ Trouble(t)
  \/ \E e \in gone : DeleteGone(e)

PushSpec == PushInit /\ [][PushNext]_pushVars

-----------------------------------------------------------------------------
(* Properties *)

(***************************************************************************)
(* With the page at rest the button is on exactly if the messages of the   *)
(* user who is logged in go to this browser, also when it was pressed      *)
(* before the page knew of the subscription, or when the endpoint was      *)
(* another user's before.  It may not be so after a failure, after the     *)
(* button was pressed twice or the page left meanwhile, after a permission *)
(* that was refused, and after a login that finds the subscription of      *)
(* another, until the button is pressed once more.                         *)
(***************************************************************************)
ButtonTells ==
  settings.open /\ ~settings.effect /\ toggles = {} /\ ~muddled =>
    (settings.subscribed <=> endpoint # 0 /\ row[endpoint] = reader)
=============================================================================
