------------------------------ MODULE Pairing ------------------------------
(***************************************************************************)
(* WhatsApp pairing sessions of one server process: StartPairingSession,    *)
(* the pairing loop of each session, its delayed cleanup, the cancellation  *)
(* of pairings, the deletion of connections, and the registry of connected  *)
(* sessions.                                                                *)
(*                                                                          *)
(* A session is named by the attempt that created it.  What the WhatsApp    *)
(* client does (codes, scan, errors) is an input; a scan gives the session  *)
(* a device of its own, so connected sessions are named like attempts.      *)
(* Abstracted: QR codes, texts, time (the timeout and the 30 seconds before *)
(* the cleanup end at any moment).                                          *)
(***************************************************************************)
EXTENDS Naturals

CONSTANTS
  Sessions,    \* pairing attempts
  Conns,       \* connection ids
  Phones,      \* phone numbers
  None,
  MaxAdmin     \* bound: deletions

ASSUME PairingAssumption ==
  /\ None \notin Sessions \cup Conns \cup Phones \cup {"new", "paired", "error"}
  /\ "new" \notin Sessions
  /\ MaxAdmin \in Nat

VARIABLES
  pc,         \* stage of each attempt
  sconn, sphone, existing,    \* its connection, phone and isExisting
  cancelled,  \* attempts whose context is done
  verdict,    \* the last event of each: None while pending, then "paired" or "error"
  owed,       \* attempts whose AfterFunc has not run yet
  byConn, byPhone,   \* pairingSessions, keyed by connection id and by phone
  cancels,    \* pairingCancels
  evicted,    \* attempts that lost a key to the cleanup of another one
  jid,        \* rows of connections: None if absent, "new" if never paired, or a session
  connected,  \* the registry of active sessions
  del, deleted   \* deletions under way and their number

sess == <<pc, sconn, sphone, existing>>
maps == <<byConn, byPhone, cancels, evicted>>
vars == <<sess, cancelled, verdict, owed, maps, jid, connected, del, deleted>>

Unsaved == {"setup", "loop", "save"}
Running == Unsaved \cup {"saving", "register"}
Stages  == Running \cup {"unused", "done"}

Rows == {c \in Conns : jid[c] # None}

(* Some connections exist already, not connected. *)
Init ==
  /\ pc = [s \in Sessions |-> "unused"]
  /\ sconn = [s \in Sessions |-> None] /\ sphone = [s \in Sessions |-> None]
  /\ existing = [s \in Sessions |-> FALSE]
  /\ cancelled = {} /\ verdict = [s \in Sessions |-> None] /\ owed = {}
  /\ byConn = [c \in Conns |-> None] /\ byPhone = [p \in Phones |-> None]
  /\ cancels = [c \in Conns |-> None] /\ evicted = {}
  /\ jid \in [Conns -> {None, "new"}]
  /\ connected = {} /\ del = [c \in Conns |-> "idle"] /\ deleted = 0

Go(s, from, to) == pc[s] = from /\ pc' = [pc EXCEPT ![s] = to]

(* delete(m, key) on a map whose absent keys read None; an empty phone has no key. *)
Drop(map, key) == [k \in DOMAIN map |-> IF k = key THEN None ELSE map[k]]
Put(map, key, s) == [k \in DOMAIN map |-> IF k = key THEN s ELSE map[k]]
Found(map, key) == IF key = None THEN None ELSE map[key]

-----------------------------------------------------------------------------
\* Mutant of Start: the session is made without its connection id.
StartNoConnection(s, c, p, again) ==
  /\ Go(s, "unused", "setup")
  /\ ~again => c \notin Rows /\ \A t \in Sessions : sconn[t] # c
  /\ sphone' = [sphone EXCEPT ![s] = p]
  /\ existing' = [existing EXCEPT ![s] = again]
  /\ byConn' = Put(byConn, c, s) /\ cancels' = Put(cancels, c, s)
  /\ byPhone' = Put(byPhone, p, s)
  /\ UNCHANGED <<sconn, cancelled, verdict, owed, evicted, jid, connected, del, deleted>>

\* Mutant of Start: the session found under the phone is only cancelled if
\* it is also the one of the connection.
StartKeepsPhone(s, c, p, again) ==
  /\ Go(s, "unused", "setup")
  /\ ~again => c \notin Rows /\ \A t \in Sessions : sconn[t] # c
  /\ sconn' = [sconn EXCEPT ![s] = c]
  /\ sphone' = [sphone EXCEPT ![s] = p]
  /\ existing' = [existing EXCEPT ![s] = again]
  /\ cancelled' = cancelled \cup ({byConn[c]} \ {None})
  /\ byConn' = Put(byConn, c, s) /\ cancels' = Put(cancels, c, s)
  /\ byPhone' = Put(Drop(byPhone, Found(sphone, byConn[c])), p, s)
  /\ UNCHANGED <<verdict, owed, evicted, jid, connected, del, deleted>>

(* StartPairingSession, under the mutex: a session found under the phone or,
   after that, under the connection is cancelled and its keys are deleted;
   then the new one is entered.  Without existingConnID the connection id is
   fresh; an existing one is not looked up.  The limit on connections is
   compared before the lock and reserves nothing.                           *)
Start(s, c, p, again) ==
  LET old1 == Found(byPhone, p)
      gone == Found(sconn, old1)
      old2 == IF c = gone THEN None ELSE byConn[c]
      lost == Found(sphone, old2)
  IN
  /\ Go(s, "unused", "setup")
  /\ ~again => c \notin Rows /\ \A t \in Sessions : sconn[t] # c
  /\ sconn' = [sconn EXCEPT ![s] = c]
  /\ sphone' = [sphone EXCEPT ![s] = p]
  /\ existing' = [existing EXCEPT ![s] = again]
  /\ cancelled' = cancelled \cup ({old1, old2} \ {None})
  /\ byConn' = Put(Drop(byConn, gone), c, s)
  /\ cancels' = Put(Drop(cancels, gone), c, s)
  /\ byPhone' = Put(Drop(byPhone, lost), p, s)
  /\ UNCHANGED <<verdict, owed, evicted, jid, connected, del, deleted>>

(* cleanupSession: deletes the keys of s, whoever holds them by now. *)
Forget(s) ==
  /\ byConn' = Drop(byConn, sconn[s])
  /\ cancels' = Drop(cancels, sconn[s])
  /\ byPhone' = Drop(byPhone, sphone[s])
  /\ evicted' = evicted \cup ({Found(byConn, sconn[s]), Found(byPhone, sphone[s])} \ {s, None})

(* CreateClient, GetQRChannel or Connect fails. *)
SetupFails(s) ==
  /\ Go(s, "setup", "done")
  /\ Forget(s)
  /\ cancelled' = cancelled \cup {s}
  /\ UNCHANGED <<sconn, sphone, existing, verdict, owed, jid, connected, del, deleted>>

SetupOk(s) ==
  /\ Go(s, "setup", "loop")
  /\ UNCHANGED <<sconn, sphone, existing, cancelled, verdict, owed, maps, jid, connected,
                 del, deleted>>

-----------------------------------------------------------------------------
(* runPairingLoop.                                                          *)

\* Mutant of Close: the loop returns without its deferred cleanup.
CloseForgetsCleanup(s, from, event) ==
  /\ Go(s, from, "done")
  /\ verdict' = [verdict EXCEPT ![s] = event]
  /\ UNCHANGED owed

(* closeWithEvent and return: the cleanup is due in 30 seconds. *)
Close(s, from, event) ==
  /\ Go(s, from, "done")
  /\ verdict' = [verdict EXCEPT ![s] = event]
  /\ owed' = owed \cup {s}

(* Cancelled, timed out, or an error from the client; a code changes nothing
   here but the timer.                                                      *)
LoopFails(s) ==
  /\ Close(s, "loop", "error")
  /\ UNCHANGED <<sconn, sphone, existing, cancelled, maps, jid, connected, del, deleted>>

(* The code is scanned; a select may choose it although the context is done. *)
Scanned(s) ==
  /\ Go(s, "loop", "save")
  /\ UNCHANGED <<sconn, sphone, existing, cancelled, verdict, owed, maps, jid, connected,
                 del, deleted>>

\* Mutant of SaveBegins: the statement has a context of its own.
SaveBeginsDetached(s) ==
  /\ Go(s, "save", "saving")
  /\ UNCHANGED <<sconn, sphone, existing, cancelled, verdict, owed, maps, jid, connected,
                 del, deleted>>

(* onPairingSuccess begins its statement, under the context of the session:
   once that is done there is none.                                         *)
SaveBegins(s) ==
  /\ Go(s, "save", "saving")
  /\ s \notin cancelled
  /\ UNCHANGED <<sconn, sphone, existing, cancelled, verdict, owed, maps, jid, connected,
                 del, deleted>>

(* UPDATE of the existing row, which may be gone, or a new row. *)
Saved(s) ==
  IF existing[s] /\ jid[sconn[s]] = None THEN jid ELSE [jid EXCEPT ![sconn[s]] = s]

(* It succeeds, perhaps although it was cancelled meanwhile. *)
Save(s) ==
  /\ Go(s, "saving", "register")
  /\ jid' = Saved(s)
  /\ UNCHANGED <<sconn, sphone, existing, cancelled, verdict, owed, maps, connected, del,
                 deleted>>

(* It returns an error: the context is done, or the statement fails or is
   cut off, and then it may have been committed all the same.               *)
SaveFails(s) ==
  /\ \/ Close(s, "save", "error") /\ s \in cancelled /\ UNCHANGED jid
     \/ Close(s, "saving", "error") /\ jid' \in {jid, Saved(s)}
  /\ UNCHANGED <<sconn, sphone, existing, cancelled, maps, connected, del, deleted>>

(* registry.Add, then the final event. *)
Connect(s) ==
  /\ Close(s, "register", "paired")
  /\ connected' = connected \cup {s}
  /\ UNCHANGED <<sconn, sphone, existing, cancelled, maps, jid, del, deleted>>

(* The delayed cleanupSession. *)
Cleanup(s) ==
  /\ s \in owed
  /\ owed' = owed \ {s}
  /\ Forget(s)
  /\ UNCHANGED <<sess, cancelled, verdict, jid, connected, del, deleted>>

(* wc.Run ends: registry.Remove. *)
Disconnect(s) ==
  /\ s \in connected
  /\ connected' = connected \ {s}
  /\ UNCHANGED <<sess, cancelled, verdict, owed, maps, jid, del, deleted>>

-----------------------------------------------------------------------------
(* DELETE /connections/:id and DELETE /admin/devices/:id.                   *)

(* DisconnectByJID for the row as it was read; the admin console goes on to
   remove the row and cancels no pairing.                                   *)
DeleteRead(c, next) ==
  /\ del[c] = "idle" /\ c \in Rows /\ deleted < MaxAdmin
  /\ del' = [del EXCEPT ![c] = next]
  /\ deleted' = deleted + 1
  /\ connected' = connected \ {jid[c]}
  /\ UNCHANGED <<sess, cancelled, verdict, owed, maps, jid>>

CancelPairing(c) ==
  /\ del[c] = "cancel"
  /\ del' = [del EXCEPT ![c] = "phone"]
  /\ cancelled' = cancelled \cup ({cancels[c]} \ {None})
  /\ cancels' = Drop(cancels, c)
  /\ byConn' = Drop(byConn, c)
  /\ byPhone' = Drop(byPhone, Found(sphone, byConn[c]))
  /\ UNCHANGED <<sess, verdict, owed, evicted, jid, connected, deleted>>

(* p is the sender_identity of the row: the number of the device scanned
   last, which may be any, or empty.                                        *)
CancelPairingByPhone(c, p) ==
  LET s == Found(byPhone, p) IN
  /\ del[c] = "phone"
  /\ del' = [del EXCEPT ![c] = "remove"]
  /\ cancelled' = cancelled \cup ({s} \ {None})
  /\ cancels' = Drop(cancels, Found(sconn, s))
  /\ byConn' = Drop(byConn, Found(sconn, s))
  /\ byPhone' = Drop(byPhone, p)
  /\ UNCHANGED <<sess, verdict, owed, evicted, jid, connected, deleted>>

(* The row is deleted, or the statement fails. *)
DeleteRow(c) ==
  /\ del[c] = "remove"
  /\ del' = [del EXCEPT ![c] = "idle"]
  /\ jid' \in {jid, [jid EXCEPT ![c] = None]}
  /\ UNCHANGED <<sess, cancelled, verdict, owed, maps, connected, deleted>>

-----------------------------------------------------------------------------
LoopStep(s) == \/ SetupOk(s) \/ SetupFails(s) \/ LoopFails(s) \/ Scanned(s)
               \/ SaveBegins(s) \/ Save(s) \/ SaveFails(s) \/ Connect(s)

DeleteStep(c) == \/ CancelPairing(c) \/ DeleteRow(c)
                 \/ \E p \in Phones \cup {None} : CancelPairingByPhone(c, p)

Next ==
  \/ \E s \in Sessions :
       \/ \E c \in Conns, p \in Phones \cup {None}, again \in BOOLEAN : Start(s, c, p, again)
       \/ LoopStep(s) \/ Cleanup(s) \/ Disconnect(s)
  \/ \E c \in Conns : DeleteStep(c) \/ \E next \in {"cancel", "remove"} : DeleteRead(c, next)

Spec == Init /\ [][Next]_vars

(* A loop ends at its timeout at the latest, and a timer that was set fires. *)
FairSpec == Spec /\ \A s \in Sessions : WF_vars(LoopStep(s)) /\ WF_vars(Cleanup(s))

-----------------------------------------------------------------------------
AttemptType ==
  /\ pc \in [Sessions -> Stages]
  /\ sconn \in [Sessions -> Conns \cup {None}]
  /\ sphone \in [Sessions -> Phones \cup {None}]
  /\ existing \in [Sessions -> BOOLEAN]
  /\ verdict \in [Sessions -> {None, "paired", "error"}]
  /\ \A s \in Sessions : pc[s] # "unused" => sconn[s] \in Conns

MapType ==
  /\ byConn \in [Conns -> Sessions \cup {None}]
  /\ cancels \in [Conns -> Sessions \cup {None}]
  /\ byPhone \in [Phones -> Sessions \cup {None}]

SetType ==
  /\ cancelled \subseteq Sessions /\ owed \subseteq Sessions
  /\ evicted \subseteq Sessions /\ connected \subseteq Sessions

RowType ==
  /\ jid \in [Conns -> Sessions \cup {None, "new"}]
  /\ del \in [Conns -> {"idle", "cancel", "phone", "remove"}]
  /\ deleted \in 0..MaxAdmin

(* Every variable holds a value of its kind, and an attempt that was started
   has the connection it pairs.                                             *)
TypeOK == AttemptType /\ MapType /\ SetType /\ RowType

(* The maps and the pairing loops agree: a loop that runs and was not
   cancelled is the one found under its connection and under its phone, so a
   second attempt or a deletion cancels it and no connection has two loops.
   The single exception is the cleanup of an earlier attempt with the same
   key (cleanupSession in StartPairingSession and runPairingLoop), which
   removes the entries of its successor.                                    *)
LoopIsReachable ==
  evicted = {} =>
    \A s \in Sessions :
      pc[s] \in Running /\ s \notin cancelled =>
        /\ byConn[sconn[s]] = s /\ cancels[sconn[s]] = s
        /\ sphone[s] # None => byPhone[sphone[s]] = s

(* A pairing that was cancelled, by another attempt or by a deletion, before
   its row began to be written leaves nothing behind: no row ever names its
   device and no session of it is ever connected, although its loop may still
   choose the scan over the cancellation and go on to onPairingSuccess.
   Later cancellations promise nothing: a statement under way may commit,
   and be reported as an error or as a success.                             *)
CancelledLeavesNothing ==
  \A s \in Sessions :
    [](s \in cancelled /\ pc[s] \in Unsaved =>
         [](s \notin connected /\ \A c \in Conns : jid[c] # s))

(* Every attempt ends and is then forgotten by the manager, whatever it is
   cancelled or replaced by (the deferred AfterFunc of runPairingLoop).     *)
Forgotten ==
  \A s \in Sessions :
    pc[s] # "unused" ~> /\ pc[s] = "done"
                        /\ \A c \in Conns : byConn[c] # s /\ cancels[c] # s
                        /\ \A p \in Phones : byPhone[p] # s
=============================================================================
