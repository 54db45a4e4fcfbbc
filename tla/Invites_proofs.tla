---------------------------- MODULE Invites_proofs ----------------------------
(***************************************************************************)
(* Proofs about Invites: types, what a completed invite has granted, who   *)
(* is a member, and that a rejection stands.                               *)
(*                                                                         *)
(* A completion writes, at the end, what it decided from reads made        *)
(* before, so the invariant says of every request what it knows about the  *)
(* tables (Fits): its invite exists, or is not made yet; what it read as   *)
(* completed is granted; what its checks found is still there.  That no    *)
(* other request spoils it is one lemma (OthersFit): memberships only grow *)
(* until somebody removes one, and an invite keeps its pub and form.       *)
(***************************************************************************)
EXTENDS Invites, TLAPS

Exists(i) == invites[i] # NoInvite

\* What CompletedIsGranted promises of one invite.
Granted(i) ==
    /\ community # {} /\ pubMembers[invites[i].pub] # {}
    /\ i \notin useless => invites[i].form \in community \intersect pubMembers[invites[i].pub]

Answered == \E i \in Ids : Exists(i) /\ invites[i].status # "pending"

Intact == "removed" \notin edited

AnswerSteps == {"mark accepted", "mark rejected", "complete"} \union Completing

\* What a request in state u knows of the tables.
Fits(u) ==
    /\ u.at = "commit mail" => ~Exists(u.invite)
    /\ u.at = "grant access" /\ "added" \notin edited => Answered
    /\ u.at \in AnswerSteps =>
           Exists(u.invite) /\ (Intact /\ u.seen = "completed" => Granted(u.invite))
    /\ u.at = "check pub" /\ Intact => community # {}
    /\ u.at = "skip" /\ Intact => community # {} /\ pubMembers[invites[u.invite].pub] # {}

\* No two mails make the same invite.
MailsDiffer ==
    \A r \in Requests : \A s \in Requests \ {r} :
        req[r].at = "commit mail" /\ req[s].at = "commit mail" => req[r].invite # req[s].invite

IInv ==
    /\ TypeOK
    /\ \A r \in Requests : Fits(req[r])
    /\ MailsDiffer
    /\ CompletedIsGranted
    /\ MembersWereInvited

\* What every step does to the tables.
Keep ==
    /\ \A i \in Ids : Exists(i) =>
           /\ Exists(i)' /\ invites'[i].pub = invites[i].pub /\ invites'[i].form = invites[i].form
           /\ invites[i].status # "pending" => invites'[i].status # "pending"
    /\ edited \subseteq edited'
    /\ Intact' => community \subseteq community' /\ \A p \in Pubs : pubMembers[p] \subseteq pubMembers'[p]
    /\ \A i \in useless \ useless' :
           invites'[i].form \in community' \intersect pubMembers'[invites'[i].pub]

-----------------------------------------------------------------------------
(* Types *)

LEMMA TypeInit == Init => TypeOK
  BY InvitesAssumption DEF Init, TypeOK

\* A state of a request, by the step it is at.
LEMMA States ==
    ASSUME NEW u \in {Idle} \union Mailing \union Answering
    PROVE  /\ u.at = "idle" => u = Idle
           /\ u.at \in {"grant access", "find user", "insert", "commit mail"} =>
                  u \in Mailing /\ u.pub \in Pubs /\ u.form \in Forms
           /\ u.at \in {"insert", "commit mail"} => u.known \in BOOLEAN
           /\ u.at = "commit mail" => u.invite \in Ids
           /\ u.at \in AnswerSteps => u \in Answering /\ u.invite \in Ids /\ u.seen \in ValidStatuses
           /\ u.at \in {"complete"} \union Completing => u.signup \in BOOLEAN
<1>1. CASE u = Idle
  BY <1>1 DEF Idle, Completing, AnswerSteps
<1>2. CASE u \in Mailing
  BY <1>2 DEF Mailing, Completing, AnswerSteps
<1>3. CASE u \in Answering
  BY <1>3 DEF Answering, Completing, AnswerSteps
<1> QED
  BY <1>1, <1>2, <1>3

\* A completion moves on.
LEMMA Advance ==
    ASSUME NEW u \in Answering, u.at \in {"complete"} \union Completing, NEW x \in Completing
    PROVE  LET v == [u EXCEPT !.at = x]
           IN  /\ v \in Answering /\ v.at = x
               /\ v.invite = u.invite /\ v.seen = u.seen /\ v.signup = u.signup
<1>1. u \in [at : {"complete"} \union Completing, invite : Ids, seen : ValidStatuses, signup : BOOLEAN]
  BY DEF Answering, Completing
<1> QED
  BY <1>1 DEF Answering

LEMMA InviteType ==
    ASSUME NEW v \in Invite \union {NoInvite}, v # NoInvite
    PROVE  /\ v.pub \in Pubs /\ v.form \in Forms /\ v.status \in Statuses
           /\ \A x \in Statuses : LET w == [v EXCEPT !.status = x]
                                 IN  /\ w \in Invite /\ w # NoInvite /\ w.status = x
                                     /\ w.pub = v.pub /\ w.form = v.form
  BY InvitesAssumption DEF Invite, Statuses

\* The states requests get into.
LEMMA NewStates ==
    /\ \A p \in Pubs, f \in Forms :
           /\ \A x \in {"grant access", "find user"} :
                  [at |-> x, pub |-> p, form |-> f] \in Mailing
           /\ \A k \in BOOLEAN :
                  /\ [at |-> "insert", pub |-> p, form |-> f, known |-> k] \in Mailing
                  /\ \A i \in Ids : [at |-> "commit mail", pub |-> p, form |-> f, known |-> k,
                                     invite |-> i] \in Mailing
    /\ \A i \in Ids, s \in ValidStatuses :
           /\ \A x \in {"mark accepted", "mark rejected"} :
                  [at |-> x, invite |-> i, seen |-> s] \in Answering
           /\ \A b \in BOOLEAN :
                  [at |-> "complete", invite |-> i, seen |-> s, signup |-> b] \in Answering
  BY DEF Mailing, Answering

LEMMA TypeNext == TypeOK /\ (\A r \in Requests : Fits(req[r])) /\ [Next]_vars => TypeOK'
<1> SUFFICES ASSUME TypeOK, \A r \in Requests : Fits(req[r]), [Next]_vars PROVE TypeOK'
  OBVIOUS
<1> USE DEF TypeOK, Becomes, memberships, ghosts
<1>1. ASSUME NEW r \in Requests, StartMail(r) \/ FindUser(r) PROVE TypeOK'
  <2>1. PICK u \in Mailing : req' = [req EXCEPT ![r] = u]
    <3>1. CASE StartMail(r)
      <4>1. PICK p \in Pubs, f \in Forms :
                req' = [req EXCEPT ![r] = [at |-> IF community = {} THEN "find user"
                                                  ELSE "grant access", pub |-> p, form |-> f]]
        BY <3>1 DEF StartMail
      <4> QED
        BY <4>1, NewStates
    <3>2. CASE FindUser(r)
      <4>1. req[r].pub \in Pubs /\ req[r].form \in Forms
        BY <3>2, States DEF FindUser
      <4> QED
        BY <3>2, <4>1, NewStates DEF FindUser
    <3> QED
      BY <1>1, <3>1, <3>2
  <2> QED
    BY <1>1, <2>1 DEF StartMail, FindUser
<1>2. ASSUME NEW r \in Requests, GrantAccess(r) PROVE TypeOK'
  <2>1. req[r].pub \in Pubs /\ req[r].form \in Rows
    BY <1>2, States DEF GrantAccess, Rows
  <2> QED
    BY <1>2, <2>1 DEF GrantAccess
<1>3. ASSUME NEW r \in Requests, InsertInvite(r) PROVE TypeOK'
  <2>1. req[r].pub \in Pubs /\ req[r].form \in Forms /\ req[r].known \in BOOLEAN
    BY <1>3, States DEF InsertInvite
  <2>2. PICK i \in Ids :
            /\ req' = [req EXCEPT ![r] = [at |-> "commit mail", pub |-> req[r].pub,
                          form |-> req[r].form, known |-> req[r].known, invite |-> i]]
            /\ mailed' \in {mailed, mailed \union {i}}
    BY <1>3 DEF InsertInvite
  <2>3. mailed' \subseteq Ids
    BY <2>2
  <2>4. req' \in [Requests -> {Idle} \union Mailing \union Answering]
    BY <2>1, <2>2, NewStates
  <2> QED
    BY <1>3, <2>3, <2>4 DEF InsertInvite
<1>4. ASSUME NEW r \in Requests, CommitMail(r) PROVE TypeOK'
  <2>1. req[r].pub \in Pubs /\ req[r].form \in Forms
    BY <1>4, States DEF CommitMail
  <2> QED
    BY <1>4, <2>1 DEF CommitMail, Invite, Statuses
<1>5. ASSUME NEW r \in Requests, Accept(r) \/ Reject(r) \/ SignUp(r) PROVE TypeOK'
  <2>1. PICK u \in Answering : req' = [req EXCEPT ![r] = u]
    BY <1>5, NewStates DEF Accept, Reject, SignUp, Valid
  <2> QED
    BY <1>5, <2>1 DEF Accept, Reject, SignUp
<1>6. ASSUME NEW r \in Requests, MarkAccepted(r) \/ MarkRejected(r) PROVE TypeOK'
  <2>1. req[r].invite \in Ids /\ invites[req[r].invite] # NoInvite
    BY <1>6, States DEF MarkAccepted, MarkRejected, Fits, Exists, AnswerSteps
  <2>2. \A x \in Statuses : [invites[req[r].invite] EXCEPT !.status = x] \in Invite
    BY <2>1, InviteType
  <2>3. invites' \in [Ids -> Invite \union {NoInvite}]
    BY <1>6, <2>1, <2>2 DEF MarkAccepted, MarkRejected, SetStatus, Statuses
  <2> QED
    BY <1>6, <2>3 DEF MarkAccepted, MarkRejected
<1>7. ASSUME NEW r \in Requests, SetCompleted(r) \/ CheckCommunity(r) \/ CheckPub(r) PROVE TypeOK'
  <2>1. req[r] \in Answering /\ req[r].at \in {"complete"} \union Completing
    BY <1>7, States DEF SetCompleted, CheckCommunity, CheckPub, AnswerSteps, Completing
  <2>2. PICK x \in Completing : req' = [req EXCEPT ![r] = [req[r] EXCEPT !.at = x]]
    BY <1>7 DEF SetCompleted, CheckCommunity, CheckPub, Completing
  <2> QED
    BY <1>7, <2>1, <2>2, Advance DEF SetCompleted, CheckCommunity, CheckPub
<1>8. ASSUME NEW r \in Requests, Grant(r) \/ Skip(r) PROVE TypeOK'
  <2>1. req[r].invite \in Ids /\ invites[req[r].invite] # NoInvite
    BY <1>8, States DEF Grant, Skip, Fits, Exists, AnswerSteps, Completing
  <2>2. \A x \in Statuses : [invites[req[r].invite] EXCEPT !.status = x] \in Invite
    BY <2>1, InviteType
  <2>3. invites' \in [Ids -> Invite \union {NoInvite}]
    BY <1>8, <2>1, <2>2 DEF Grant, Skip, SetStatus, Statuses
  <2>4. invites[req[r].invite].form \in Rows /\ invites[req[r].invite].pub \in Pubs
    BY <2>1, InviteType DEF Rows
  <2>5. community' \subseteq Rows /\ pubMembers' \in [Pubs -> SUBSET Rows]
    BY <1>8, <2>4 DEF Grant, Skip
  <2>6. account' \in {"none", "provisional", "registered"} /\ useless' \subseteq Ids
    BY <1>8, <2>1 DEF Grant, Skip
  <2> QED
    BY <1>8, <2>3, <2>5, <2>6 DEF Grant, Skip
<1>9. ASSUME NEW r \in Requests, Abort(r) PROVE TypeOK'
  BY <1>9 DEF Abort
<1>10. ASSUME Register \/ Add \/ Replace PROVE TypeOK'
  <2>1. \A new \in MemberRows \union {{}} : new \subseteq Rows
    BY DEF MemberRows, Rows
  <2>2. Edit({"added"}) \/ Edit({"added", "removed"})
    BY <1>10 DEF Register, Add, Replace
  <2>3. edits' \in 0..MaxEdits
    BY <2>2, InvitesAssumption DEF Edit
  <2>4. edited' \subseteq {"added", "removed"}
    BY <2>2 DEF Edit
  <2>5. community' \subseteq Rows /\ pubMembers' \in [Pubs -> SUBSET Rows]
    BY <1>10, <2>1 DEF Register, Add, Replace
  <2> QED
    BY <1>10, <2>3, <2>4, <2>5 DEF Register, Add, Replace
<1>11. ASSUME UNCHANGED vars PROVE TypeOK'
  BY <1>11 DEF vars
<1> QED
  BY <1>1, <1>2, <1>3, <1>4, <1>5, <1>6, <1>7, <1>8, <1>9, <1>10, <1>11
     DEF Next, Mail, Answer, Complete

-----------------------------------------------------------------------------
(* The tables *)

\* Steps that leave the memberships and invites alone.
Quiet == UNCHANGED <<community, pubMembers, invites, edited, useless>>

LEMMA QuietSteps ==
    ASSUME NEW r \in Requests,
           StartMail(r) \/ FindUser(r) \/ InsertInvite(r) \/ Accept(r) \/ Reject(r) \/ SignUp(r)
               \/ SetCompleted(r) \/ CheckCommunity(r) \/ CheckPub(r) \/ Abort(r)
    PROVE  Quiet
  BY DEF StartMail, FindUser, InsertInvite, Accept, Reject, SignUp, SetCompleted, CheckCommunity,
         CheckPub, Abort, Quiet, memberships, ghosts

\* What a new status leaves of the invites.
LEMMA SetStatusKeeps ==
    ASSUME TypeOK, NEW i \in Ids, Exists(i), NEW x \in Statuses, x # "pending", SetStatus(i, x)
    PROVE  /\ Exists(i)' /\ invites'[i].status = x
           /\ \A j \in Ids : j # i => invites'[j] = invites[j]
           /\ invites'[i].pub = invites[i].pub /\ invites'[i].form = invites[i].form
<1>1. invites[i] \in Invite \union {NoInvite} /\ invites[i] # NoInvite
  BY DEF TypeOK, Exists
<1> DEFINE w == [invites[i] EXCEPT !.status = x]
<1>2. w # NoInvite /\ w.status = x /\ w.pub = invites[i].pub /\ w.form = invites[i].form
  BY <1>1, InviteType
<1>3. invites'[i] = w /\ \A j \in Ids : j # i => invites'[j] = invites[j]
  BY DEF TypeOK, SetStatus
<1> QED
  BY <1>2, <1>3 DEF Exists

\* The request of an answer names an invite.
LEMMA AnswersName ==
    ASSUME TypeOK, NEW r \in Requests, Fits(req[r]), req[r].at \in AnswerSteps
    PROVE  /\ req[r].invite \in Ids /\ Exists(req[r].invite)
           /\ invites[req[r].invite].pub \in Pubs /\ invites[req[r].invite].form \in Forms
<1>1. req[r].invite \in Ids /\ Exists(req[r].invite)
  BY States DEF TypeOK, Fits
<1>2. invites[req[r].invite] \in Invite \union {NoInvite} /\ invites[req[r].invite] # NoInvite
  BY <1>1 DEF TypeOK, Exists
<1> QED
  BY <1>1, <1>2, InviteType

LEMMA KeepNext == IInv /\ [Next]_vars => Keep
<1> SUFFICES ASSUME IInv, [Next]_vars PROVE Keep
  OBVIOUS
<1> TypeOK
  BY DEF IInv
<1>1. ASSUME Quiet PROVE Keep
  BY <1>1 DEF Keep, Quiet, Exists, Intact
<1>2. ASSUME NEW r \in Requests, GrantAccess(r) PROVE Keep
  BY <1>2 DEF Keep, GrantAccess, Exists, Intact, TypeOK, ghosts
<1>3. ASSUME NEW r \in Requests, CommitMail(r) PROVE Keep
  <2>1. ~Exists(req[r].invite)
    BY <1>3 DEF IInv, Fits, CommitMail
  <2>2. \A i \in Ids : Exists(i) => invites'[i] = invites[i]
    BY <1>3, <2>1 DEF CommitMail, Exists, TypeOK
  <2> QED
    BY <1>3, <2>2 DEF Keep, CommitMail, Exists, Intact, memberships, ghosts
<1>4. ASSUME NEW r \in Requests, MarkAccepted(r) \/ MarkRejected(r) PROVE Keep
  <2>1. PICK i \in Ids : i = req[r].invite /\ Exists(i)
    BY <1>4, AnswersName DEF MarkAccepted, MarkRejected, AnswerSteps, IInv
  <2>2. PICK x \in {"accepted", "rejected"} : SetStatus(i, x)
    BY <1>4, <2>1 DEF MarkAccepted, MarkRejected
  <2>3. /\ Exists(i)' /\ invites'[i].status # "pending"
        /\ \A j \in Ids : j # i => invites'[j] = invites[j]
        /\ invites'[i].pub = invites[i].pub
        /\ invites'[i].form = invites[i].form
    BY <2>1, <2>2, SetStatusKeeps DEF Statuses, Exists
  <2>4. UNCHANGED <<community, pubMembers, edited, useless>>
    BY <1>4 DEF MarkAccepted, MarkRejected, memberships, ghosts
  <2> QED
    BY <2>1, <2>3, <2>4 DEF Keep, Exists, Intact
<1>5. ASSUME NEW r \in Requests, Grant(r) \/ Skip(r) PROVE Keep
  <2>1. PICK i \in Ids : i = req[r].invite /\ Exists(i) /\ invites[i].pub \in Pubs
    BY <1>5, AnswersName DEF Grant, Skip, AnswerSteps, Completing, IInv
  <2>2. SetStatus(i, "completed")
    BY <1>5, <2>1 DEF Grant, Skip
  <2>3. /\ Exists(i)' /\ invites'[i].status # "pending"
        /\ \A j \in Ids : j # i => invites'[j] = invites[j]
        /\ invites'[i].pub = invites[i].pub
        /\ invites'[i].form = invites[i].form
    BY <2>1, <2>2, SetStatusKeeps DEF Statuses, Exists
  <2>4. \A j \in Ids : Exists(j) =>
            /\ Exists(j)' /\ invites'[j].pub = invites[j].pub /\ invites'[j].form = invites[j].form
            /\ invites[j].status # "pending" => invites'[j].status # "pending"
    BY <2>1, <2>3 DEF Exists
  <2>5. CASE Grant(r)
    <3>1. /\ community \subseteq community' /\ edited' = edited
          /\ \A p \in Pubs : pubMembers[p] \subseteq pubMembers'[p]
          /\ invites[i].form \in
                 community' \intersect pubMembers'[invites[i].pub]
          /\ useless' = useless \ {i}
      BY <2>1, <2>5 DEF Grant, TypeOK
    <3> QED
      BY <2>3, <2>4, <3>1 DEF Keep
  <2>6. CASE Skip(r)
    BY <2>4, <2>6 DEF Keep, Skip, memberships
  <2> QED
    BY <1>5, <2>5, <2>6
<1>6. ASSUME Register \/ Add \/ Replace PROVE Keep
  <2>1. UNCHANGED <<invites, useless>> /\ edited \subseteq edited'
    BY <1>6 DEF Register, Add, Replace, Edit
  <2>2. CASE Register
    BY <2>1, <2>2 DEF Keep, Register, Exists
  <2>3. CASE Add
    BY <2>1, <2>3 DEF Keep, Add, Exists, TypeOK
  <2>4. CASE Replace
    BY <2>1, <2>4 DEF Keep, Replace, Edit, Exists, Intact
  <2> QED
    BY <1>6, <2>2, <2>3, <2>4
<1>7. ASSUME UNCHANGED vars PROVE Keep
  BY <1>7, <1>1 DEF vars, Quiet
<1> QED
  BY <1>1, <1>2, <1>3, <1>4, <1>5, <1>6, <1>7, QuietSteps DEF Next, Mail, Answer, Complete

LEMMA AnsweredKept == Keep /\ Answered => Answered'
  BY DEF Keep, Answered, Exists

LEMMA GrantedKept ==
    ASSUME TypeOK, Keep, Intact', NEW i \in Ids, Exists(i), Granted(i)
    PROVE  Granted(i)'
<1>1. invites[i].pub \in Pubs
  <2>1. invites[i] \in Invite \union {NoInvite} /\ invites[i] # NoInvite
    BY DEF TypeOK, Exists
  <2> QED
    BY <2>1, InviteType
<1>2. /\ invites'[i].pub = invites[i].pub /\ invites'[i].form = invites[i].form
      /\ community \subseteq community' /\ pubMembers[invites[i].pub] \subseteq pubMembers'[invites[i].pub]
  BY <1>1 DEF Keep
<1>3. i \in useless \ useless' =>
          invites'[i].form \in community' \intersect pubMembers'[invites'[i].pub]
  BY DEF Keep
<1> QED
  BY <1>2, <1>3 DEF Granted

-----------------------------------------------------------------------------
(* What requests know *)

\* Nobody spoils what another request knows.
LEMMA OthersFit ==
    ASSUME IInv, Keep, NEW s \in Requests, req'[s] = req[s],
           req[s].at = "commit mail" => ~Exists(req[s].invite)'
    PROVE  Fits(req[s])'
<1> TypeOK /\ Fits(req[s])
  BY DEF IInv
<1>1. Intact' => Intact
  BY DEF Keep, Intact
<1>2. "added" \notin edited' => "added" \notin edited
  BY DEF Keep
<1>3. req'[s].at = "commit mail" => ~Exists(req[s].invite)'
  OBVIOUS
<1>4. req'[s].at = "grant access" /\ "added" \notin edited' => Answered'
  BY <1>2, AnsweredKept DEF Fits
<1>5. req'[s].at \in AnswerSteps =>
          /\ Exists(req[s].invite)'
          /\ Intact' /\ req'[s].seen = "completed" => Granted(req[s].invite)'
  <2> SUFFICES ASSUME req[s].at \in AnswerSteps
               PROVE  /\ Exists(req[s].invite)'
                      /\ Intact' /\ req'[s].seen = "completed" => Granted(req[s].invite)'
    OBVIOUS
  <2>1. PICK i \in Ids : i = req[s].invite /\ Exists(i)
    BY AnswersName
  <2>2. Exists(i)'
    BY <2>1 DEF Keep
  <2>3. Intact' /\ req[s].seen = "completed" => Granted(i)'
    BY <1>1, <2>1, GrantedKept DEF Fits
  <2> QED
    BY <2>1, <2>2, <2>3 DEF Exists, Granted
<1>6. req'[s].at = "check pub" /\ Intact' => community' # {}
  BY <1>1 DEF Fits, Keep
<1>7. req'[s].at = "skip" /\ Intact' =>
          community' # {} /\ pubMembers'[invites'[req'[s].invite].pub] # {}
  <2> SUFFICES ASSUME req[s].at = "skip", Intact'
               PROVE  community' # {} /\ pubMembers'[invites'[req[s].invite].pub] # {}
    OBVIOUS
  <2>1. PICK i \in Ids : i = req[s].invite /\ Exists(i) /\ invites[i].pub \in Pubs
    BY AnswersName DEF AnswerSteps, Completing
  <2>2. community # {} /\ pubMembers[invites[i].pub] # {}
    BY <1>1, <2>1 DEF Fits
  <2>3. invites'[i].pub = invites[i].pub /\ community \subseteq community'
        /\ pubMembers[invites[i].pub] \subseteq pubMembers'[invites[i].pub]
    BY <2>1 DEF Keep
  <2> QED
    BY <2>1, <2>2, <2>3
<1> QED
  BY <1>3, <1>4, <1>5, <1>6, <1>7 DEF Fits

LEMMA IdleFits == ASSUME NEW s, req'[s] = Idle PROVE Fits(req[s])'
  BY DEF Fits, Idle, AnswerSteps, Completing

\* An answer that has just read its invite, and one that goes on.
LEMMA AnswerFits ==
    ASSUME IInv, Quiet, NEW s \in Requests, NEW i \in Ids, Exists(i),
           req'[s].at \in AnswerSteps, req'[s].invite = i,
           req'[s].seen = "completed" /\ Intact => Granted(i),
           req'[s].at = "check pub" /\ Intact => community # {},
           req'[s].at = "skip" /\ Intact => community # {} /\ pubMembers[invites[i].pub] # {}
    PROVE  Fits(req[s])'
  BY DEF Fits, Quiet, Exists, Intact, Granted, AnswerSteps, Completing

\* Fields of the states that requests get into.
LEMMA IdleAt == \A u : u = Idle => u.at = "idle"
  BY DEF Idle

LEMMA MarkFields ==
    ASSUME NEW u, NEW x, NEW i, NEW s, u = [at |-> x, invite |-> i, seen |-> s]
    PROVE  u.at = x /\ u.invite = i /\ u.seen = s
  OBVIOUS

LEMMA CompleteFields ==
    ASSUME NEW u, NEW i, NEW s, NEW b,
           u = [at |-> "complete", invite |-> i, seen |-> s, signup |-> b]
    PROVE  u.at = "complete" /\ u.invite = i /\ u.seen = s
  OBVIOUS

\* Only the commit of a mail makes an invite, and that is another one.
LEMMA NotMadeByOthers ==
    ASSUME IInv, [Next]_vars, NEW s \in Requests, req'[s] = req[s], req[s].at = "commit mail"
    PROVE  ~Exists(req[s].invite)'
<1> TypeOK /\ Fits(req[s]) /\ MailsDiffer
  BY DEF IInv
<1>1. PICK i \in Ids : i = req[s].invite /\ ~Exists(i)
  BY States DEF TypeOK, Fits
<1> SUFFICES ~Exists(i)'
  BY <1>1 DEF Exists
<1>2. CASE Quiet \/ UNCHANGED invites
  BY <1>1, <1>2 DEF Quiet, Exists
<1>3. ASSUME NEW r \in Requests, CommitMail(r) PROVE ~Exists(i)'
  <2>1. req'[r] = Idle
    BY <1>3 DEF CommitMail, Becomes, TypeOK
  <2>2. req'[r].at = "idle"
    BY <2>1, IdleAt
  <2>3. r # s
    BY <2>2
  <2>4. req[r].invite # i
    BY <1>1, <1>3, <2>3 DEF MailsDiffer, CommitMail
  <2> QED
    BY <1>1, <1>3, <2>4 DEF CommitMail, Exists, TypeOK
<1>4. ASSUME NEW r \in Requests,
             MarkAccepted(r) \/ MarkRejected(r) \/ Grant(r) \/ Skip(r)
      PROVE  ~Exists(i)'
  <2>1. PICK j \in Ids : j = req[r].invite /\ Exists(j)
    BY <1>4, AnswersName DEF IInv, MarkAccepted, MarkRejected, Grant, Skip, AnswerSteps, Completing
  <2>2. PICK x \in Statuses : SetStatus(j, x) /\ x # "pending"
    BY <1>4, <2>1 DEF MarkAccepted, MarkRejected, Grant, Skip, Statuses
  <2> QED
    BY <1>1, <2>1, <2>2, SetStatusKeeps DEF Exists
<1>5. CASE Register \/ Add \/ Replace
  BY <1>2, <1>5 DEF Register, Add, Replace
<1>6. ASSUME NEW r \in Requests, GrantAccess(r) PROVE UNCHANGED invites
  BY <1>6 DEF GrantAccess
<1>7. CASE UNCHANGED vars
  BY <1>2, <1>7 DEF vars
<1> QED
  BY <1>2, <1>3, <1>4, <1>5, <1>6, <1>7, QuietSteps DEF Next, Mail, Answer, Complete

\* A completed invite, by the invariant.
LEMMA CompletedGranted ==
    ASSUME CompletedIsGranted, Intact, NEW i \in Ids, Exists(i), invites[i].status = "completed"
    PROVE  Granted(i)
  BY DEF CompletedIsGranted, Intact, Exists, Granted

LEMMA AnsweringFits ==
    ASSUME IInv, NEW r \in Requests,
           Accept(r) \/ Reject(r) \/ SignUp(r) \/ SetCompleted(r) \/ CheckCommunity(r) \/ CheckPub(r)
    PROVE  Fits(req[r])' /\ req'[r].at \in AnswerSteps
<1> TypeOK /\ Fits(req[r]) /\ CompletedIsGranted
  BY DEF IInv
<1>1. Quiet
  BY QuietSteps
<1>2. CASE Accept(r) \/ Reject(r) \/ SignUp(r)
  <2>1. PICK u : u = req'[r]
    OBVIOUS
  <2>2. PICK i \in Ids, s \in ValidStatuses :
            /\ Valid(i) /\ s = invites[i].status
            /\ \/ u = [at |-> "mark accepted", invite |-> i, seen |-> s]
               \/ u = [at |-> "mark rejected", invite |-> i, seen |-> s]
               \/ u = [at |-> "complete", invite |-> i, seen |-> s, signup |-> FALSE]
               \/ u = [at |-> "complete", invite |-> i, seen |-> s, signup |-> TRUE]
    BY <1>2, <2>1 DEF Accept, Reject, SignUp, Valid, Becomes, TypeOK
  <2>3. /\ u.at \in {"mark accepted", "mark rejected", "complete"}
        /\ u.invite = i /\ u.seen = s
    <3>1. CASE u = [at |-> "mark accepted", invite |-> i, seen |-> s]
      BY <3>1, MarkFields
    <3>2. CASE u = [at |-> "mark rejected", invite |-> i, seen |-> s]
      BY <3>2, MarkFields
    <3>3. CASE u = [at |-> "complete", invite |-> i, seen |-> s, signup |-> FALSE]
      BY <3>3, CompleteFields
    <3>4. CASE u = [at |-> "complete", invite |-> i, seen |-> s, signup |-> TRUE]
      BY <3>4, CompleteFields
    <3> QED
      BY <2>2, <3>1, <3>2, <3>3, <3>4
  <2>4. Exists(i)
    BY <2>2 DEF Valid, Exists
  <2>5. s = "completed" /\ Intact => Granted(i)
    BY <2>2, <2>4, CompletedGranted
  <2> QED
    BY <1>1, <2>1, <2>3, <2>4, <2>5, AnswerFits DEF AnswerSteps
<1>3. CASE SetCompleted(r) \/ CheckCommunity(r) \/ CheckPub(r)
  <2>1. req[r].at \in {"complete", "check community", "check pub"}
    BY <1>3 DEF SetCompleted, CheckCommunity, CheckPub
  <2>2. req[r] \in Answering
    BY <2>1, States DEF TypeOK, AnswerSteps, Completing
  <2>3. PICK i \in Ids : /\ i = req[r].invite /\ Exists(i)
                         /\ Intact /\ req[r].seen = "completed" => Granted(i)
    BY <2>1, AnswersName DEF Fits, AnswerSteps, Completing
  <2>4. PICK x \in Completing :
            /\ req'[r] = [req[r] EXCEPT !.at = x]
            /\ x = "check pub" => community # {}
            /\ x = "skip" => \/ req[r].seen = "completed"
                             \/ pubMembers[invites[i].pub] # {} /\ req[r].at = "check pub"
    <3>1. CASE SetCompleted(r)
      BY <3>1 DEF SetCompleted, Becomes, TypeOK, Completing
    <3>2. CASE CheckCommunity(r)
      <4>1. PICK x \in Completing :
                /\ req' = [req EXCEPT ![r] = [req[r] EXCEPT !.at = x]]
                /\ x = "check pub" => community # {}
                /\ x = "skip" => req[r].seen = "completed"
        <5>1. CASE req[r].seen = "completed"
          BY <3>2, <5>1 DEF CheckCommunity, Becomes, Completing
        <5>2. CASE req[r].seen # "completed" /\ community = {}
          BY <3>2, <5>2 DEF CheckCommunity, Becomes, Completing
        <5>3. CASE req[r].seen # "completed" /\ community # {}
          BY <3>2, <5>3 DEF CheckCommunity, Becomes, Completing
        <5> QED
          BY <5>1, <5>2, <5>3
      <4>2. req'[r] = [req[r] EXCEPT !.at = x]
        BY <4>1 DEF TypeOK
      <4>3. (x = "check pub" => community # {}) /\ (x = "skip" => req[r].seen = "completed")
        BY <4>1
      <4> QED
        BY <4>2, <4>3
    <3>3. CASE CheckPub(r)
      BY <2>3, <3>3 DEF CheckPub, UselessFor, Becomes, TypeOK, Completing
    <3> QED
      BY <1>3, <3>1, <3>2, <3>3
  <2>5. req'[r].at = x /\ req'[r].invite = i /\ req'[r].seen = req[r].seen
    <3>1. req[r].at \in {"complete"} \union Completing
      BY <2>1 DEF Completing
    <3>2. PICK u : u = req[r]
      OBVIOUS
    <3>3. PICK v : v = [u EXCEPT !.at = x]
      OBVIOUS
    <3>4. v.at = x /\ v.invite = u.invite /\ v.seen = u.seen
      BY <2>2, <3>1, <3>2, <3>3, Advance
    <3>5. req'[r] = v
      BY <2>4, <3>2, <3>3
    <3> QED
      BY <2>3, <3>2, <3>4, <3>5
  <2>6. x = "skip" /\ Intact => community # {} /\ pubMembers[invites[i].pub] # {}
    BY <2>3, <2>4 DEF Granted, Fits
  <2> QED
    BY <1>1, <2>3, <2>4, <2>5, <2>6, AnswerFits DEF AnswerSteps
<1> QED
  BY <1>2, <1>3
\* Where the steps of a mail lead.
LEMMA MailMoves ==
    ASSUME TypeOK, NEW r \in Requests
    PROVE  /\ StartMail(r) => \/ req'[r].at = "find user"
                              \/ req'[r].at = "grant access" /\ community # {}
           /\ FindUser(r) => req'[r].at = "insert"
           /\ InsertInvite(r) => \E i \in Ids : Fresh(i) /\ req'[r].at = "commit mail" /\ req'[r].invite = i
<1>1. PICK u : u = req'[r]
  OBVIOUS
<1>2. ASSUME StartMail(r)
      PROVE  \/ u.at = "find user"
             \/ u.at = "grant access" /\ community # {}
  <2>1. PICK x : x = IF community = {} THEN "find user" ELSE "grant access"
    OBVIOUS
  <2>2. PICK p \in Pubs, f \in Forms :
            req' = [req EXCEPT ![r] = [at |-> IF community = {} THEN "find user"
                                              ELSE "grant access", pub |-> p, form |-> f]]
    BY <1>2 DEF StartMail, Becomes
  <2>3. u = [at |-> x, pub |-> p, form |-> f]
    BY <1>1, <2>1, <2>2 DEF TypeOK
  <2>4. u.at = x
    BY <2>3
  <2> QED
    BY <2>1, <2>4
<1>3. ASSUME FindUser(r) PROVE u.at = "insert"
  <2>1. PICK p, f, k : u = [at |-> "insert", pub |-> p, form |-> f, known |-> k]
    BY <1>1, <1>3 DEF FindUser, Becomes, TypeOK
  <2> QED
    BY <2>1
<1>4. ASSUME InsertInvite(r)
      PROVE  \E i \in Ids : Fresh(i) /\ u.at = "commit mail" /\ u.invite = i
  <2>1. PICK i \in Ids :
            /\ Fresh(i)
            /\ u = [at |-> "commit mail", pub |-> req[r].pub, form |-> req[r].form,
                    known |-> req[r].known, invite |-> i]
    BY <1>1, <1>4 DEF InsertInvite, Becomes, TypeOK
  <2>2. u.at = "commit mail" /\ u.invite = i
    BY <2>1
  <2> QED
    BY <2>1, <2>2
<1> QED
  BY <1>1, <1>2, <1>3, <1>4

\* Steps that end a request.
Ends(r) == \/ GrantAccess(r) \/ CommitMail(r) \/ MarkAccepted(r) \/ MarkRejected(r)
           \/ Grant(r) \/ Skip(r) \/ Abort(r)

Goes(r) == \/ StartMail(r) \/ FindUser(r) \/ InsertInvite(r) \/ Accept(r) \/ Reject(r) \/ SignUp(r)
           \/ SetCompleted(r) \/ CheckCommunity(r) \/ CheckPub(r)

LEMMA Ended == ASSUME TypeOK, NEW r \in Requests, Ends(r) PROVE req'[r] = Idle
  BY DEF Ends, GrantAccess, CommitMail, MarkAccepted, MarkRejected, Grant, Skip, Abort, Becomes, TypeOK

\* A step is one of a request and leaves the others, or none has moved.
LEMMA OneMoves ==
    ASSUME TypeOK, [Next]_vars
    PROVE  \/ req' = req
           \/ \E r \in Requests : /\ Ends(r) \/ Goes(r)
                                  /\ \A s \in Requests \ {r} : req'[s] = req[s]
<1>1. ASSUME NEW r \in Requests, Ends(r) PROVE \A s \in Requests \ {r} : req'[s] = req[s]
  BY <1>1 DEF Ends, GrantAccess, CommitMail, MarkAccepted, MarkRejected, Grant, Skip, Abort, Becomes,
              TypeOK
<1>2. ASSUME NEW r \in Requests, Goes(r) PROVE \A s \in Requests \ {r} : req'[s] = req[s]
  BY <1>2 DEF Goes, StartMail, FindUser, InsertInvite, Accept, Reject, SignUp, SetCompleted,
              CheckCommunity, CheckPub, Becomes, TypeOK
<1>3. ASSUME Register \/ Add \/ Replace \/ UNCHANGED vars PROVE req' = req
  BY <1>3 DEF Register, Add, Replace, vars
<1>4. \/ Register \/ Add \/ Replace \/ UNCHANGED vars
      \/ \E r \in Requests : Ends(r) \/ Goes(r)
  BY DEF Next, Mail, Answer, Complete, Ends, Goes
<1> QED
  BY <1>1, <1>2, <1>3, <1>4

LEMMA FitsNext == IInv /\ [Next]_vars => \A s \in Requests : Fits(req[s])'
<1> SUFFICES ASSUME IInv, [Next]_vars, NEW s \in Requests PROVE Fits(req[s])'
  OBVIOUS
<1> TypeOK /\ Fits(req[s])
  BY DEF IInv
<1>1. Keep
  BY KeepNext
<1>2. CASE req'[s] = req[s]
  BY <1>1, <1>2, OthersFit, NotMadeByOthers
<1>3. CASE Ends(s)
  BY <1>3, Ended, IdleFits
<1>4. CASE Goes(s)
  <2>1. CASE StartMail(s)
    <3>1. community # {} /\ "added" \notin edited => Answered
      BY DEF IInv, MembersWereInvited, Answered, Exists
    <3>2. Answered => Answered'
      BY <1>1, AnsweredKept
    <3>3. edited' = edited
      BY <2>1 DEF StartMail, ghosts
    <3>4. \/ req'[s].at = "find user"
          \/ req'[s].at = "grant access" /\ community # {}
      BY <2>1, MailMoves
    <3> QED
      BY <3>1, <3>2, <3>3, <3>4 DEF Fits, AnswerSteps, Completing
  <2>2. CASE FindUser(s)
    BY <2>2, MailMoves DEF Fits, AnswerSteps, Completing
  <2>3. CASE InsertInvite(s)
    <3>1. PICK i \in Ids : Fresh(i) /\ req'[s].at = "commit mail" /\ req'[s].invite = i
      BY <2>3, MailMoves
    <3>2. ~Exists(i)'
      BY <2>3, <3>1 DEF InsertInvite, Fresh, Exists
    <3> QED
      BY <3>1, <3>2 DEF Fits, Exists, AnswerSteps, Completing
  <2> QED
    BY <1>4, <2>1, <2>2, <2>3, AnsweringFits DEF Goes
<1> QED
  BY <1>2, <1>3, <1>4, OneMoves

LEMMA MailsDifferNext == IInv /\ [Next]_vars => MailsDiffer'
<1> SUFFICES ASSUME IInv, [Next]_vars, NEW r \in Requests, NEW s \in Requests \ {r},
                    req'[r].at = "commit mail", req'[s].at = "commit mail"
             PROVE  req'[r].invite # req'[s].invite
  BY DEF MailsDiffer
<1> TypeOK /\ MailsDiffer
  BY DEF IInv
<1>1. ASSUME NEW q \in Requests, req'[q].at = "commit mail", Ends(q) \/ Goes(q)
      PROVE  \E i \in Ids : Fresh(i) /\ req'[q].invite = i
  <2>1. ~Ends(q)
    BY <1>1, Ended, IdleAt
  <2>2. ~(\/ Accept(q) \/ Reject(q) \/ SignUp(q)
          \/ SetCompleted(q) \/ CheckCommunity(q) \/ CheckPub(q))
    BY <1>1, AnsweringFits DEF AnswerSteps, Completing
  <2> QED
    BY <1>1, <2>1, <2>2, MailMoves DEF Goes
<1>2. ASSUME NEW q \in Requests, NEW t \in Requests, req'[q].at = "commit mail",
             Ends(q) \/ Goes(q), req'[t] = req[t], req'[t].at = "commit mail"
      PROVE  req'[q].invite # req'[t].invite
  BY <1>1, <1>2 DEF Fresh
<1>3. CASE req' = req
  BY <1>3 DEF MailsDiffer
<1>4. ASSUME NEW q \in Requests, Ends(q) \/ Goes(q),
             \A t \in Requests \ {q} : req'[t] = req[t]
      PROVE  req'[r].invite # req'[s].invite
  <2>1. CASE q = r
    BY <1>2, <1>4, <2>1
  <2>2. CASE q = s
    BY <1>2, <1>4, <2>2
  <2>3. CASE q # r /\ q # s
    BY <1>4, <2>3 DEF MailsDiffer
  <2> QED
    BY <2>1, <2>2, <2>3
<1> QED
  BY <1>3, <1>4, OneMoves
-----------------------------------------------------------------------------
(* The properties *)

\* Who completes an invite.
LEMMA CompletedBy ==
    ASSUME IInv, [Next]_vars, NEW i \in Ids, Exists(i)', invites'[i].status = "completed",
           ~(Exists(i) /\ invites[i].status = "completed")
    PROVE  \E r \in Requests : req[r].invite = i /\ (Grant(r) \/ Skip(r))
<1> TypeOK
  BY DEF IInv
<1>1. invites'[i] # invites[i]
  BY DEF Exists
<1>2. ASSUME NEW r \in Requests, CommitMail(r) PROVE FALSE
  <2>1. PICK j \in Ids : j = req[r].invite
    BY <1>2, States DEF CommitMail, TypeOK
  <2>2. PICK p, f : invites' = [invites EXCEPT ![j] = [pub |-> p, form |-> f, status |-> "pending"]]
    BY <1>2, <2>1 DEF CommitMail
  <2>3. invites'[i] = [pub |-> p, form |-> f, status |-> "pending"]
    BY <1>1, <2>2 DEF TypeOK
  <2> QED
    BY <2>3
<1>3. ASSUME NEW r \in Requests, MarkAccepted(r) \/ MarkRejected(r) PROVE FALSE
  <2>1. PICK j \in Ids : j = req[r].invite /\ Exists(j)
    BY <1>3, AnswersName DEF IInv, MarkAccepted, MarkRejected, AnswerSteps
  <2>2. PICK x \in {"accepted", "rejected"} : SetStatus(j, x)
    BY <1>3, <2>1 DEF MarkAccepted, MarkRejected
  <2>3. invites'[j].status # "completed" /\ \A k \in Ids : k # j => invites'[k] = invites[k]
    BY <2>1, <2>2, SetStatusKeeps DEF Statuses
  <2> QED
    BY <1>1, <2>3
<1>4. ASSUME NEW r \in Requests, Grant(r) \/ Skip(r) PROVE req[r].invite = i
  <2>1. PICK j \in Ids : j = req[r].invite /\ Exists(j)
    BY <1>4, AnswersName DEF IInv, Grant, Skip, AnswerSteps, Completing
  <2>2. SetStatus(j, "completed")
    BY <1>4, <2>1 DEF Grant, Skip
  <2> QED
    BY <1>1, <2>1, <2>2, SetStatusKeeps DEF Statuses
<1>5. ASSUME UNCHANGED invites PROVE FALSE
  BY <1>1, <1>5
<1>6. ASSUME NEW r \in Requests, GrantAccess(r) PROVE UNCHANGED invites
  BY <1>6 DEF GrantAccess
<1>7. ASSUME Register \/ Add \/ Replace \/ UNCHANGED vars PROVE UNCHANGED invites
  BY <1>7 DEF Register, Add, Replace, vars
<1>8. ASSUME Quiet PROVE UNCHANGED invites
  BY <1>8 DEF Quiet
<1> QED
  BY <1>2, <1>3, <1>4, <1>5, <1>6, <1>7, <1>8, QuietSteps DEF Next, Mail, Answer, Complete

LEMMA CompletedNext == IInv /\ [Next]_vars => CompletedIsGranted'
<1> SUFFICES ASSUME IInv, [Next]_vars, NEW i \in Ids,
                    Exists(i)', invites'[i].status = "completed", Intact'
             PROVE  Granted(i)'
  BY DEF CompletedIsGranted, Exists, Intact, Granted
<1> TypeOK /\ CompletedIsGranted
  BY DEF IInv
<1>1. Keep
  BY KeepNext
<1>2. Intact
  BY <1>1 DEF Keep, Intact
<1>3. CASE Exists(i) /\ invites[i].status = "completed"
  BY <1>1, <1>2, <1>3, CompletedGranted, GrantedKept
<1>4. CASE ~(Exists(i) /\ invites[i].status = "completed")
  <2>1. PICK r \in Requests : req[r].invite = i /\ (Grant(r) \/ Skip(r))
    BY <1>4, CompletedBy
  <2>2. Fits(req[r]) /\ Exists(i) /\ invites[i].pub \in Pubs
    BY <2>1, AnswersName DEF IInv, Grant, Skip, AnswerSteps, Completing
  <2>3. invites'[i].pub = invites[i].pub /\ invites'[i].form = invites[i].form
        /\ community \subseteq community' /\ pubMembers[invites[i].pub] \subseteq pubMembers'[invites[i].pub]
    BY <1>1, <2>2 DEF Keep
  <2>4. CASE Grant(r)
    <3>1. invites[i].form \in community' /\ invites[i].form \in pubMembers'[invites[i].pub]
      BY <2>1, <2>2, <2>4 DEF Grant, TypeOK
    <3> QED
      BY <2>3, <3>1 DEF Granted
  <2>5. CASE Skip(r) /\ req[r].seen = "completed"
    <3>1. Granted(i)
      BY <1>2, <2>1, <2>2, <2>5 DEF Fits, Skip, AnswerSteps, Completing
    <3> QED
      BY <1>1, <2>2, <3>1, GrantedKept
  <2>6. CASE Skip(r) /\ req[r].seen # "completed"
    <3>1. community # {} /\ pubMembers[invites[i].pub] # {}
      BY <1>2, <2>1, <2>2, <2>6 DEF Fits, Skip
    <3>2. i \in useless'
      BY <2>1, <2>6 DEF Skip
    <3> QED
      BY <2>3, <3>1, <3>2 DEF Granted
  <2> QED
    BY <2>1, <2>4, <2>5, <2>6
<1> QED
  BY <1>3, <1>4

LEMMA MembersNext == IInv /\ [Next]_vars => MembersWereInvited'
<1> SUFFICES ASSUME IInv, [Next]_vars, "added" \notin edited',
                    community' # {} \/ \E p \in Pubs : pubMembers'[p] # {}
             PROVE  Answered'
  BY DEF MembersWereInvited, Answered, Exists
<1> TypeOK /\ MembersWereInvited
  BY DEF IInv
<1>1. Keep /\ "added" \notin edited
  BY KeepNext DEF Keep
<1>2. Answered => Answered'
  BY <1>1, AnsweredKept
<1>3. CASE UNCHANGED <<community, pubMembers>>
  BY <1>1, <1>2, <1>3 DEF MembersWereInvited, Answered, Exists
<1>4. ASSUME NEW r \in Requests, GrantAccess(r) PROVE Answered'
  BY <1>1, <1>2, <1>4 DEF IInv, Fits, GrantAccess
<1>5. ASSUME NEW r \in Requests, Grant(r) PROVE Answered'
  <2>1. PICK i \in Ids : i = req[r].invite /\ Exists(i)
    BY <1>5, AnswersName DEF IInv, Grant, AnswerSteps, Completing
  <2>2. SetStatus(i, "completed")
    BY <1>5, <2>1 DEF Grant
  <2>3. Exists(i)' /\ invites'[i].status # "pending"
    BY <2>1, <2>2, SetStatusKeeps DEF Statuses
  <2> QED
    BY <2>3 DEF Answered
<1>6. ASSUME NEW r \in Requests,
             CommitMail(r) \/ MarkAccepted(r) \/ MarkRejected(r) \/ Skip(r)
      PROVE  UNCHANGED <<community, pubMembers>>
  BY <1>6 DEF CommitMail, MarkAccepted, MarkRejected, Skip, memberships
<1>7. ASSUME Register \/ Add \/ Replace PROVE FALSE
  BY <1>7 DEF Register, Add, Replace, Edit
<1>8. ASSUME Quiet \/ UNCHANGED vars PROVE UNCHANGED <<community, pubMembers>>
  BY <1>8 DEF Quiet, vars
<1> QED
  BY <1>3, <1>4, <1>5, <1>6, <1>7, <1>8, QuietSteps DEF Next, Mail, Answer, Complete

LEMMA InitIInv == Init => IInv
<1> SUFFICES ASSUME Init PROVE IInv
  OBVIOUS
<1>1. TypeOK
  BY TypeInit
<1>2. ASSUME NEW r \in Requests PROVE Fits(req[r]) /\ req[r].at = "idle"
  BY DEF Init, Fits, Idle, AnswerSteps, Completing
<1>3. MailsDiffer
  BY <1>2 DEF MailsDiffer
<1>4. CompletedIsGranted /\ MembersWereInvited
  BY DEF Init, CompletedIsGranted, MembersWereInvited
<1> QED
  BY <1>1, <1>2, <1>3, <1>4 DEF IInv

LEMMA NextIInv == IInv /\ [Next]_vars => IInv'
<1> SUFFICES ASSUME IInv, [Next]_vars PROVE IInv'
  OBVIOUS
<1>1. TypeOK'
  BY TypeNext DEF IInv
<1> QED
  BY <1>1, FitsNext, MailsDifferNext, CompletedNext, MembersNext DEF IInv

\* Every variable keeps its type: in particular a request that has read an
\* invite goes on to one of the statements that follow.
THEOREM TypeCorrect == Spec => []TypeOK
<1>1. IInv => TypeOK
  BY DEF IInv
<1> QED
  BY <1>1, InitIInv, NextIInv, PTL DEF Spec

\* However many tabs answer any number of invites and the members are edited
\* meanwhile, what is recorded as completed is granted.
THEOREM InvitesCompletedAreGranted == Spec => []CompletedIsGranted
<1>1. IInv => CompletedIsGranted
  BY DEF IInv
<1> QED
  BY <1>1, InitIInv, NextIInv, PTL DEF Spec

\* Memberships come from answered invites, or from whoever adds members.
THEOREM OnlyTheInvitedAreMembers == Spec => []MembersWereInvited
<1>1. IInv => MembersWereInvited
  BY DEF IInv
<1> QED
  BY <1>1, InitIInv, NextIInv, PTL DEF Spec

\* RejectionStands, of one step.
Stands ==
    \A i \in Ids :
        invites[i] # NoInvite /\ invites[i].status = "rejected" =>
            \/ invites'[i] = invites[i]
            \/ \E r \in Requests :
                   /\ req[r] \in Answering /\ req'[r] = Idle
                   /\ req[r].invite = i /\ req[r].seen # "rejected"

LEMMA StandsNext == IInv /\ [Next]_vars => Stands
<1> SUFFICES ASSUME IInv, [Next]_vars, NEW i \in Ids, Exists(i), invites'[i] # invites[i]
             PROVE  \E r \in Requests :
                        /\ req[r] \in Answering /\ req'[r] = Idle
                        /\ req[r].invite = i /\ req[r].seen # "rejected"
  BY DEF Stands, Exists
<1> TypeOK
  BY DEF IInv
<1>1. ASSUME NEW r \in Requests,
             MarkAccepted(r) \/ MarkRejected(r) \/ Grant(r) \/ Skip(r)
      PROVE  /\ req[r] \in Answering /\ req'[r] = Idle
             /\ req[r].invite = i /\ req[r].seen # "rejected"
  <2>1. req[r].at \in AnswerSteps
    BY <1>1 DEF MarkAccepted, MarkRejected, Grant, Skip, AnswerSteps, Completing
  <2>2. req[r] \in Answering /\ req[r].seen \in ValidStatuses
    BY <2>1, States DEF TypeOK
  <2>3. req'[r] = Idle
    BY <1>1, Ended DEF Ends
  <2>4. PICK j \in Ids : j = req[r].invite /\ Exists(j)
    BY <2>1, AnswersName DEF IInv
  <2>5. PICK x \in Statuses : SetStatus(j, x) /\ x # "pending"
    BY <1>1, <2>4 DEF MarkAccepted, MarkRejected, Grant, Skip, Statuses
  <2>6. j = i
    BY <2>4, <2>5, SetStatusKeeps
  <2> QED
    BY <2>2, <2>3, <2>4, <2>6 DEF ValidStatuses
<1>2. ASSUME NEW r \in Requests, CommitMail(r) PROVE FALSE
  <2>1. ~Exists(req[r].invite)
    BY <1>2 DEF IInv, Fits, CommitMail
  <2> QED
    BY <1>2, <2>1 DEF CommitMail, Exists, TypeOK
<1>3. ASSUME UNCHANGED invites PROVE FALSE
  BY <1>3
<1>4. ASSUME NEW r \in Requests, GrantAccess(r) PROVE UNCHANGED invites
  BY <1>4 DEF GrantAccess
<1>5. ASSUME Register \/ Add \/ Replace \/ Quiet \/ UNCHANGED vars PROVE UNCHANGED invites
  BY <1>5 DEF Register, Add, Replace, Quiet, vars
<1> QED
  BY <1>1, <1>2, <1>3, <1>4, <1>5, QuietSteps DEF Next, Mail, Answer, Complete

\* A rejection is only overwritten by an answer that had read the invite before.
THEOREM RejectionsStand == Spec => RejectionStands
<1>1. IInv /\ [Next]_vars => [Stands]_vars
  BY StandsNext
<1> QED
  BY <1>1, InitIInv, NextIInv, PTL DEF Spec, RejectionStands, Stands
=============================================================================
