------------------------------- MODULE Invites -------------------------------
(***************************************************************************)
(* Invites to fill in a form of a pub, from the e-mail action that creates *)
(* them to the memberships they grant, for one e-mail address in one       *)
(* community.                                                              *)
(*                                                                         *)
(* Requests are server actions of the invitee's browser tabs and runs of   *)
(* the e-mail action.  A request reads the invite first and writes it in a *)
(* later statement; what completes an invite is a transaction under READ   *)
(* COMMITTED, which keeps the row of the invite locked once it has set the *)
(* status.  All invites the program makes are for a contributor with one   *)
(* form, in the community and on the pub.                                  *)
(***************************************************************************)
EXTENDS Naturals, FiniteSets

CONSTANTS
    Ids,        \* invites, with their tokens
    Pubs,
    Forms,
    Requests,   \* requests at one time
    NoForm,     \* the formId of a membership without form
    NoInvite,   \* there is no row
    MaxEdits    \* bound: changes of memberships by others than the invitee

ASSUME InvitesAssumption ==
    /\ MaxEdits \in Nat
    /\ NoForm \notin Forms
    /\ NoInvite \notin [pub : Pubs, form : Forms,
                        status : {"pending", "accepted", "completed", "rejected"}]

VARIABLES
    account,    \* the row of users with the address
    community,  \* formId of its rows in community_memberships
    pubMembers, \* and of its rows in pub_memberships, for every pub
    invites,
    mailed,     \* invites whose link has reached the mailbox
    req,
    edits,
    edited,     \* ghost: what others than the invitee did to the memberships
    useless     \* ghost: invites completed without a grant

vars == <<account, community, pubMembers, invites, mailed, req, edits, edited, useless>>

Rows == Forms \union {NoForm}

Statuses == {"pending", "accepted", "completed", "rejected"}

Invite == [pub : Pubs, form : Forms, status : Statuses]

\* Mutant: rejected invites pass, too.
StatusesSent == Statuses

\* Statuses that invalidInviteMap lets pass.
ValidStatuses == {"pending", "accepted", "completed"}

Idle == [at |-> "idle"]

\* Runs of the e-mail action.
Mailing ==
    [at : {"grant access", "find user"}, pub : Pubs, form : Forms] \union
    [at : {"insert"}, pub : Pubs, form : Forms, known : BOOLEAN] \union
    [at : {"commit mail"}, pub : Pubs, form : Forms, known : BOOLEAN, invite : Ids]

\* Inside the transaction of completeInvite.
Completing == {"check community", "check pub", "grant", "skip"}

\* What the invitee asked for; seen is the status that was read.
Answering ==
    [at : {"mark accepted", "mark rejected"}, invite : Ids, seen : ValidStatuses] \union
    [at : {"complete"} \union Completing, invite : Ids, seen : ValidStatuses, signup : BOOLEAN]

TypeOK ==
    /\ account \in {"none", "provisional", "registered"}
    /\ community \subseteq Rows
    /\ pubMembers \in [Pubs -> SUBSET Rows]
    /\ invites \in [Ids -> Invite \union {NoInvite}]
    /\ mailed \subseteq Ids
    /\ req \in [Requests -> {Idle} \union Mailing \union Answering]
    /\ edits \in 0..MaxEdits
    /\ edited \subseteq {"added", "removed"}
    /\ useless \subseteq Ids

Init ==
    /\ account \in {"none", "registered"}
    /\ community = {}
    /\ pubMembers = [p \in Pubs |-> {}]
    /\ invites = [i \in Ids |-> NoInvite]
    /\ mailed = {}
    /\ req = [r \in Requests |-> Idle]
    /\ edits = 0
    /\ edited = {}
    /\ useless = {}

Becomes(r, state) == req' = [req EXCEPT ![r] = state]

memberships == <<community, pubMembers>>
ghosts == <<edits, edited, useless>>

(***************************************************************************)
(* The e-mail action, with a link to a form in its body.                   *)
(***************************************************************************)

\* Mutant: whoever has an account is taken for a member.
StartMailToUser(r) ==
    /\ req[r] = Idle
    /\ \E p \in Pubs, f \in Forms :
           Becomes(r, [at |-> IF account = "none" THEN "find user" ELSE "grant access",
                       pub |-> p, form |-> f])
    /\ UNCHANGED <<account, memberships, invites, mailed, ghosts>>

\* resolveRecipient reads the memberships of the address.  Two rows make
\* coalesceMemberships throw, unless the recipient was chosen as a member.
StartMail(r) ==
    /\ req[r] = Idle
    /\ \E p \in Pubs, f \in Forms :
           Becomes(r, [at |-> IF community = {} THEN "find user" ELSE "grant access",
                       pub |-> p, form |-> f])
    /\ UNCHANGED <<account, memberships, invites, mailed, ghosts>>

\* The recipient is a member: grantFormAccess, outside of the transaction.
GrantAccess(r) ==
    /\ req[r].at = "grant access"
    /\ pubMembers' = [pubMembers EXCEPT ![req[r].pub] = @ \union {req[r].form}]
    /\ Becomes(r, Idle)
    /\ UNCHANGED <<account, community, invites, mailed, ghosts>>

FindUser(r) ==
    /\ req[r].at = "find user"
    /\ Becomes(r, [at |-> "insert", pub |-> req[r].pub, form |-> req[r].form,
                   known |-> account # "none"])
    /\ UNCHANGED <<account, memberships, invites, mailed, ghosts>>

\* The address is unique: whoever inserts it waits for others who have.
AddressIsFree == \A s \in Requests : req[s].at = "commit mail" => req[s].known

Fresh(i) ==
    /\ invites[i] = NoInvite /\ i \notin mailed
    /\ \A s \in Requests : req[s].at = "commit mail" => req[s].invite # i

\* A provisional user if there was none, the invite with its form, its status
\* set to pending, and the mail, which fails or leaves before the commit.
InsertInvite(r) ==
    /\ req[r].at = "insert"
    /\ req[r].known \/ (account = "none" /\ AddressIsFree)
    /\ \E i \in Ids :
           /\ Fresh(i)
           /\ Becomes(r, [at |-> "commit mail", pub |-> req[r].pub, form |-> req[r].form,
                          known |-> req[r].known, invite |-> i])
           /\ mailed' \in {mailed, mailed \union {i}}
    /\ UNCHANGED <<account, memberships, invites, ghosts>>

\* Mutant: the invite stays as it was created.
CommitUnsent(r) ==
    /\ req[r].at = "commit mail"
    /\ invites' = [invites EXCEPT ![req[r].invite] =
                      [pub |-> req[r].pub, form |-> req[r].form, status |-> "created"]]
    /\ account' = IF req[r].known THEN account ELSE "provisional"
    /\ Becomes(r, Idle)
    /\ UNCHANGED <<memberships, mailed, ghosts>>

\* A failed mail is returned as a value, so that its invite is committed too.
CommitMail(r) ==
    /\ req[r].at = "commit mail"
    /\ invites' = [invites EXCEPT ![req[r].invite] =
                      [pub |-> req[r].pub, form |-> req[r].form, status |-> "pending"]]
    /\ account' = IF req[r].known THEN account ELSE "provisional"
    /\ Becomes(r, Idle)
    /\ UNCHANGED <<memberships, mailed, ghosts>>

(***************************************************************************)
(* The invitee, logged in or not, in any number of tabs.                   *)
(***************************************************************************)

\* getValidInvite finds the row of a link and accepts its status.  An invite
\* that has expired is one nobody asks for any more.
Valid(i) == i \in mailed /\ invites[i] # NoInvite /\ invites[i].status \in ValidStatuses

\* acceptInviteAction: who is logged in completes the invite at once, a
\* provisional user is sent to sign up, anybody else to log in.
Accept(r) ==
    /\ req[r] = Idle
    /\ \E i \in Ids :
           /\ Valid(i)
           /\ \/ Becomes(r, [at |-> "complete", invite |-> i, seen |-> invites[i].status,
                             signup |-> FALSE])
              \/ /\ account = "provisional"
                 /\ Becomes(r, [at |-> "mark accepted", invite |-> i, seen |-> invites[i].status])
    /\ UNCHANGED <<account, memberships, invites, mailed, ghosts>>

\* rejectInviteAction
Reject(r) ==
    /\ req[r] = Idle
    /\ \E i \in Ids :
           /\ Valid(i)
           /\ Becomes(r, [at |-> "mark rejected", invite |-> i, seen |-> invites[i].status])
    /\ UNCHANGED <<account, memberships, invites, mailed, ghosts>>

\* signupThroughInvite
SignUp(r) ==
    /\ req[r] = Idle
    /\ \E i \in Ids :
           /\ Valid(i)
           /\ Becomes(r, [at |-> "complete", invite |-> i, seen |-> invites[i].status,
                          signup |-> TRUE])
    /\ UNCHANGED <<account, memberships, invites, mailed, ghosts>>

\* Nobody's open transaction has written the row of the invite.
Unlocked(i) == \A s \in Requests : req[s].at \in Completing => req[s].invite # i

SetStatus(i, status) == invites' = [invites EXCEPT ![i].status = status]

\* setInviteStatus and rejectInvite write whatever the status is by now.
MarkAccepted(r) ==
    /\ req[r].at = "mark accepted" /\ Unlocked(req[r].invite)
    /\ SetStatus(req[r].invite, "accepted")
    /\ Becomes(r, Idle)
    /\ UNCHANGED <<account, memberships, mailed, ghosts>>

MarkRejected(r) ==
    /\ req[r].at = "mark rejected" /\ Unlocked(req[r].invite)
    /\ SetStatus(req[r].invite, "rejected")
    /\ Becomes(r, Idle)
    /\ UNCHANGED <<account, memberships, mailed, ghosts>>

(***************************************************************************)
(* The transaction of completeInvite: the status, the check, the grant.    *)
(***************************************************************************)

\* A sign-up writes the row of the user first, and keeps it.
SetCompleted(r) ==
    /\ req[r].at = "complete" /\ Unlocked(req[r].invite)
    /\ req[r].signup => \A s \in Requests : req[s].at \in Completing => ~req[s].signup
    /\ Becomes(r, [req[r] EXCEPT !.at = "check community"])
    /\ UNCHANGED <<account, memberships, invites, mailed, ghosts>>

\* coalesceMemberships throws on two rows: their ids differ.
Coalesce(rows) == Cardinality(rows) <= 1

\* Mutant: no membership at all makes an invite useless.
NotThere(form, rows) == form \notin rows

\* isInviteUselessForMembership: the role is never higher than the one there
\* is, and the test of the forms is true if the invite has a new one.
UselessFor(form, rows) == rows # {} /\ form \notin rows

CheckCommunity(r) ==
    /\ req[r].at = "check community"
    /\ \/ req[r].seen = "completed" /\ Becomes(r, [req[r] EXCEPT !.at = "skip"])
       \/ /\ req[r].seen # "completed" /\ Coalesce(community)
          /\ Becomes(r, [req[r] EXCEPT !.at = IF community = {} THEN "grant" ELSE "check pub"])
    /\ UNCHANGED <<account, memberships, invites, mailed, ghosts>>

CheckPub(r) ==
    /\ req[r].at = "check pub"
    /\ LET invite == invites[req[r].invite]
           rows == pubMembers[invite.pub]
       IN  /\ Coalesce(rows)
           /\ Becomes(r, [req[r] EXCEPT !.at =
                             IF UselessFor(invite.form, rows) THEN "skip" ELSE "grant"])
    /\ UNCHANGED <<account, memberships, invites, mailed, ghosts>>

\* Both memberships, where a row that exists is left with its role, and the
\* commit.
Grant(r) ==
    /\ req[r].at = "grant"
    /\ LET i == req[r].invite
           form == invites[i].form
           pub == invites[i].pub
       IN  /\ community' = community \union {form}
           /\ pubMembers' = [pubMembers EXCEPT ![pub] = @ \union {form}]
           /\ SetStatus(i, "completed")
           /\ useless' = useless \ {i}
    /\ account' = IF req[r].signup THEN "registered" ELSE account
    /\ Becomes(r, Idle)
    /\ UNCHANGED <<mailed, edits, edited>>

\* The commit of an invite that was completed before, or found useless.
Skip(r) ==
    /\ req[r].at = "skip"
    /\ SetStatus(req[r].invite, "completed")
    /\ useless' = IF req[r].seen = "completed" THEN useless ELSE useless \union {req[r].invite}
    /\ account' = IF req[r].signup THEN "registered" ELSE account
    /\ Becomes(r, Idle)
    /\ UNCHANGED <<memberships, mailed, edits, edited>>

\* A transaction is rolled back: it threw, a constraint refused it, or its
\* connection is lost.  A mail that has left is not taken back.
Abort(r) ==
    /\ req[r].at \in Completing \union {"insert", "commit mail"}
    /\ Becomes(r, Idle)
    /\ UNCHANGED <<account, memberships, invites, mailed, ghosts>>

(***************************************************************************)
(* Everybody else.                                                         *)
(***************************************************************************)

\* Rows that getMembershipRows makes of a role and a list of forms.
MemberRows == {{NoForm}} \union (SUBSET Forms \ {{}})

Edit(how) ==
    /\ edits < MaxEdits
    /\ edits' = edits + 1
    /\ edited' = edited \union how

\* publicSignup, or an admin who creates a user with a membership.
Register ==
    /\ account = "none" /\ AddressIsFree
    /\ account' = "registered"
    /\ \E new \in MemberRows : community' = community \union new
    /\ Edit({"added"})
    /\ UNCHANGED <<pubMembers, invites, mailed, req, useless>>

\* addMember and publicJoinCommunity, addPubMember: a row that exists is a
\* unique violation, one with another form is not.
Add ==
    /\ account # "none"
    /\ \E new \in MemberRows :
           \/ new \intersect community = {} /\ community' = community \union new
              /\ UNCHANGED pubMembers
           \/ \E p \in Pubs :
                  /\ new \intersect pubMembers[p] = {}
                  /\ pubMembers' = [pubMembers EXCEPT ![p] = @ \union new]
                  /\ UNCHANGED community
    /\ Edit({"added"})
    /\ UNCHANGED <<account, invites, mailed, req, useless>>

\* removeMember or updateMember, for the community or a pub.
Replace ==
    /\ \E new \in MemberRows \union {{}} :
           \/ community # {} /\ community' = new /\ UNCHANGED pubMembers
           \/ \E p \in Pubs :
                  /\ pubMembers[p] # {}
                  /\ pubMembers' = [pubMembers EXCEPT ![p] = new]
                  /\ UNCHANGED community
    /\ Edit({"added", "removed"})
    /\ UNCHANGED <<account, invites, mailed, req, useless>>

Mail == \E r \in Requests : StartMail(r) \/ GrantAccess(r) \/ FindUser(r) \/ InsertInvite(r) \/ CommitMail(r)

Answer == \E r \in Requests : Accept(r) \/ Reject(r) \/ SignUp(r) \/ MarkAccepted(r) \/ MarkRejected(r)

Complete ==
    \E r \in Requests :
        SetCompleted(r) \/ CheckCommunity(r) \/ CheckPub(r) \/ Grant(r) \/ Skip(r) \/ Abort(r)

Next == Mail \/ Answer \/ Complete \/ Register \/ Add \/ Replace

Spec == Init /\ [][Next]_vars

(***************************************************************************)
(* Properties                                                              *)
(***************************************************************************)

\* Whose invite is completed is a member of the community and of the pub, with
\* the form of the invite unless the check found it useless, until an admin
\* takes memberships away.  The row that says completed and the rows of the
\* memberships are written by requests that read all of them at other times.
CompletedIsGranted ==
    \A i \in Ids :
        /\ invites[i] # NoInvite
        /\ invites[i].status = "completed"
        /\ "removed" \notin edited
        => /\ community # {} /\ pubMembers[invites[i].pub] # {}
           /\ i \notin useless => invites[i].form \in community \intersect pubMembers[invites[i].pub]

\* Nobody becomes a member, of the community or of a pub, without an invite he
\* has answered, unless somebody adds him: what a completion grants it
\* also records, and the e-mail action gives access to members only.
MembersWereInvited ==
    /\ "added" \notin edited
    /\ community # {} \/ \E p \in Pubs : pubMembers[p] # {}
    => \E i \in Ids : invites[i] # NoInvite /\ invites[i].status # "pending"

\* A rejection is undone by no request that began after it: only an answer that
\* had read the invite before, in another tab, can still overwrite it.
RejectionStands ==
    [][\A i \in Ids :
           invites[i] # NoInvite /\ invites[i].status = "rejected" =>
               \/ invites'[i] = invites[i]
               \/ \E r \in Requests :
                      /\ req[r] \in Answering /\ req'[r] = Idle
                      /\ req[r].invite = i /\ req[r].seen # "rejected"]_vars
=============================================================================
