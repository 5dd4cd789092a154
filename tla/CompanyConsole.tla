--------------------------- MODULE CompanyConsole ---------------------------
(***************************************************************************)
(* The administration console: the pages of the company administrator and  *)
(* of the platform administrator, each with the server behind it.  The     *)
(* router shows one page at a time and a page keeps nothing when it is     *)
(* left (leaving and coming back is the page's own Remount), so that a     *)
(* behaviour of the console is a behaviour of one page at a time.  The     *)
(* promises below are the same for every page, each in its own terms.      *)
(***************************************************************************)
EXTENDS PageAction

CONSTANT Rights \* the checkboxes of the grant editor

VARIABLES
  page,                           \* the page that is shown
  srv, ui,                        \* a page made of PageForm's steps
  box, dflt, boxes, g, l, p, acked \* the mailbox page

Mailbox == INSTANCE MailboxAdmin
Settings == INSTANCE CompanySettings
Onboard == INSTANCE Onboarding
Directory == INSTANCE DirectoryForms
Recovery == INSTANCE RecoveryDesk
Platform == INSTANCE PlatformForms
Tenants == INSTANCE TenantDirectory
Dialogs == INSTANCE TenantDialogs
Views == INSTANCE OperationsViews

\* No revision, no floor under a revision, and no password is None.
ASSUME ConsoleBounds == None \notin Int \cup [minimum : Int, newer : Int] \cup Onboard!Passwords

mailboxVars == <<box, dflt, boxes, g, l, p, acked>>
formVars == <<srv, ui>>
vars == <<page, form, run, net, stray, moves, calls, rivals, lost, srv, ui, mailboxVars>>

Init ==
  \/ page = "mailbox" /\ Mailbox!Init /\ srv = None /\ ui = None
  \/ /\ \/ page = "settings" /\ Settings!Init
        \/ page = "onboarding" /\ Onboard!Init
        \/ page = "directory" /\ Directory!Init
        \/ page = "recovery" /\ Recovery!Init
        \/ page = "platform" /\ Platform!Init
        \/ page = "tenants" /\ Tenants!Init
        \/ page = "dialogs" /\ Dialogs!Init
        \/ page = "views" /\ Views!Init
     /\ box = None /\ dflt = None /\ boxes = None /\ g = None /\ l = None /\ p = None /\ acked = None

Next ==
  \/ page = "mailbox" /\ Mailbox!Next /\ UNCHANGED <<page, formVars>>
  \/ page = "settings" /\ Settings!Next /\ UNCHANGED <<page, mailboxVars>>
  \/ page = "onboarding" /\ Onboard!Next /\ UNCHANGED <<page, mailboxVars>>
  \/ page = "directory" /\ Directory!Next /\ UNCHANGED <<page, mailboxVars>>
  \/ page = "recovery" /\ Recovery!Next /\ UNCHANGED <<page, mailboxVars>>
  \/ page = "platform" /\ Platform!Next /\ UNCHANGED <<page, mailboxVars>>
  \/ page = "tenants" /\ Tenants!Next /\ UNCHANGED <<page, mailboxVars>>
  \/ page = "dialogs" /\ Dialogs!Next /\ UNCHANGED <<page, mailboxVars>>
  \/ page = "views" /\ Views!Next /\ UNCHANGED <<page, mailboxVars>>

Spec == Init /\ [][Next]_vars

-----------------------------------------------------------------------------
\* What an administrator typed stays until a submission of exactly that input
\* was accepted: a reply, a refresh or a failed reread that arrives while the
\* form is edited on never empties it.  (The activation page keeps its one-time
\* token, and the key dialog the secret of a new key, the same way.)
TypedInputSurvives ==
  [][/\ page = "settings" => Settings!TypedKept
     /\ page = "onboarding" => Onboard!TypedKept /\ Onboard!TokenKept
     /\ page = "directory" => Directory!TypedKept
     /\ page = "platform" => Platform!TypedKept
     /\ page = "tenants" => Tenants!TypedKept
     /\ page = "dialogs" => Dialogs!TypedKept]_vars

\* A write that the server accepts under a revision replaces what its form
\* showed when it was filled in: no refresh, review or late reply moves a filled
\* form to a newer revision unseen.
NoBlindOverwrite ==
  [][/\ page = "mailbox" => Mailbox!OverwritesSeen
     /\ page = "settings" => Settings!OverwritesSeen]_vars

\* What was done is not done again: a form sends nothing more for a revision
\* whose write was acknowledged, although the reread can fail and the page may
\* still show the old state; accepted mail reaches a target once, through
\* retries, lost leases and crashes.
DoneOnce ==
  /\ page = "mailbox" => Mailbox!SavedOnce
  /\ page = "settings" => Settings!SavedOnce
  /\ page = "recovery" => Recovery!DeliveredOnce

\* A review gets its form going again: an explicit read that returns the
\* server's present state, with nothing typed or reread meanwhile, releases it.
ReviewReleases ==
  [][/\ page = "mailbox" => Mailbox!Releases
     /\ page = "settings" => Settings!Releases]_vars

\* A confirmed command does what the screen showed when it was confirmed: an
\* offboarding covers the assets of its preview, a retry or a reconciliation
\* meets the targets and outcomes that were inspected, a save of settings leaves
\* alone what was not edited, typed limits are stored as the numbers they are,
\* and a domain that is deleted is not the primary.
ConfirmedAsShown ==
  [][/\ page = "settings" => Settings!PrimaryKept'
     /\ page = "directory" => Directory!AsConfirmed
     /\ page = "recovery" => Recovery!AsConfirmed
     /\ page = "platform" => Platform!AsConfirmed
     /\ page = "dialogs" => Dialogs!AsConfirmed]_vars

\* The page does not show what is not so: a link for which no invitation is
\* open, an activation that did not happen, the inspection of another job, an
\* earlier observation of a query as its present result, a dead stream as live;
\* and what was acknowledged is shown, or a warning in its place.
ShownIsTrue ==
  /\ page = "onboarding" => Onboard!LinkIsLive /\ Onboard!ActivationIsTrue
  /\ page = "directory" => Directory!Settled
  /\ page = "recovery" => Recovery!OwnInspection
  /\ page = "platform" => Platform!Settled
  /\ page = "tenants" => Tenants!AcknowledgedShown
  /\ page = "dialogs" => Dialogs!AcknowledgedShown
  /\ page = "views" => Views!ListIsCurrent /\ Views!HistoryFollowsResync /\ Views!LiveIsTrue
=============================================================================
