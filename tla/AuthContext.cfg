\* Two tabs, a reviewer and an owner, and a few sessions.
CONSTANTS
  Tabs = {t1, t2}
  Accounts = {ann, bob}
  Earlier = ann
  Nobody = nobody
  Gone = gone
  MaxSessions = 3
  MaxJobs = 2
  Editors = {t1}
  Aging = {2}
SPECIFICATION FairBrowserSpec
INVARIANT StoreMatchesServer
INVARIANT ShownUserSpeaks
PROPERTY GuardDecides
CHECK_DEADLOCK FALSE
