-------------------------------- MODULE Tools --------------------------------
(***************************************************************************)
(* The commands that share no state with one another, each in a session of *)
(* its own: signing and verifying with a peer's key, discovering a         *)
(* workspace and asking it for routes and links, scoring contributors.     *)
(***************************************************************************)
EXTENDS PeerKeys, Discovery, Contributions

VARIABLE session  \* which of them this session is about

SessionInit ==
  /\ session \in {"keys", "workspace", "scores"}
  /\ KeysInit /\ ContributionsInit
  /\ DiscoveryInit /\ (session # "workspace" => git = {})

Keys == session = "keys" /\ KeysNext /\ UNCHANGED <<session, discoveryvars, scorevars>>

Discover ==
  session = "workspace" /\ DiscoveryNext /\ UNCHANGED <<session, keyvars, scorevars>>

Scores ==
  session = "scores" /\ ContributionsNext /\ UNCHANGED <<session, keyvars, discoveryvars>>

SessionNext == Keys \/ Discover \/ Scores

sessionvars == <<session, keyvars, discoveryvars, scorevars>>

SessionSpec == SessionInit /\ [][SessionNext]_sessionvars
=============================================================================
