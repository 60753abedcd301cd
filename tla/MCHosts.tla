------------------------------ MODULE MCHosts -------------------------------
(* The TLC instance of the list of servers: how it is read from the          *)
(* configuration, and what the constructors of handles do with it.  A        *)
(* behaviour is one of IniFile or of HostList.                               *)
EXTENDS MCIniFile, HostList

VARIABLE part

mcVars == <<part, iniVars, hostsVars>>

MCServers == <<"s1", "s2", "s3">>

MCInit == part \in {"file", "list"} /\ IniInit /\ HostsInit

MCNext ==
    /\ UNCHANGED part
    /\ \/ part = "file" /\ IniNext   /\ UNCHANGED hostsVars
       \/ part = "list" /\ HostsNext /\ UNCHANGED iniVars

MCSpec == MCInit /\ [][MCNext]_mcVars
=============================================================================
