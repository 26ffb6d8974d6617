---------------------------- MODULE MCResources ----------------------------
EXTENDS Resources

MCSystems == <<"nw">>
MCHelp == Catalog \cup {upHelp, durationHelp, guardHelp}
MCKey == LabelKey \cup {systemLabel, reasonLabel}
MCText ==
  Reason
  \cup {"", "true", "false", "Full", "Incr", "nw", "a", "b", "d", "e", "g", "h", "j", "m", "n",
        "p", "q", "t", "v", "w", "vc", "1", "2", "7", "19", "warning", "critical", "media",
        "full", "now", "save", "linux", "Saving", "Recovering", "disk", "WORM", "Disk",
        "Enabled", "scsi", "Backup", "Client", "Active", "ok"}

Bytesize(u, n) == [unit |-> u, value |-> n]

(* A typical item of each request. *)
Usual ==
  [alerts |-> [priority |-> "warning", category |-> "media", message |-> "full",
               timestamp |-> "now"],
   clients |-> [hostname |-> "a", ndmp |-> TRUE, scheduledBackup |-> TRUE,
                backupCommand |-> "save", parallelism |-> 2, os |-> "linux",
                resourceId |-> "1"],
   sessions |-> [mode |-> "Saving", clientHostname |-> "a", size |-> Bytesize("KB", 1),
                 transferRate |-> Bytesize("Byte", 2)],
   volumes |-> [name |-> "v", pool |-> "p", type |-> "disk", states |-> "WORM",
                capacity |-> Bytesize("KB", 2), written |-> Bytesize("KB", 1),
                recycled |-> 1],
   datadomainsystems |-> [name |-> "d", model |-> "m", osVersion |-> "7",
                          totalCapacity |-> Bytesize("MB", 2),
                          usedCapacity |-> Bytesize("KB", 1),
                          availableCapacity |-> Bytesize("MB", 1),
                          usedLogicalCapacity |-> Bytesize("B", 2)],
   devices |-> [name |-> "d", mediaType |-> "t", mediaFamily |-> "Disk",
                status |-> "Enabled", deviceSerialNumber |-> "1"],
   storagenodes |-> [name |-> "n", enabled |-> TRUE, typeOfStorageNode |-> "scsi",
                     version |-> "19", numberOfDevices |-> 2],
   pools |-> [name |-> "p", poolType |-> "Backup", enabled |-> TRUE],
   vcenters |-> [hostname |-> "vc", cloudDeployment |-> TRUE],
   protectionpolicies |-> [name |-> "p", workflows |-> <<FALSE, TRUE>>],
   protectiongroups |-> [name |-> "g", workItemType |-> "Client"],
   backups |-> [key |-> "a", full |-> FALSE, size |-> Bytesize("KB", 1), saveTime |-> 0,
                retentionTime |-> 2, completionTime |-> 2],
   serverstatistics |-> [upSince |-> 1, saves |-> 2, saveSize |-> Bytesize("KB", 2),
                         recovers |-> 1, recoverSize |-> Bytesize("Byte", 2),
                         badSaves |-> 1, badRecovers |-> 1, currentSaves |-> 2,
                         currentRecovers |-> 1, maxSaves |-> 2, maxRecovers |-> 1],
   jobs |-> [id |-> "1", name |-> "j", type |-> "save", state |-> "Active",
             completionStatus |-> "ok", clientHostname |-> "a", startTime |-> 1,
             endTime |-> 2, level |-> "full"]]

(* The other values its fields may have, besides being absent.  Some items *)
(* differ only in a field that is no label of one of their metrics.        *)
Other ==
  [alerts |-> [priority |-> {"critical"}],
   clients |-> [hostname |-> {"b"}, resourceId |-> {"2"}, ndmp |-> {FALSE},
                parallelism |-> {0}],
   sessions |-> [mode |-> {"Recovering"}, clientHostname |-> {"b"},
                 size |-> {Bytesize("Byte", 0), Bytesize("other", 1), Bytesize("", Absent)},
                 transferRate |-> {Bytesize("KB", 0)}],
   volumes |-> [name |-> {"w"}, pool |-> {"q"}, capacity |-> {Bytesize("other", 2)},
                written |-> {Bytesize("Byte", 0)}, recycled |-> {0}],
   datadomainsystems |-> [name |-> {"e"}, totalCapacity |-> {Bytesize("other", 2)},
                          usedCapacity |-> {Bytesize("B", 0)},
                          availableCapacity |-> {Bytesize("KB", Absent)}],
   devices |-> [name |-> {"", "e"}],
   storagenodes |-> [enabled |-> {FALSE}, numberOfDevices |-> {0}],
   pools |-> [name |-> {"q"}, enabled |-> {FALSE}],
   vcenters |-> [hostname |-> {""}, cloudDeployment |-> {FALSE}],
   protectionpolicies |-> [name |-> {"q"}, workflows |-> {<<>>, <<FALSE>>}],
   protectiongroups |-> [name |-> {"h"}],
   serverstatistics |-> [saves |-> {0}, saveSize |-> {Bytesize("other", 2)},
                         recoverSize |-> {Bytesize("Byte", 0)}, currentSaves |-> {0}],
   jobs |-> [id |-> {"2"}, startTime |-> {0}, endTime |-> {0}]]

(* Items that differ from the usual one in one field. *)
Items(q) ==
  {Usual[q]}
  \cup {[Usual[q] EXCEPT ![f] = Absent] : f \in DOMAIN Usual[q]}
  \cup UNION {{[Usual[q] EXCEPT ![f] = v] : v \in Other[q][f]} : f \in DOMAIN Other[q]}

-----------------------------------------------------------------------------
(* Save sets.  Readable sizes with zero and ties among them, and each way  *)
(* not to be readable; throughputs 1/2, 2/2 and 1/1, and the ways not to   *)
(* have one.                                                               *)
Sizes == {Absent, Bytesize("other", 2), Bytesize("KB", Absent)}
         \cup {Bytesize("Byte", n) : n \in 0..2}

Times == {<<0, 1, 1>>, <<0, 2, 2>>, <<1, 1, 1>>, <<Absent, 2, 2>>, <<0, Absent, Absent>>}

SaveSet(k, f, s, t) ==
  [key |-> k, full |-> f, size |-> s,
   saveTime |-> t[1], retentionTime |-> t[2], completionTime |-> t[3]]

Pool == {SaveSet("a", TRUE, s, t) : s \in Sizes, t \in Times}
        \cup {SaveSet(k, FALSE, Bytesize("KB", 1), <<0, 2, 2>>) : k \in {"a", "b"}}

SmallPool == {SaveSet("a", TRUE, Bytesize("Byte", n), t) :
                n \in 0..2, t \in {<<0, 1, 1>>, <<0, 2, 2>>, <<1, 1, 1>>}}
             \cup {SaveSet("b", FALSE, Bytesize("KB", 1), <<0, 2, 2>>)}

SaveSets == BoundedSeq(Pool, 2) \cup TupleOf(SmallPool, 3)

-----------------------------------------------------------------------------
(* The statistics are one object, which may be empty. *)
Nothing ==
  [q \in Request |->
     IF q = "serverstatistics" THEN <<[f \in DOMAIN Usual[q] |-> Absent]>> ELSE <<>>]

Lists(q) ==
  CASE q = "backups" -> SaveSets
    [] q = "serverstatistics" -> TupleOf(Items(q), 1)
    [] q = "sessions" -> BoundedSeq(Items(q), 3)
    [] OTHER -> BoundedSeq(Items(q), 2)

(* Servers that hold something of one kind, or a usual item of two kinds. *)
Servers ==
  UNION {{[Nothing EXCEPT ![q] = list] : list \in Lists(q)} : q \in Request}
  \cup {[Nothing EXCEPT ![q] = <<Usual[q]>>, ![r] = <<Usual[r]>>] : q, r \in Request}
=============================================================================
