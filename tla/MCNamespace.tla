---------------------------- MODULE MCNamespace ----------------------------
(* Every path may lead into a kvfs, the procfs or the devfs: the names are *)
(* those of a thread's slot and of a device, and directories can have them *)
(* too.                                                                    *)
EXTENDS Namespace

Path(names) == [names |-> names, dir |-> FALSE]
Slash(names) == [names |-> names, dir |-> TRUE]

(* Mounts of file systems, one on top of, inside or beside another.        *)
TreePaths == {Path(<<"2">>), Path(<<"2", "2">>), Path(<<"2", "null">>), Slash(<<"2", "null">>),
              Path(<<"2", "..", "null">>), Path(<<"2", "null", "..", "..", "2">>)}

(* mkdir makes directories nobody may write to, open makes others on its   *)
(* way, so walks and makings meet both.                                    *)
ReadOnly == {ReadAll}
Default == {ACL_DEFAULT}

(* The procfs on /p, with threads that come and go.                        *)
ProcPaths == {Path(<<"p">>), Path(<<"p", "2">>)}
=============================================================================
