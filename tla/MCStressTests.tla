--------------------------- MODULE MCStressTests ---------------------------
(* Instances of StressTests for TLC.                                       *)
EXTENDS StressTests

Config(mode, order, resize, clean_) == [mode |-> mode, order |-> order, resize |-> resize, cleanup |-> clean_]

\* Config.TestOrder by default.
DefaultOrder == <<"restore_from_snapshot", "resize", "clone">>

Default == {Config("snapshot_resize_cloning", DefaultOrder, TRUE, FALSE)}

All == {Config("flog", <<>>, TRUE, FALSE)}
       \cup {Config(m, <<>>, FALSE, TRUE) : m \in {"flog", "check_fs_only", "check_cloning", "snapshot_only",
                                                    "check_restoring_from_snapshot"}}
       \cup {Config("snapshot_resize_cloning", o, TRUE, TRUE) :
                 o \in {DefaultOrder, <<"resize", "clone">>}}
       \cup {Config("snapshot_resize_cloning", o, FALSE, FALSE) :
                 o \in {<<"clone", "clone">>, <<"resize">>}}

==============================================================================
