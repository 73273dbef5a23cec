------------------------- MODULE MCContainerdConfig -------------------------
(* The CRI plugins that the play's check names and one other plugin.         *)
EXTENDS ContainerdConfig

MCRequired == {{"runtime", "images"}, {"grpc"}}

\* What is disabled: nothing, another plugin, or CRI plugins with and without
\* the daemon still passing the check.
MCFiles ==
    {c \in Content : c.disabled \in {{}, {"snapshotter"}, {"images", "snapshotter"},
                                     {"runtime", "grpc"}}}
=============================================================================
