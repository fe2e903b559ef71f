------------------------- MODULE InteropSubsurface -------------------------
(***************************************************************************)
(* The subsurface programs: a child placed on a parent, committed once in  *)
(* the synchronized mode, whose state waits for the parent's commit, and   *)
(* once before it turns desynchronized; the parent goes before the child.  *)
(***************************************************************************)
EXTENDS InteropMessages

SubsurfaceGlobals == <<"compositor", "subcompositor">>

Nests ==
  << Construct("compositor", "create_surface", "parent"),
     Construct("compositor", "create_surface", "child"),
     [Construct("subcompositor", "get_subsurface", "subsurface")
        EXCEPT !.args = <<"child", "parent">>],
     Message("subsurface", "set_position", <<-7, 11>>),
     Message("subsurface", "place_above", <<"parent">>),
     Message("subsurface", "place_below", <<"parent">>),
     Call("child", "commit"), Call("parent", "commit"),
     Call("subsurface", "set_sync"), Call("child", "commit"),
     Call("subsurface", "set_desync"), Call("parent", "destroy") >>

SubsurfaceUndo == << Call("subsurface", "destroy"), Call("child", "destroy") >>

\* Whatever is left; the parent is only when the client failed.
SubsurfaceCleanup ==
  SubsurfaceUndo \o << Call("parent", "destroy"), Call("subcompositor", "destroy") >>

SubsurfaceClient ==
  << Roundtrip(<<GetRegistry>>, {"compositor", "subcompositor"}), Roundtrip(Nests, {}) >>

SubsurfaceWayringClient ==
  << SyncedPhase(<<GetRegistry>>, {"compositor", "subcompositor"}),
     Sent(SyncedPhase(Nests \o SubsurfaceUndo \o <<Call("subcompositor", "destroy")>>, {})) >>

-----------------------------------------------------------------------------
(***************************************************************************)
(* The servers count surfaces and commits: each has a flag of its own, and *)
(* the next one is the first that is not set.                              *)
(***************************************************************************)
Counts(flags, noted) ==
  Sets({flags[i] : i \in {j \in DOMAIN flags : {k \in DOMAIN flags : flags[k] \in noted} = 1..(j - 1)}})

SubsurfaceServed(r, noted) ==
  CASE r.op = "bind" -> Reply
    [] r.op = "create_surface" -> Counts(<<"parent created", "child created">>, noted)
    [] r.op = "get_subsurface" -> When(r.args = <<"child", "parent">>, Sets({"created"}))
    [] r.op = "set_position" -> When(r.args = <<-7, 11>>, Sets({r.op}))
    [] r.op \in {"place_above", "place_below"} -> When(r.args = <<"parent">>, Sets({r.op}))
    [] r.op \in {"set_sync", "set_desync"} -> Sets({r.op})
    [] r.op = "commit" ->
         Counts(<<"first commit", "second commit", "third commit">>, noted)
    [] r.op = "destroy" -> Destroys(r.on, {r.on})
    [] OTHER -> Refuses

SubsurfaceExpects ==
  {"parent created", "child created", "created", "set_position", "place_above", "place_below",
   "third commit", "set_sync", "set_desync", "parent", "child", "subsurface", "subcompositor"}

(***************************************************************************)
(* Wayring's server also insists on the order of the requests.  The child  *)
(* has state pending after its commit until the parent latches it, or the  *)
(* child turns desynchronized.                                             *)
(***************************************************************************)
ChildIsPending(noted) ==
  \/ "first pending" \in noted /\ "latched" \notin noted
  \/ "second pending" \in noted /\ "set_desync" \notin noted

SubsurfaceFollows ==
  [set_position |-> {"created"}, place_above |-> {"set_position"},
   place_below |-> {"place_above"}, set_sync |-> {"latched"}]

WayringSubsurfaceAllows(r, noted) ==
  CASE r.op = "get_subsurface" -> "created" \notin noted
    [] r.op \in DOMAIN SubsurfaceFollows ->
         SubsurfaceFollows[r.op] \subseteq noted /\ r.op \notin noted
    [] r.op = "set_desync" ->
         "set_sync" \in noted /\ ChildIsPending(noted) /\ r.op \notin noted
    [] r.op = "commit" /\ r.on = "child" -> "created" \in noted /\ ~ChildIsPending(noted)
    [] r.op = "commit" /\ r.on = "parent" ->
         ChildIsPending(noted) /\ {"set_position", "place_below"} \subseteq noted
    [] r.on = "subsurface" /\ r.op = "destroy" -> "set_desync" \in noted
    [] OTHER -> TRUE

WayringSubsurfaceServed(r, noted) ==
  CASE ~WayringSubsurfaceAllows(r, noted) -> Refuses
    [] r.op = "commit" /\ r.on = "child" ->
         Sets({IF "latched" \in noted THEN "second pending" ELSE "first pending"})
    [] r.op = "commit" /\ r.on = "parent" -> Sets({"latched"})
    [] OTHER -> SubsurfaceServed(r, noted)

WayringSubsurfaceExpects == (SubsurfaceExpects \ {"third commit"}) \cup {"latched"}
=============================================================================
