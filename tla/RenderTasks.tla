----------------------------- MODULE RenderTasks -----------------------------
(***************************************************************************)
(* The render task graph: the tasks that the surfaces, clip masks and      *)
(* cached items of a frame add (picture.rs, render_task.rs), their         *)
(* assignment to passes (render_task_graph.rs), the targets that the       *)
(* passes are given (frame_builder.rs), and the renderer that draws the    *)
(* passes of the frames of all documents with targets from one pool        *)
(* (renderer.rs).                                                          *)
(*                                                                         *)
(* Sizes and pixels are left out.  A target holds the outputs of the tasks *)
(* last drawn to it; all targets of a kind have one size, so that a target *)
(* in the pool is reused as soon as it can be.                             *)
(***************************************************************************)
EXTENDS Integers, Sequences, SequencesExt

CONSTANTS
  NumDocs,         \* the documents, 1..NumDocs in the order of their layers
  MaxSizes,        \* BOUNDS on the tasks added to the frames, [Docs -> Nat],
                   \* and on the surfaces of each, of which one is kept
  Shadows,         \* for each drop-shadow filter, the downscalings of each shadow
  Downscales,      \* how often the other blurs downscale
  MaxRenders       \* BOUND on the calls of render()

ASSUME RenderTasksAssumption ==
  /\ {NumDocs, MaxRenders} \subseteq Nat
  /\ MaxSizes \subseteq [tasks : [1..NumDocs -> Nat], surfaces : Nat]
  /\ Downscales \subseteq Nat
  /\ Shadows \subseteq Seq(Nat)

Docs == 1..NumDocs

VARIABLES
  frames,        \* [Docs -> the frame being built, then drawn]
  filter,        \* [Docs -> the SVG filter whose primitives are being added]
  resolver,      \* TextureResolver: prev_pass_*, saved_targets, pool
  textures,      \* the render targets created so far: kind and content
  now,           \* the document and the pass the renderer has come to
  renders,       \* calls of render()
  misread,       \* reads that did not find the output of the task they name
  panic          \* the first assertion that failed

vars == <<frames, filter, resolver, textures, now, renders, misread, panic>>

Kinds == {"color", "alpha"}      \* RenderTargetKind
None == -1                       \* no saved index, no task
Free == 0                        \* not drawing; no texture

(***************************************************************************)
(* Tasks                                                                   *)
(***************************************************************************)
(* reads: for a picture, what its batches sample, and from which source.   *)
(* "prev" is the target of the previous pass, "saved" the saved target,    *)
(* "either" the saved target if the task has one.                          *)
Task(kind, target, location, children) ==
  [kind |-> kind, target |-> target, location |-> location,
   children |-> children, reads |-> {}, saved |-> FALSE]

Picture(location) == Task("picture", "color", location, <<>>)

add(f, task) == [f EXCEPT !.tasks = Append(@, task)]
Newest(f) == Len(f.tasks)
add_dependency(f, parent, child) ==
  [f EXCEPT !.tasks[parent].children = Append(@, child)]

(* mark_for_saving() panics for a task that is drawn to a cache.           *)
Savable(task) == task.location \in {"fixed", "dynamic"}
mark_for_saving(task) == [task EXCEPT !.saved = TRUE]

(* new_blur: halve n times, then blur vertically and horizontally; the     *)
(* shadows of one filter share tasks through cache, a BlurTaskCache.       *)
Halved(b, n) ==
  IF <<"DownScale", n>> \in DOMAIN b.cache
  THEN [b EXCEPT !.root = b.cache[<<"DownScale", n>>]]
  ELSE LET f == add(b.frame, Task("scaling", b.target, "dynamic", <<b.root>>))
       IN [b EXCEPT !.frame = f, !.root = Newest(f),
                    !.cache = (<<"DownScale", n>> :> Newest(f)) @@ @]

new_blur(b, n) ==
  LET h == FoldLeft(Halved, b, [i \in 1..n |-> i])
      v == add(h.frame, Task("blur", b.target, "dynamic", <<h.root>>))
      f == add(v, Task("blur", b.target, "dynamic", <<Newest(v)>>))
  IN  IF <<"Blur", n>> \in DOMAIN h.cache
      THEN [h EXCEPT !.root = h.cache[<<"Blur", n>>]]
      ELSE [h EXCEPT !.frame = f, !.root = Newest(f),
                     !.cache = (<<"Blur", n>> :> Newest(f)) @@ @]

BlurOf(f, src) ==
  [frame |-> f, target |-> f.tasks[src].target, root |-> src, cache |-> <<>>]

(***************************************************************************)
(* A document's frame is built: surfaces                                   *)
(***************************************************************************)
(* The main picture is task 1; a surface is the task its parent reads      *)
(* (root) and the one its own content hangs on (port).                     *)
EmptyFrame ==
  [tasks |-> <<Picture("fixed")>>, surfaces |-> <<[root |-> 1, port |-> 1]>>,
   cacheable |-> {}, passes |-> <<>>, saves |-> <<>>, has_been_rendered |-> FALSE]

(* The render backend builds one frame at a time; in which order does not  *)
(* matter to the renderer, so it is that of the layers.                    *)
Building(d) ==
  /\ panic = "no"
  /\ frames[d].passes = <<>>
  /\ \A e \in 1..d - 1 : frames[e].passes # <<>>
Prepared(d) == Building(d) /\ filter[d] = <<>>

Reading(f, s, task, from) ==
  [f EXCEPT !.tasks[f.surfaces[s].port].reads = @ \cup {[task |-> task, from |-> from]}]

Surface(f, parent, root, port, from) ==
  Reading([add_dependency(f, f.surfaces[parent].port, root)
             EXCEPT !.surfaces = Append(@, [root |-> root, port |-> port])],
          parent, root, from)

Becomes(d, f) ==
  /\ frames' = [frames EXCEPT ![d] = f]
  /\ \E most \in MaxSizes : \A e \in Docs :
       /\ Len(frames'[e].tasks) <= most.tasks[e]
       /\ Len(frames'[e].surfaces) <= most.surfaces

BuildUnchanged == UNCHANGED <<resolver, textures, now, renders, misread, panic>>

(* A picture composited as it is: its batch takes a saved target into      *)
(* account (Blit), or samples the previous pass (the simple filters).      *)
AddPicture(d, s, from) ==
  /\ Prepared(d)
  /\ LET f == add(frames[d], Picture("dynamic"))
     IN  Becomes(d, Surface(f, s, Newest(f), Newest(f), from))
  /\ UNCHANGED filter /\ BuildUnchanged

(* Mix-blend without the extension: a second task to read the backdrop     *)
(* back into.                                                              *)
AddMixBlend(d, s) ==
  /\ Prepared(d)
  /\ LET r == add(frames[d], Task("readback", "color", "dynamic", <<>>))
         dep == Reading(add_dependency(r, r.surfaces[s].port, Newest(r)), s, Newest(r), "prev")
         f == add(dep, Picture("dynamic"))
     IN  Becomes(d, Surface(f, s, Newest(f), Newest(f), "prev"))
  /\ UNCHANGED filter /\ BuildUnchanged

AddBlur(d, s, n) ==
  /\ Prepared(d)
  /\ LET f == add(frames[d], Picture("dynamic"))
         b == new_blur(BlurOf(f, Newest(f)), n)
     IN  Becomes(d, Surface(b.frame, s, b.root, Newest(f), "prev"))
  /\ UNCHANGED filter /\ BuildUnchanged

(* The parent draws the last shadow, and the content from its saved        *)
(* target.  Only the last blur is a dependency.                            *)
AddDropShadows(d, s, shadows) ==
  /\ Prepared(d)
  /\ LET f == add(frames[d], mark_for_saving(Picture("dynamic")))
         Shadow(b, n) == new_blur([b EXCEPT !.root = Newest(f)], n)
         b == FoldLeft(Shadow, BlurOf(f, Newest(f)), shadows)
     IN  Becomes(d, Reading(Surface(b.frame, s, b.root, Newest(f), "prev"),
                            s, Newest(f), "saved"))
  /\ UNCHANGED filter /\ BuildUnchanged

(* A backdrop filter: the backdrop is a surface of s, and is read again by *)
(* the surface that filters it, also one of s.                             *)
AddBackdropFilter(d, s) ==
  /\ Prepared(d)
  /\ LET b == add(frames[d], Picture("dynamic"))
         backdrop == Newest(b)
         g == add(Surface(b, s, backdrop, backdrop, "either"), Picture("dynamic"))
         f == Surface(g, s, Newest(g), Newest(g), "prev")
     IN  Becomes(d, Reading(add_dependency(f, Newest(f), backdrop),
                            Len(f.surfaces), backdrop, "prev"))
  /\ UNCHANGED filter /\ BuildUnchanged

(* The dirty tiles of a picture cache: the surface is its first tile; the  *)
(* others are drawn in the same pass.                                      *)
AddTile(d) ==
  /\ Prepared(d)
  /\ LET f == add(frames[d], Picture("tile"))
     IN  Becomes(d, [add_dependency(f, 1, Newest(f)) EXCEPT
                       !.surfaces = Append(@, [root |-> Newest(f), port |-> Newest(f)])])
  /\ UNCHANGED filter /\ BuildUnchanged

(* A clip mask of something that surface s draws.                          *)
AddMask(d, s) ==
  /\ Prepared(d)
  /\ LET f == add(frames[d], Task("mask", "alpha", "dynamic", <<>>))
     IN  Becomes(d, Reading(add_dependency(f, f.surfaces[s].port, Newest(f)),
                            s, Newest(f), "prev"))
  /\ UNCHANGED filter /\ BuildUnchanged

(* request_render_task: the last task of the chain goes to the texture     *)
(* cache.  A box shadow is a blurred mask, an image a scaled copy.         *)
Cached(f) == [f EXCEPT !.tasks[Newest(f)].location = "cache",
                       !.cacheable = @ \cup {Newest(f)}]

AddCachedShadow(d, n) ==
  /\ Prepared(d)
  /\ LET f == add(frames[d], Task("mask", "alpha", "dynamic", <<>>))
     IN  Becomes(d, Cached(new_blur(BlurOf(f, Newest(f)), n).frame))
  /\ UNCHANGED filter /\ BuildUnchanged

AddCachedImage(d) ==
  /\ Prepared(d)
  /\ LET f == add(frames[d], Task("scaling", "color", "dynamic", <<>>))
     IN  Becomes(d, Cached(add(f, Task("blit", "color", "dynamic", <<Newest(f)>>))))
  /\ UNCHANGED filter /\ BuildUnchanged

(***************************************************************************)
(* SVG filters: a graph of tasks over one picture                          *)
(***************************************************************************)
(* filter is the surface, the original task and the outputs so far; an     *)
(* input is the original or an earlier output.  A conversion between       *)
(* colour spaces is one more task with one input.                          *)
OpenFilter(d, s) ==
  /\ Prepared(d)
  /\ LET f == add(frames[d], Picture("dynamic"))
     IN  /\ Becomes(d, f)
         /\ filter' = [filter EXCEPT ![d] = <<[surface |-> s, port |-> Newest(f),
                                              outputs |-> <<Newest(f)>>]>>]
  /\ BuildUnchanged

Output(d, f, root) ==
  /\ Becomes(d, f)
  /\ filter' = [filter EXCEPT ![d][1].outputs = Append(@, root)]
  /\ BuildUnchanged

Inputs(d) == IF filter[d] = <<>> THEN {} ELSE Range(filter[d][1].outputs)

AddFilterPrimitive(d, inputs) ==
  /\ Building(d)
  /\ LET f == add(frames[d], Task("svg", "color", "dynamic", inputs))
     IN  Output(d, f, Newest(f))

(* A blur gets its input through a copy, so that it is drawn right before. *)
AddFilterBlur(d, input, n) ==
  /\ Building(d)
  /\ LET f == add(frames[d], Task("svg", "color", "dynamic", <<input>>))
         b == new_blur(BlurOf(f, Newest(f)), n)
     IN  Output(d, b.frame, b.root)

AddFilterShadow(d, input, n) ==
  /\ Building(d)
  /\ LET f == add(frames[d], Task("svg", "color", "dynamic", <<input>>))
         b == new_blur(BlurOf(f, Newest(f)), n)
         g == add(b.frame, Task("svg", "color", "dynamic", <<input, b.root>>))
     IN  Output(d, g, Newest(g))

(* The output of the last primitive; that of an identity is its input.     *)
CloseFilter(d, root) ==
  /\ Building(d)
  /\ LET c == filter[d][1]
     IN  Becomes(d, Surface(frames[d], c.surface, root, c.port, "prev"))
  /\ filter' = [filter EXCEPT ![d] = <<>>]
  /\ BuildUnchanged

(***************************************************************************)
(* generate_passes                                                         *)
(***************************************************************************)
RECURSIVE Depth(_, _, _)
Depth(tasks, roots, t) ==
  LET above == {p \in DOMAIN tasks : t \in Range(tasks[p].children)}
      depths == {Depth(tasks, roots, p) : p \in above} \ {None}
  IN  Max({IF t \in roots THEN 0 ELSE None} \cup {n + 1 : n \in depths})

(* The deepest tasks come first; what no root needs is in no pass.         *)
generate_passes_impl(tasks, roots) ==
  LET depth == [t \in DOMAIN tasks |-> Depth(tasks, roots, t)]
      max_depth == Max(Range(depth))
  IN  [i \in 1..max_depth + 1 |-> {t \in DOMAIN tasks : depth[t] = max_depth + 1 - i}]

AllPasses(f) ==
  (IF f.cacheable = {} THEN <<>> ELSE generate_passes_impl(f.tasks, f.cacheable))
    \o generate_passes_impl(f.tasks, {1})

PassOf(passes, t) == Max({i \in DOMAIN passes : t \in passes[i]} \cup {Free})

(* A child more than one pass behind has to be kept until it is read, and  *)
(* must not be in a target of the pass that reads it.                      *)
MustBeSavedIfOdd(gap, parent) == gap % 2 = 1

MustBeSaved(gap, parent) == gap % 2 = 1 \/ parent.kind = "picture"

Save(g, t, needed) ==
  IF ~needed THEN g
  ELSE IF Savable(g.tasks[t]) THEN [g EXCEPT !.tasks[t] = mark_for_saving(@)]
  ELSE [g EXCEPT !.panic = "mark_for_saving"]

Redirected(g, t, n, gap) ==
  LET c == g.tasks[t].children[n]
      fresh == c \notin DOMAIN g.redirects
      blit == IF fresh THEN Len(g.tasks) + 1 ELSE g.redirects[c]
      h == IF ~fresh THEN g
           ELSE [g EXCEPT
                   !.tasks = Append(@, Task("blit", "color", "dynamic", <<c>>)),
                   !.redirects = (c :> blit) @@ @,
                   !.passes[g.task_passes[c] + 1] = @ \cup {blit}]
  IN  Save([h EXCEPT !.tasks[t].children[n] = blit], blit, gap > 2)

Resolve(g, edge) ==
  LET t == edge[1]
      c == g.tasks[t].children[edge[2]]
      gap == g.task_passes[t] - g.task_passes[c]
  IN  IF g.task_passes[t] = Free \/ gap = 1 THEN g
      ELSE IF MustBeSaved(gap, g.tasks[t]) THEN Save(g, c, TRUE)
      ELSE Redirected(g, t, edge[2], gap)

Edges(tasks) ==
  FlattenSeq([t \in DOMAIN tasks |-> [n \in DOMAIN tasks[t].children |-> <<t, n>>]])

resolve_target_conflicts(tasks, passes) ==
  FoldLeft(Resolve,
           [tasks |-> tasks, passes |-> passes, redirects |-> <<>>, panic |-> "no",
            task_passes |-> [t \in DOMAIN tasks |-> PassOf(passes, t)]],
           Edges(tasks))

(***************************************************************************)
(* build_render_pass: a target is saved if one of its tasks is; the saved  *)
(* targets of a frame are numbered, color before alpha in a pass.          *)
(***************************************************************************)
SavedKinds(g, i) == {g.tasks[t].target : t \in {u \in g.passes[i] : g.tasks[u].saved}}

Numbered(g, i, k) ==
  IF k \notin SavedKinds(g, i) THEN None
  ELSE Cardinality({p \in (1..i - 1) \X Kinds : p[2] \in SavedKinds(g, p[1])})
         + (IF k = "alpha" /\ "color" \in SavedKinds(g, i) THEN 1 ELSE 0)

BuildFrame(d) ==
  /\ Prepared(d)
  /\ now = <<>>
  /\ LET g == resolve_target_conflicts(frames[d].tasks, AllPasses(frames[d]))
     IN  /\ frames' = [frames EXCEPT
                         ![d].tasks = g.tasks, ![d].passes = g.passes,
                         ![d].saves = [i \in DOMAIN g.passes |->
                                         [k \in Kinds |-> Numbered(g, i, k)]]]
         /\ panic' = g.panic
  /\ UNCHANGED <<filter, resolver, textures, now, renders, misread>>

(***************************************************************************)
(* The renderer: TextureResolver and draw_frame                            *)
(***************************************************************************)
(* A target is <<kind, n>>.  end_pass gives the targets of the pass before *)
(* to the list of saved ones or to the pool, color first.                  *)
NoTargets == [k \in Kinds |-> [target |-> <<>>, saved_index |-> None]]

InOrder(r, k) == r.prev_pass[k].saved_index \in {None, Len(r.saved_targets)}

Retired(r, k) ==
  LET at == r.prev_pass[k]
  IN  IF at.target = <<>> THEN r
      ELSE IF at.saved_index = None
      THEN [r EXCEPT !.render_target_pool = @ \cup {at.target}]
      ELSE [r EXCEPT !.saved_targets = Append(@, at.target)]

end_pass(r, targets) ==
  [Retired(Retired(r, "color"), "alpha") EXCEPT !.prev_pass = targets]

EndPassPanics(r) == ~InOrder(r, "color") \/ ~InOrder(Retired(r, "color"), "alpha")

(* bind: the target in which a batch looks for the output of a task.       *)
SavedTarget(index) ==
  LET saved == resolver.saved_targets
      prev == {k \in Kinds : resolver.prev_pass[k].saved_index = index}
  IN  IF index < Len(saved) THEN saved[index + 1]
      ELSE IF prev = {} THEN <<>>
      ELSE resolver.prev_pass[CHOOSE k \in prev : TRUE].target

IndexOf(f, t) == f.saves[PassOf(f.passes, t)][f.tasks[t].target]

Source(f, read) ==
  IF read.from = "prev" \/ (read.from = "either" /\ ~f.tasks[read.task].saved)
  THEN resolver.prev_pass[read.kind].target
  ELSE SavedTarget(IndexOf(f, read.task))

(* Blits read the color target of the previous pass, blurs and scalings    *)
(* the one of their own kind, SVG filters a saved target as well.          *)
Reads(f, t) ==
  LET task == f.tasks[t]
      From(how, kind) ==
        {[task |-> c, from |-> how, kind |-> kind] : c \in Range(task.children)}
  IN  CASE task.kind = "picture" ->
             {[task |-> r.task, from |-> r.from, kind |-> f.tasks[r.task].target] :
                r \in task.reads}
        [] task.kind = "svg" -> From("either", "color")
        [] task.kind = "blit" -> From("prev", "color")
        [] OTHER -> From("prev", task.target)

(* What the batches of a pass are drawn with must still hold what they     *)
(* name, and not be a target that the pass draws to.                       *)
Misread(d, f, drawn, targets) ==
  {e \in drawn \X DOMAIN f.tasks :
     \E r \in Reads(f, e[1]) :
       /\ r.task = e[2]
       /\ LET source == Source(f, r)
          IN  \/ source = <<>>
              \/ source = targets[source[1]].target
              \/ <<d, r.task, renders>> \notin textures[source[1]][source[2]]}

(* allocate_target_texture: an idle target that matches, or a new one.     *)
Idle(k) == {x \in resolver.render_target_pool : x[1] = k}

Allocated(f, i, k) ==
  IF \A t \in f.passes[i] : f.tasks[t].location # "dynamic" \/ f.tasks[t].target # k
  THEN NoTargets[k]
  ELSE [saved_index |-> f.saves[i][k],
        target |-> IF Idle(k) # {} THEN CHOOSE x \in Idle(k) : \A y \in Idle(k) : x[2] <= y[2]
                   ELSE <<k, Len(textures[k]) + 1>>]

(* A target is cleared, then holds what the pass draws to it.              *)
Drawn(k, at, outputs) ==
  IF at.target = <<>> THEN textures[k]
  ELSE [n \in 1..Max({Len(textures[k]), at.target[2]}) |->
          IF n = at.target[2] THEN outputs ELSE textures[k][n]]

(* A cached task is drawn only the first time a frame is.                  *)
DrawnIn(f, i) ==
  {t \in f.passes[i] : f.has_been_rendered => f.tasks[t].location \in {"dynamic", "fixed"}}

Active == {d \in Docs : frames[d].passes # <<>>}

BeginFrame ==
  /\ panic = "no" /\ now = <<>>
  /\ Active # {}
  /\ renders < MaxRenders
  /\ renders' = renders + 1
  /\ now' = <<Min(Active), 1>>
  /\ panic' = IF resolver.prev_pass = NoTargets /\ resolver.saved_targets = <<>>
              THEN "no" ELSE "begin_frame"
  /\ UNCHANGED <<frames, filter, resolver, textures, misread>>

DrawPass ==
  /\ panic = "no" /\ now # <<>>
  /\ LET d == now[1]
         i == now[2]
         f == frames[d]
         offscreen == i < Len(f.passes)
         targets == [k \in Kinds |-> IF offscreen THEN Allocated(f, i, k) ELSE NoTargets[k]]
         outputs == [k \in Kinds |->
                       {<<d, t, renders>> : t \in {u \in f.passes[i] :
                          f.tasks[u].location = "dynamic" /\ f.tasks[u].target = k}}]
         taken == [resolver EXCEPT !.render_target_pool =
                     @ \ {targets[k].target : k \in Kinds}]
     IN  /\ i <= Len(f.passes)
         /\ misread' = misread \cup Misread(d, f, DrawnIn(f, i), targets)
         /\ textures' = [k \in Kinds |-> Drawn(k, targets[k], outputs[k])]
         /\ resolver' = IF offscreen THEN end_pass(taken, targets) ELSE resolver
         /\ panic' = IF offscreen /\ EndPassPanics(resolver) THEN "end_pass" ELSE "no"
         /\ now' = <<d, i + 1>>
  /\ UNCHANGED <<frames, filter, renders>>

Finished(d) == now # <<>> /\ now[1] = d /\ now[2] > Len(frames[d].passes)

(* Between two documents the targets of the last pass are given back, not  *)
(* the saved ones.                                                         *)
NextDocument(d) ==
  /\ panic = "no"
  /\ Finished(d)
  /\ \E e \in Active : e > d
  /\ frames' = [frames EXCEPT ![d].has_been_rendered = TRUE]
  /\ resolver' = end_pass(resolver, NoTargets)
  /\ panic' = IF EndPassPanics(resolver) THEN "end_pass" ELSE "no"
  /\ now' = <<Min({e \in Active : e > d}), 1>>
  /\ UNCHANGED <<filter, textures, renders, misread>>

GivenBackNot(r) == r

GivenBack(r) ==
  [r EXCEPT !.render_target_pool = @ \cup Range(r.saved_targets), !.saved_targets = <<>>]

EndFrame(d) ==
  /\ panic = "no"
  /\ Finished(d)
  /\ \A e \in Active : e <= d
  /\ frames' = [frames EXCEPT ![d].has_been_rendered = TRUE]
  /\ resolver' = GivenBack(end_pass(resolver, NoTargets))
  /\ panic' = IF EndPassPanics(resolver) THEN "end_pass" ELSE "no"
  /\ now' = <<>>
  /\ UNCHANGED <<filter, textures, renders, misread>>

-----------------------------------------------------------------------------
Init ==
  /\ frames = [d \in Docs |-> EmptyFrame]
  /\ filter = [d \in Docs |-> <<>>]
  /\ resolver = [prev_pass |-> NoTargets, saved_targets |-> <<>>, render_target_pool |-> {}]
  /\ textures = [k \in Kinds |-> <<>>]
  /\ now = <<>>
  /\ renders = 0
  /\ misread = {}
  /\ panic = "no"

AddToSurface(d, s) ==
  \/ \E from \in {"prev", "either"} : AddPicture(d, s, from)
  \/ AddMixBlend(d, s)
  \/ \E n \in Downscales : AddBlur(d, s, n)
  \/ \E shadows \in Shadows : AddDropShadows(d, s, shadows)
  \/ AddBackdropFilter(d, s)
  \/ AddMask(d, s)
  \/ OpenFilter(d, s)

Build(d) ==
  \/ \E s \in DOMAIN frames[d].surfaces : AddToSurface(d, s)
  \/ AddTile(d)
  \/ \E n \in Downscales : AddCachedShadow(d, n)
  \/ AddCachedImage(d)
  \/ \E x \in Inputs(d) : AddFilterPrimitive(d, <<x>>)
  \/ \E x, y \in Inputs(d) : AddFilterPrimitive(d, <<x, y>>)
  \/ \E x \in Inputs(d), n \in Downscales : AddFilterBlur(d, x, n)
  \/ \E x \in Inputs(d), n \in Downscales : AddFilterShadow(d, x, n)
  \/ \E x \in Inputs(d) : CloseFilter(d, x)
  \/ BuildFrame(d)

Next ==
  \/ \E d \in Docs : Build(d) \/ NextDocument(d) \/ EndFrame(d)
  \/ BeginFrame
  \/ DrawPass

Spec == Init /\ [][Next]_vars

-----------------------------------------------------------------------------
(* No assertion of the frame builder or the renderer fails: saved targets  *)
(* arrive in the order of their indices, a render begins with none left    *)
(* over, and no cached task is asked to be saved.  At most one document    *)
(* may save targets: end_pass (renderer.rs:1108) takes those of a second   *)
(* for ones out of order.                                                  *)
Saving == {d \in Docs : \E i \in DOMAIN frames[d].passes : SavedKinds(frames[d], i) # {}}
NoPanic == Cardinality(Saving) <= 1 => panic = "no"

(* Whatever a batch samples still holds the output of the task it names,   *)
(* however many passes lie between, and is never the target being drawn.   *)
ReadsOwnChild == misread = {}

=============================================================================
