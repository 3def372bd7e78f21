---------------------------- MODULE MCGeneration ----------------------------
(* Two tasks over the keys of one provider and its fallback, in scenarios  *)
(* that each bring other parts of the code to overlap.                     *)
EXTENDS Generation

CONSTANTS a, b

MCTasks == {a, b}
MCLanes == 1..2
MCCalls == MCTasks \X MCLanes

Task(kind, text, image, chunks, features, caption, video, voice) ==
  [kind |-> kind, text |-> text, image |-> image, chunks |-> chunks,
   features |-> features,
   items |-> [caption |-> caption, video |-> video, voice |-> voice]]

Long == << <<1, 2>>, <<3>> >>
Short == << <<1>> >>

MCScenarios ==
  {\* a text in chunks, beside a preview
   a :> Task("scheduled", TRUE, FALSE, Long, {}, 0, 0, 0) @@
   b :> Task("preview", TRUE, FALSE, Short, {}, 0, 0, 0),
   \* two tasks that want an image, with media
   a :> Task("scheduled", TRUE, TRUE, Short, {}, 0, 0, 0) @@
   b :> Task("manual", TRUE, TRUE, Short, {"thinking"}, 2, 0, 0),
   \* an image of a chunked history, beside a weekly chart
   a :> Task("scheduled", TRUE, TRUE, Long, {}, 0, 0, 0) @@
   b :> Task("weekly", FALSE, TRUE, Short, {}, 0, 0, 0),
   \* images without a text
   a :> Task("scheduled", FALSE, TRUE, Short, {"stream"}, 0, 1, 0) @@
   b :> Task("manual", FALSE, TRUE, Short, {}, 0, 0, 1)}
=============================================================================
