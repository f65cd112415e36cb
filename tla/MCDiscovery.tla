---------------------------- MODULE MCDiscovery ----------------------------
(* Instances of Discovery: two windows that share a program or not, on one  *)
(* monitor or at the edge of another.                                       *)
EXTENDS Discovery

TwoDisplays == <<[x |-> 0, w |-> 1200, h |-> 900], [x |-> 1200, w |-> 1200, h |-> 900]>>

Rect(x, y, w, h) == [x |-> x, y |-> y, w |-> w, h |-> h]
Big   == Rect(0, 0, 900, 900)
Twin  == Rect(10, 10, 900, 900)
Panel == Rect(100, 100, 600, 500)
Card  == Rect(100, 100, 400, 400)
Strip == Rect(850, 20, 300, 90)
Edge  == Rect(1210, 0, 280, 900)

Look(program, class, shadow, titles, rects) ==
  [kind : {"top"}, program : {program}, class : {class}, shadow : {shadow},
   title : titles, rect : rects]

MixedLooks ==
  UNION {Look("app", "plain", 7, {"", "named"}, {Big, Panel, Strip}),
         Look("browser", "fallback", 0, {"named"}, {Big, Twin, Edge}),
         Look("browser", "fallback", 0, {"legacy", ""}, {Panel}),
         Look("terminal", "fallback", -3, {"named", "hosting"}, {Big, Card}),
         Look("app", "escape", 0, {"named"}, {Panel}),
         {[kind |-> "minimised", program |-> "app", class |-> "plain", shadow |-> 7,
           title |-> "named", rect |-> Big]}}
============================================================================
