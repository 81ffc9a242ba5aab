---------------------------- MODULE FrameBuffer ----------------------------
(***************************************************************************)
(* The dirty limits of sw_imu/imu/framebuffer.cpp: every function that     *)
(* draws widens them, SSD1306::update() sends the pages between them and   *)
(* resets them.  Nothing reads the limits of the columns: whole pages are  *)
(* sent, and the columns are left out.                                     *)
(*                                                                         *)
(* These are operators; the threads that draw, and the lock they draw      *)
(* under, are in Suspend.                                                  *)
(***************************************************************************)
EXTENDS Naturals

CONSTANT Pages   \* template parameter: the pages of eight rows, the first one on top

ASSUME PagesAssumption == Pages \in Nat /\ Pages > 1

Page == 0 .. Pages - 1

\* y_max may be one past the last page.
Limits == [y_min : Page, y_max : 0 .. Pages]

min(a, b) == IF a < b THEN a ELSE b
max(a, b) == IF a > b THEN a ELSE b

\* The limits that sync() leaves: y_min is above y_max, and nothing is dirty.
Synced == [y_min |-> Pages - 1, y_max |-> 0]

\* Pages from first to last are cleared.
clear_area(l, first, last) == [y_min |-> min(first, l.y_min), y_max |-> max(last, l.y_max)]

\* Text of n pages from page p.  The loop ends at the page after the text, or at
\* the end of the buffer.
write_text(l, p, n) ==
  [y_min |-> min(p, l.y_min),
   y_max |-> IF p + n >= Pages THEN Pages ELSE max(p + n, l.y_max)]

\* What should be y_max is assigned to x_max.
draw_pos_neg_bar(l, p) == [l EXCEPT !.y_min = min(p, @)]

\* The pages that update() sends.
Dirty(l) == (l.y_min .. l.y_max) \intersect Page

=============================================================================
