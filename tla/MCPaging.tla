------------------------------- MODULE MCPaging -------------------------------
(* A small instance of Paging, and of the PageAllocator in it, for TLC. *)
EXTENDS Paging

R(base, end) == [Base |-> base, Length |-> end - base]

(* A little more memory than the bitmap and the tables can cover. *)
Addresses == 0 .. (Total + 1) * PAGE_SIZE

(* One region of whatever alignment, or two with a hole between them.  None  *)
(* makes the last page of the bitmap available: see TopPageReserved in       *)
(* PageAllocatorProofs.                                                      *)
SomeMaps ==
  {m \in {<<R(x[1], x[2])>> : x \in {y \in Addresses \X Addresses : y[1] <= y[2]}}
           \cup {<<R(1, x), R(x + 1, 17)>> : x \in 3 .. 8} :
     Total - 1 \notin FreeAtBoot(m)}

(* Nothing, a part of a large page, that and whole ones up to the last       *)
(* address that can be mapped, and a byte more than that.                    *)
SomeReserved == {{}, {R(0, 1)}, {R(0, 1), R(16, 36)}, {R(15, 37)}}

SomeSizes == {0, 2, 3, 6}
===============================================================================
