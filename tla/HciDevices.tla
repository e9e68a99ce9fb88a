----------------------------- MODULE HciDevices -----------------------------
(***************************************************************************)
(* How lib/hci.c finds and opens a controller.  The kernel is asked twice:  *)
(* for the list of controllers with their flags, and then for each of them; *)
(* in between they come up, go down and are unplugged, so that an operator  *)
(* is given what the kernel says at each time.  A controller has flags and  *)
(* an address; the kernel knows those in the domain of what it says.        *)
(***************************************************************************)
EXTENDS Naturals, Integers, Sequences, SequencesExt

UP == "up"
RAW == "raw"
AnyAddress == "any" \* BDADDR_ANY, which no controller has

Controller(flags, bdaddr) == [flags |-> flags, bdaddr |-> bdaddr]

\* hci_devinfo: what the kernel says of a controller, if it knows it
Knows(kernel, id) == id \in DOMAIN kernel

\* the controllers for which __other_bdaddr and __same_bdaddr are true
OtherBdaddr(kernel, bdaddr) ==
  {id \in DOMAIN kernel : RAW \notin kernel[id].flags /\ kernel[id].bdaddr # bdaddr}
SameBdaddr(kernel, bdaddr) == {id \in DOMAIN kernel : kernel[id].bdaddr = bdaddr}

\* hci_for_each_dev: the first controller of the list, in the order of the kernel,
\* that has the flag and of which the function is true, -1 with ENODEV if there
\* is none
HciForEachDev(listed, flag, true) ==
  LET fit == {id \in DOMAIN listed : flag \in listed[id].flags} \cap true
  IN  IF fit = {} THEN -1 ELSE Head(SetToSortSeq(fit, <))

\* hci_get_route: another controller than the one with that address, or that
\* one; the kernel is asked four times
HciGetRoute(k, bdaddr) ==
  LET other == HciForEachDev(k[1], UP, OtherBdaddr(k[2], bdaddr))
  IN  IF other >= 0 THEN other ELSE HciForEachDev(k[3], UP, SameBdaddr(k[4], bdaddr))

\* hci_devba: ENODEV, ENETDOWN or the address
HciDevba(kernel, id) ==
  IF ~Knows(kernel, id) THEN "ENODEV"
  ELSE IF UP \notin kernel[id].flags THEN "ENETDOWN"
  ELSE kernel[id].bdaddr

\* hci_devid of "hci" and a number, and of an address
HciDevidOfName(k, id) ==
  IF HciDevba(k[1], id) \in {"ENODEV", "ENETDOWN"} THEN -1 ELSE id
HciDevidOfAddress(k, bdaddr) ==
  HciForEachDev(k[1], UP, SameBdaddr(k[2], bdaddr))

\* hci_open_dev: the kernel binds a socket to a controller it knows
HciOpenDev(kernel, id) ==
  IF id < 0 THEN "ENODEV" ELSE IF Knows(kernel, id) THEN "open" ELSE "refused"

\* hci_inquiry: the controller it asks, and how many answers it has room for
\* and asks for (uint8_t; 0 is no limit)
HciInquiryDev(k, id) == IF id < 0 THEN HciGetRoute(k, AnyAddress) ELSE id
HciInquiryRoom(nrsp) ==
  IF nrsp <= 0 THEN [room |-> 255, asked |-> 0] ELSE [room |-> nrsp, asked |-> nrsp % 256]

-----------------------------------------------------------------------------
(* Two controllers that are changed while they are looked for: what a search *)
(* returns.                                                                 *)

Worlds ==
  LET some(S) == [S -> {Controller(f, b) : f \in SUBSET {UP, RAW}, b \in {"a", "b"}}]
  IN  UNION {some(S) : S \in SUBSET {0, 1}}
\* what one controller did between two questions
Changes(w) == {w} \cup {[id \in DOMAIN w \ {gone} |-> w[id]] : gone \in DOMAIN w}
  \cup {[w EXCEPT ![id].flags = {}] : id \in DOMAIN w}

WasUp(kernel, id) == Knows(kernel, id) /\ UP \in kernel[id].flags

DevicesAssumption ==
  /\ \A w \in Worlds : \A v \in Changes(w) : \A b \in {"a", "b"} :
       LET k == <<w, v, v, v>>
           found == HciGetRoute(k, b)
       IN  \* a route is a controller that was up when it was listed, and is the
           \* one with that address only if there is no other to take
           /\ found >= 0 => WasUp(w, found) /\ Knows(v, found)
           /\ found >= 0 /\ v[found].bdaddr = b =>
                \A id \in DOMAIN v : WasUp(w, id) /\ v[id].bdaddr # b => RAW \in v[id].flags
           \* with what was found by its name its address is known as well
           /\ \A id \in {0, 1} : HciDevidOfName(k, id) = id => HciDevba(w, id) = w[id].bdaddr
           /\ HciDevidOfAddress(k, b) >= 0 => v[HciDevidOfAddress(k, b)].bdaddr = b
           /\ HciOpenDev(v, found) = (IF found < 0 THEN "ENODEV" ELSE "open")
  \* an inquiry never asks for more answers than it has room for
  /\ \A n \in -1 .. 300 : HciInquiryRoom(n).asked # 0 => HciInquiryRoom(n).asked <= HciInquiryRoom(n).room
=============================================================================
