------------------------------ MODULE MCWebUi ------------------------------
(* Two projects: the first with a second branch that has a spelling of its   *)
(* own, the second without a folder so far; and an url that is none.         *)
EXTENDS WebUi

CONSTANTS alice, bob, release, one, oneDev, two, junk, main, dev, other

(* ids stand for file names: the order of names is not that of the dates *)
Root ==
  [id |-> 2, track |-> release, holder |-> alice, issued |-> 0, expires |-> 9,
   successors |-> <<alice, bob>>, threshold |-> 1, minSuccessors |-> 1,
   maxDuration |-> 9, signedBy |-> alice, signers |-> {alice}, defect |-> "none"]
Takeover == [Root EXCEPT !.id = 0, !.holder = bob, !.issued = 1, !.signedBy = bob,
               !.signers = {bob}]
Renewal == [Root EXCEPT !.id = 1, !.issued = 2]

Urls == {one, oneDev, two, junk}
Junk == {junk}
CanonOf == [u \in Urls \ Junk |-> IF u = two THEN two ELSE one]
ReadsOf ==
  [u \in Urls \ Junk |-> CASE u = two -> other [] u = oneDev -> dev [] OTHER -> main]
Branches == {main, dev, other}
Trees ==
  [b \in Branches |-> CASE b = main -> {Readme, Root, Takeover} [] b = dev -> {Root} [] OTHER -> {}]
ToCome == [b \in Branches |-> IF b = main THEN <<Renewal>> ELSE <<>>]
Pair == {[url |-> two, files |-> <<Root, Takeover>>], [url |-> one, files |-> <<Renewal>>]}

Keys == {alice, bob}
Tracks == {release}
Ids == 0 .. 2
AllAdapters == {"static", "oauth", "server"}
=============================================================================
