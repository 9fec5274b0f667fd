----------------------------- MODULE MCBooking -----------------------------
\* Booking on the instances TLC checks.
EXTENDS Booking, TLC

\* Handlers are interchangeable.
HandlerSymmetry == Permutations(Handlers)

\* The instances begin with the seeded rooms deleted; an administrator adds the room.
NoSeeds == <<>>
============================================================================
