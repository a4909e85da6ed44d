------------------------------ MODULE Splines ------------------------------
(***************************************************************************)
(* What the optimiser's solutions are: a cubic for each segment, joined    *)
(* and ending at rest, its control points, which are what the corridor     *)
(* constrains, and its reparameterisation by arc length, which is what     *)
(* the tracker is sent in arc-length mode.  One axis is modelled; motion   *)
(* along it alone has its speed's magnitude.                               *)
(***************************************************************************)
EXTENDS Solver, Sequences

CONSTANT MaxLead  \* bound: the greatest leading coefficient

ASSUME SplinesAssumption == MaxLead \in Nat

Abs(n) == IF n < 0 THEN -n ELSE n

-----------------------------------------------------------------------------
(* A segment p is a cubic in the time since its start.                      *)

getPos(p, tau)   == p.a * tau * tau * tau + p.b * tau * tau + p.c * tau + p.d
getVel(p, tau)   == 3 * p.a * tau * tau + 2 * p.b * tau + p.c
getAccel(p, tau) == 6 * p.a * tau + 2 * p.b

\* The coefficients for a time that runs from 0 to 1.
getBn(p, dt) == p.b * dt * dt
getCn(p, dt) == p.c * dt
getDn(p) == p.d

\* The control points, three times each.
getCP0(p)     == 3 * getPos(p, 0)
getCP1(p, dt) == getCn(p, dt) + 3 * getDn(p)

\* A slip: the linear term is counted once.
getCP2Once(p, dt) == getBn(p, dt) + getCn(p, dt) + 3 * getDn(p)
getCP2(p, dt) == getBn(p, dt) + 2 * getCn(p, dt) + 3 * getDn(p)
getCP3(p, dt) == 3 * getPos(p, dt)

ControlPoints(p, dt) == <<getCP0(p), getCP1(p, dt), getCP2(p, dt), getCP3(p, dt)>>

\* All the control points of x, segment after segment; publishCPS sends them.
get_cps(x, dt) ==
  [n \in 1 .. 4 * N |-> ControlPoints(x[(n - 1) \div 4], dt)[((n - 1) % 4) + 1]]

\* The segment that meets the start of another in position, velocity and acceleration.
Joined(lead, next, dt) ==
  LET b == next.b - 3 * lead * dt
      c == next.c - 3 * lead * dt * dt - 2 * b * dt
  IN [a |-> lead, b |-> b, c |-> c,
      d |-> next.d - lead * dt * dt * dt - b * dt * dt - c * dt]

\* Solutions for every start from which segments with these leading coefficients come to
\* rest at the end.
Solutions(dt) ==
  {LET x[t \in 0 .. N - 1] ==
         Joined(leads[t], IF t = N - 1 THEN [b |-> 0, c |-> 0, d |-> 0] ELSE x[t + 1], dt)
   IN x : leads \in [0 .. N - 1 -> -MaxLead .. MaxLead]}

-----------------------------------------------------------------------------
(* The reparameterisation, in thousandths of the length; M points and one. *)

M == 20

\* The last time that compute_arclen takes a speed at: ten tenths of a segment, added up in
\* floating point, are rounded to its end or beyond it, for all segments alike.
LastTenths == {9, 10}

\* The speeds at the times up to the last, each taken for a tenth of the segment; time is
\* counted in tenths of a tick.
compute_arclen(p, dt, last) ==
  LET tenths == [p EXCEPT !.b = 10 * @, !.c = 100 * @]
      speed(k) == Abs(getVel(tenths, k * dt))
      sum[k \in 0 .. last] == speed(k) + (IF k = 0 THEN 0 ELSE sum[k - 1])
  IN sum[last] * dt

cumsum(x, dt, last) ==
  LET sum[t \in 0 .. N - 1] ==
        compute_arclen(x[t], dt, last) + (IF t = 0 THEN 0 ELSE sum[t - 1])
  IN sum

\* A slip: a segment that ends at the point does not come to it.
min_idx_strict(lengths, i) ==
  LET reached == {t \in DOMAIN lengths : M * lengths[t] > i * lengths[N - 1]}
  IN IF reached = {} THEN -1 ELSE CHOOSE t \in reached : \A u \in reached : t <= u

\* The first segment that the i-th of the M parts of the length comes to, and -1 without one.
min_idx(lengths, i) ==
  LET reached == {t \in DOMAIN lengths : M * lengths[t] >= i * lengths[N - 1]}
  IN IF reached = {} THEN -1 ELSE CHOOSE t \in reached : \A u \in reached : t <= u

\* The segments of the M + 1 points, or no points; where a point is in its segment is left
\* to binary_search.
reparam_traj(x, dt, last) ==
  LET lengths == cumsum(x, dt, last)
      idx == [n \in 1 .. M + 1 |-> min_idx(lengths, n - 1)]
  IN IF \E n \in DOMAIN idx : idx[n] = -1 THEN <<>> ELSE idx

\* The points with their lengths, in M-ths of the whole.
get_arclen_traj(x, dt, last) ==
  LET points == reparam_traj(x, dt, last)
      length == cumsum(x, dt, last)[N - 1]
  IN [n \in DOMAIN points |-> [s |-> (n - 1) * length, segment |-> points[n]]]

-----------------------------------------------------------------------------
(* Properties.                                                              *)

\* A factor and a first duration: what the solver solved with.
Allocations == (FactorInitial .. FactorFinal) \X DtInitials

\* With the allocation <<f, d>> every sample of every solution is taken within its segment,
\* at its place on the Bezier curve of the segment's control points, which is in the hull of
\* these, and with no more acceleration than at some segment's start.
Held(f, d) ==
  LET dt == findDT(f, d)
      t == IntervalOf(f, d)
      tau == [i \in DOMAIN t |-> i * DC - t[i] * dt]
  IN \A i \in 1 .. XSizeOf(f, d) :
       LET on == tau[i]
           rest == dt - on
       IN /\ 0 < on /\ 0 <= rest
          /\ \A x \in Solutions(dt) :
               LET cp == SubSeq(get_cps(x, dt), 4 * t[i] + 1, 4 * t[i] + 4)
               IN /\ 3 * getPos(x[t[i]], on) * dt * dt * dt =
                       cp[1] * rest * rest * rest + 3 * cp[2] * rest * rest * on
                         + 3 * cp[3] * rest * on * on + cp[4] * on * on * on
                  /\ \E u \in 0 .. N - 1 :
                       Abs(getAccel(x[t[i]], on)) <= Abs(getAccel(x[u], 0))

\* The trajectory sent in arc-length mode has all its points, each with a length that its
\* segment has, in the segments' order.  In all it is no shorter than the way made if the
\* segments' ends are sampled.  If not it may be, from a start that speeds up: not by more
\* than a twelve-hundredth of the first acceleration times the segment's duration squared.
Reparameterised(f, d) ==
  LET dt == findDT(f, d)
  IN \A last \in LastTenths, x \in Solutions(dt) :
       LET sent == get_arclen_traj(x, dt, last)
           lengths == cumsum(x, dt, last)
           way == getPos(x[0], 0)
       IN /\ Len(sent) = M + 1
          /\ \A n \in DOMAIN sent :
               /\ sent[n].s <= M * lengths[sent[n].segment]
               /\ sent[n].segment > 0 => sent[n].s >= M * lengths[sent[n].segment - 1]
          /\ last = 10 => sent[M + 1].s >= M * 1000 * Abs(way)
          /\ 3 * sent[M + 1].s >= M * Abs(3000 * way + 5 * getBn(x[0], dt))

\* Of each allocation, whether all its solutions are held, and reparameterised.
AllHeld == {<<fd, Held(fd[1], fd[2])>> : fd \in Allocations}
AllReparameterised == {<<fd, Reparameterised(fd[1], fd[2])>> : fd \in Allocations}

\* Whenever the solver has solved, fillX takes every sample of the solution where the
\* constraints hold it, although it goes on by at most one segment from a sample to the
\* next and acceleration is limited at the segments' starts alone.
SamplesHeld == solver = "solved" => <<<<factor, dtInitial>>, TRUE>> \in AllHeld

\* Whenever the solver has solved, the trajectory sent in arc-length mode leads through the
\* whole solution, although its length is a sum of a few sampled speeds.
LengthsLead == solver = "solved" => <<<<factor, dtInitial>>, TRUE>> \in AllReparameterised
=============================================================================
