----------------------------- MODULE ProjectRating -----------------------------
(***************************************************************************)
(* What team members think of each other, and what becomes of it: ratings, *)
(* the score of a membership, its copies when the member is removed, and   *)
(* the collaboration index of the user.                                    *)
(*                                                                         *)
(* Each request is one transaction.  Whoever rates locks the rows of both  *)
(* members; an administrator locks the row of the rated one, if it is      *)
(* still there; a removal locks it too; and all lock the user's row before *)
(* they compute his index.  The copies of a score do not name the          *)
(* membership they were made of: they are found by their times.  (A role   *)
(* is that of the whole membership here.)                                  *)
(*                                                                         *)
(* Scores are hundredths of a point, weights are fifths.  A tick of the    *)
(* clock stands for a month or more.                                       *)
(***************************************************************************)
EXTENDS Integers, Sequences, FiniteSets, FiniteSetsExt

CONSTANTS
  None,
  Users,
  Projects,
  Weights,     \* those of the roles of members, out of 5, 4, 3 and 2
  Scores,      \* what a rating may give, in hundredths
  MaxTime,
  MaxCycles,   \* bound: memberships
  MaxRatings   \* bound: ratings

VARIABLES
  now,
  cycle,   \* the memberships: project_members, its project_member_score, and the
           \* project_member_removal and the collaboration_score that end it
  rating,  \* project_member_rating, in the order of its ids
  index,   \* user.collaboration_score
  unheard  \* history: users whose index was not computed when scores were deleted

vars == <<now, cycle, rating, index, unheard>>

InitialScore == 9000
Freeze == 1
Cooldown == 1

\* state: a removed member has a removal (left: its score) and, if it was rated,
\* a score of the past (frozen); a lost one was deleted without either; nothing
\* is left of one whose project was purged.  edited: the past was rewritten.
CycleRecords ==
  [p : Projects, u : Users, weight : Weights, joined : Nat,
   state : {"active", "removed", "lost", "gone"}, ended : Nat,
   score : Nat \cup {None}, left : Nat \cup {None}, frozen : Nat \cup {None}, edited : BOOLEAN]
RatingRecords == [rater : Nat, target : Nat, weight : Weights, score : Scores, at : Nat]

TypeOK ==
  /\ now \in Nat
  /\ cycle \in Seq(CycleRecords)
  /\ rating \in Seq(RatingRecords)
  /\ \A i \in DOMAIN rating : {rating[i].rater, rating[i].target} \subseteq DOMAIN cycle
  /\ index \in [Users -> Nat]
  /\ unheard \subseteq Users

Init ==
  /\ now = 0
  /\ cycle = << >> /\ rating = << >>
  /\ index = [u \in Users |-> InitialScore]
  /\ unheard = {}

Cycles == DOMAIN cycle
Active(c) == cycle[c].state = "active"

-----------------------------------------------------------------------------
(* The numbers.                                                            *)

RoundedRatio(sum, n) == (2 * sum + n) \div (2 * n)

\* The ratings of a membership that count: the last one of each user, whether he
\* was the same member then or not.
Effective(c, rs) ==
  {i \in DOMAIN rs :
     /\ rs[i].target = c
     /\ \A j \in DOMAIN rs :
          rs[j].target = c /\ cycle[rs[j].rater].u = cycle[rs[i].rater].u => j <= i}

weightedProjectRatingScore(c, rs) ==
  LET I == Effective(c, rs)
  IN  RoundedRatio(SumFunction([i \in I |-> rs[i].score * rs[i].weight]),
                   SumFunction([i \in I |-> rs[i].weight]))

\* The mean of what is frozen and of the scores of the present memberships.
Collaboration(u, cs) ==
  LET past    == {c \in DOMAIN cs : cs[c].u = u /\ cs[c].state = "removed" /\ cs[c].frozen # None}
      present == {c \in DOMAIN cs : cs[c].u = u /\ cs[c].state = "active" /\ cs[c].score # None}
  IN  IF past \cup present = {} THEN InitialScore
      ELSE RoundedRatio(SumFunction([c \in past |-> cs[c].frozen])
                          + SumFunction([c \in present |-> cs[c].score]),
                        Cardinality(past) + Cardinality(present))

\* The cycles cs are written, and the index of u, once his row is locked.
UpdateUserCollaborationScoreTx(u, cs) ==
  /\ cycle' = cs
  /\ index' = [index EXCEPT ![u] = Collaboration(u, cs)]
  /\ unheard' = unheard \ {u}

-----------------------------------------------------------------------------
(* Who may rate.                                                           *)

projectRatingFreeze(joined) == joined + Freeze > now

\* at: the times of the earlier ratings.
projectRatingCooldown(at) == at # {} /\ Max(at) + Cooldown > now

\* What RateProjectMember asks for.
MayRate(r, t) ==
  /\ Active(r) /\ Active(t)
  /\ cycle[r].p = cycle[t].p /\ cycle[r].u # cycle[t].u
  /\ ~projectRatingFreeze(cycle[r].joined) /\ ~projectRatingFreeze(cycle[t].joined)
  /\ ~projectRatingCooldown(
        {rating[i].at : i \in {j \in DOMAIN rating :
           rating[j].rater = r /\ rating[j].target = t /\ cycle[rating[j].target].p = cycle[r].p}})

\* What the list says of each member to member r.
CanRate(r, t) ==
  /\ Active(r) /\ Active(t) /\ cycle[t].p = cycle[r].p
  /\ cycle[t].u # cycle[r].u
  /\ IF projectRatingFreeze(cycle[r].joined) THEN FALSE
     ELSE IF projectRatingFreeze(cycle[t].joined) THEN FALSE
     ELSE ~projectRatingCooldown({rating[i].at : i \in {j \in DOMAIN rating :
                                    rating[j].rater = r /\ rating[j].target = t}})

-----------------------------------------------------------------------------
(* The requests.                                                           *)

RateProjectMember(r, t, s) ==
  LET rs == Append(rating, [rater |-> r, target |-> t, weight |-> cycle[r].weight, score |-> s, at |-> now])
  IN  /\ Len(rating) < MaxRatings
      /\ MayRate(r, t)
      /\ rating' = rs
      /\ UpdateUserCollaborationScoreTx(cycle[t].u,
           [cycle EXCEPT ![t].score = weightedProjectRatingScore(t, rs)])
      /\ UNCHANGED now

\* (Mutant: the last removal of the same user, whenever he was rated.)
Matches_Last(c) ==
  {d \in Cycles : cycle[d].state = "removed" /\ cycle[d].p = cycle[c].p /\ cycle[d].u = cycle[c].u}

\* The removals whose member may have got the ratings of membership c, by their times.
Matches(c) ==
  LET at == {rating[i].at : i \in {j \in DOMAIN rating : rating[j].target = c}}
  IN  {d \in Cycles : /\ cycle[d].state = "removed"
                      /\ cycle[d].p = cycle[c].p /\ cycle[d].u = cycle[c].u
                      /\ cycle[d].joined <= Min(at) /\ cycle[d].ended >= Max(at)}

EndedBefore(e, d) == \/ cycle[e].ended < cycle[d].ended
                     \/ cycle[e].ended = cycle[d].ended /\ e <= d
Last(D) == {d \in D : \A e \in D : EndedBefore(e, d)}

\* The frozen score that was written during the membership of removal d, the
\* nearest to its end.
FrozenOf(d) ==
  Last({e \in Cycles : /\ cycle[e].p = cycle[d].p /\ cycle[e].u = cycle[d].u
                       /\ cycle[e].state = "removed" /\ cycle[e].frozen # None
                       /\ cycle[d].joined <= cycle[e].ended /\ cycle[e].ended <= cycle[d].ended})

\* An administrator changes a rating, also one that does not count any more, or
\* one of a membership that has ended.
UpdateProjectRating(i, s) ==
  LET c  == rating[i].target
      rs == [rating EXCEPT ![i].score = s]
      v  == weightedProjectRatingScore(c, rs)
      scored == [cycle EXCEPT ![c].score = v]
      found == Last(Matches(c))
      kept == UNION {FrozenOf(d) : d \in found}
  IN  /\ i \in DOMAIN rating
      /\ cycle[c].state # "gone"
      /\ rating' = rs
      /\ UpdateUserCollaborationScoreTx(cycle[c].u,
           [e \in Cycles |->
              [scored[e] EXCEPT !.left   = IF e \in found THEN v ELSE @,
                                !.frozen = IF e \in kept THEN v ELSE @,
                                !.edited = @ /\ e \notin kept]])
      /\ UNCHANGED now

\* The score of the past is changed, and nothing else; the same one is refused.
UpdateUserCollaborationScore(c, s) ==
  /\ cycle[c].state = "removed" /\ cycle[c].frozen \notin {None, s}
  /\ UpdateUserCollaborationScoreTx(cycle[c].u, [cycle EXCEPT ![c].frozen = s, ![c].edited = TRUE])
  /\ UNCHANGED <<now, rating>>

\* Whoever comes back does so later than the second in which he was removed.
Join(p, u, weight) ==
  /\ Len(cycle) < MaxCycles
  /\ \A c \in Cycles : cycle[c].p = p /\ cycle[c].u = u => ~Active(c) /\ cycle[c].ended < now
  /\ cycle' = Append(cycle, [p |-> p, u |-> u, weight |-> weight, joined |-> now, state |-> "active",
                             ended |-> now, score |-> None, left |-> None, frozen |-> None, edited |-> FALSE])
  /\ UNCHANGED <<now, rating, index, unheard>>

\* The index is not computed again: it is the mean of the same numbers.
RemoveMember(c) ==
  /\ Active(c)
  /\ cycle' = [cycle EXCEPT ![c].state = "removed", ![c].ended = now,
                            ![c].left = cycle[c].score, ![c].frozen = cycle[c].score]
  /\ UNCHANGED <<now, rating, index, unheard>>

\* The list of members omits somebody: his row is deleted, and no more.
syncProjectMembersTx(c) ==
  /\ Active(c)
  /\ cycle' = [cycle EXCEPT ![c].state = "lost", ![c].ended = now]
  /\ unheard' = unheard \cup {cycle[c].u}
  /\ UNCHANGED <<now, rating, index>>

deleteProjectRelations(p) ==
  LET gone == {c \in Cycles : cycle[c].p = p}
  IN  /\ gone # {} /\ \E c \in gone : cycle[c].state # "gone"
      /\ cycle' = [c \in Cycles |-> IF c \in gone
                                    THEN [cycle[c] EXCEPT !.state = "gone", !.score = None, !.left = None,
                                                          !.frozen = None, !.edited = FALSE]
                                    ELSE cycle[c]]
      /\ unheard' = unheard \cup {cycle[c].u : c \in gone}
      /\ UNCHANGED <<now, rating, index>>

Tick == now < MaxTime /\ now' = now + 1 /\ UNCHANGED <<cycle, rating, index, unheard>>

Next ==
  \/ Tick
  \/ \E p \in Projects : deleteProjectRelations(p) \/ \E u \in Users, w \in Weights : Join(p, u, w)
  \/ \E c \in Cycles : RemoveMember(c) \/ syncProjectMembersTx(c)
  \/ \E s \in Scores :
       \/ \E r, t \in Cycles : RateProjectMember(r, t, s)
       \/ \E i \in DOMAIN rating : UpdateProjectRating(i, s)
       \/ \E c \in Cycles : UpdateUserCollaborationScore(c, s)

Spec == Init /\ [][Next]_vars

-----------------------------------------------------------------------------
(* Properties                                                              *)

\* The score of a membership is the mean of what each user thought of it last;
\* what was kept of it when it ended is that same number, also when a rating was
\* corrected later and the member had come back: the copies, which are found by
\* their times, are those of the right membership.  The index of a user is the
\* mean of them all, unless scores of his were deleted and nothing was computed
\* since.
ScoresAgree ==
  /\ \A c \in Cycles :
       LET rated == {i \in DOMAIN rating : rating[i].target = c} # {}
       IN  /\ cycle[c].state # "gone" /\ rated => cycle[c].score = weightedProjectRatingScore(c, rating)
           /\ cycle[c].state = "removed" => cycle[c].left = cycle[c].score
           /\ cycle[c].state = "removed" /\ ~cycle[c].edited => cycle[c].frozen = cycle[c].score
  /\ \A u \in Users \ unheard : index[u] = Collaboration(u, cycle)

\* Whom the list offers for a rating, the request accepts, and the reverse.
OfferedIsAccepted ==
  \A r, t \in Cycles : Active(r) /\ Active(t) /\ cycle[r].p = cycle[t].p => (CanRate(r, t) <=> MayRate(r, t))

=============================================================================
