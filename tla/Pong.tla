-------------------------------- MODULE Pong --------------------------------
(***************************************************************************)
(* The game (pong/pong.go, pong/adversary.go) and the handlers that start, *)
(* steer and stop it (cmd/main.go).  A tick takes the input of player 1,   *)
(* lets the adversary decide for player 2, and computes the next state     *)
(* from a hash of the network, of which it uses the remainders of a few    *)
(* bytes; without a hash the tick is lost, and the input with it.          *)
(*                                                                         *)
(* ComputeNextStateQuantum is ComputeNextState with the speed, the spin    *)
(* and the paddles modified by the pressure; Classical is the pressure     *)
(* that modifies nothing, which the handlers' engine plays with.           *)
(***************************************************************************)
EXTENDS Integers

CONSTANTS
    FieldWidth, FieldHeight, PaddleHeight, PaddleWidth, PaddleMargin, BallSize,
    MaxBallSpeed, PaddleSpeed, InitialBallDX, InitialBallDY, WinScore,
    Hash,         \* what a hash gives: [paddles, speed, wall, hit, serve]
    Pressure,     \* what a pressure modifies: [speed, spin, paddle, jitter]
    None

VARIABLES
    game,     \* the state of app.pongEngine, None without one
    input,    \* input1 of the engine
    tried     \* history: the player whose paddle the ball was last seen to miss, or 0

vars == <<game, input, tried>>

Classical == [speed |-> 0, spin |-> 0, paddle |-> PaddleSpeed, jitter |-> TRUE]

NewState ==
    [x |-> FieldWidth \div 2, y |-> FieldHeight \div 2, dx |-> InitialBallDX, dy |-> InitialBallDY,
     paddle |-> [p \in {1, 2} |-> (FieldHeight - PaddleHeight) \div 2],
     score |-> [p \in {1, 2} |-> 0], winner |-> 0]

Init == game = None /\ input = 0 /\ tried = 0

-----------------------------------------------------------------------------
Clamp(v, min, max) == IF v < min THEN min ELSE IF v > max THEN max ELSE v

(* Go divides towards zero.                                                *)
Quotient(a, b) == IF a >= 0 THEN a \div b ELSE -((-a) \div b)

Sign(v) == IF v > 0 THEN 1 ELSE IF v < 0 THEN -1 ELSE 0

(* Inputs are -1 for up, 0 for none and 1 for down.                        *)
MovePaddles(s, inputs, h, q) ==
    [s EXCEPT !.paddle = [p \in {1, 2} |->
        Clamp(s.paddle[p] + inputs[p] * q.paddle + (IF q.jitter THEN h.paddles[p] - 1 ELSE 0),
              0, FieldHeight - PaddleHeight)]]

MoveBall(s, h, q) ==
    LET mod == Quotient(h.speed - 2 + q.speed, 2)
    IN  [s EXCEPT !.x = @ + s.dx + q.speed * Sign(s.dx), !.y = @ + s.dy,
                  !.dx = IF @ > 0 THEN Clamp(@ + mod, 1, MaxBallSpeed + q.speed)
                         ELSE Clamp(@ - mod, -MaxBallSpeed - q.speed, -1)]

(* The upper wall, then the lower one.                                     *)
BounceUp(s, h, q) ==
    IF s.y > 0 THEN s
    ELSE [s EXCEPT !.y = -@, !.dy = -@ + h.wall - 1 + q.spin]

BounceDown(s, h, q) ==
    IF s.y < FieldHeight - BallSize THEN s
    ELSE [s EXCEPT !.y = 2 * (FieldHeight - BallSize) - @, !.dy = -@ + h.wall - 1 + q.spin]

(* Mutant: the ball counts as past paddle 1 as soon as its left edge is.   *)
AtPaddleNarrow(s, p) ==
    IF p = 1 THEN s.x <= PaddleMargin + PaddleWidth /\ s.x >= PaddleMargin
    ELSE s.x + BallSize >= FieldWidth - PaddleMargin - PaddleWidth /\ s.x <= FieldWidth - PaddleMargin

AtPaddle(s, p) ==
    IF p = 1 THEN s.x <= PaddleMargin + PaddleWidth /\ s.x >= PaddleMargin - BallSize
    ELSE s.x + BallSize >= FieldWidth - PaddleMargin - PaddleWidth /\ s.x <= FieldWidth - PaddleMargin

Covers(s, p) == s.y + BallSize >= s.paddle[p] /\ s.y <= s.paddle[p] + PaddleHeight

(* A paddle that covers the ball returns it, one faster and with a spin    *)
(* from the place where it hits.                                           *)
HitPaddle(s, p, h, q) ==
    LET top == MaxBallSpeed + q.speed
        pos == s.y - s.paddle[p] + BallSize \div 2
        spin == Quotient(pos * 6, PaddleHeight) - 3
        back == -s.dx
    IN  IF ~ (AtPaddle(s, p) /\ Covers(s, p)) THEN s
        ELSE [s EXCEPT !.x = IF p = 1 THEN PaddleMargin + PaddleWidth + 1
                             ELSE FieldWidth - PaddleMargin - PaddleWidth - BallSize - 1,
                       !.dy = Clamp(@ + spin + h.hit - 2 + q.spin, -top, top),
                       !.dx = IF p = 1 THEN (IF back < top THEN back + 1 ELSE back)
                              ELSE (IF back > -top THEN back - 1 ELSE back)]

(* resetBall serves towards the player who lost the point ...              *)
ResetBall(s, h, scored) ==
    [s EXCEPT !.x = FieldWidth \div 2, !.y = FieldHeight \div 2,
              !.dx = IF scored = 1 THEN -InitialBallDX ELSE InitialBallDX,
              !.dy = IF h.serve = 2 THEN 1 ELSE h.serve - 2]

(* ... when the ball has left the field.                                   *)
Point(s, h) ==
    LET scored == IF s.x < 0 THEN 2 ELSE IF s.x > FieldWidth THEN 1 ELSE 0
    IN  IF scored = 0 THEN s
        ELSE ResetBall([s EXCEPT !.score[scored] = @ + 1], h, scored)

GameOver(s) == s.winner # 0

Winner(s) ==
    [s EXCEPT !.winner = IF s.score[1] >= WinScore THEN 1
                         ELSE IF s.score[2] >= WinScore THEN 2 ELSE 0]

(* The ball has moved and is compared with the paddles.                    *)
Moved(s, inputs, h, q) ==
    BounceDown(BounceUp(MoveBall(MovePaddles(s, inputs, h, q), h, q), h, q), h, q)

ComputeNextStateQuantum(s, inputs, h, q) ==
    LET m == Moved(s, inputs, h, q)
    IN  Winner(Point(HitPaddle(HitPaddle(m, 1, h, q), 2, h, q), h))

ComputeNextState(s, inputs, h) == ComputeNextStateQuantum(s, inputs, h, Classical)

-----------------------------------------------------------------------------
(* The ball is seen to miss a paddle.                                      *)
Tried(m) ==
    IF \E p \in {1, 2} : AtPaddle(m, p) /\ ~ Covers(m, p)
    THEN CHOOSE p \in {1, 2} : AtPaddle(m, p) /\ ~ Covers(m, p)
    ELSE IF \E p \in {1, 2} : AtPaddle(m, p) THEN 0 ELSE tried

(* /pong/start: a new engine in place of the old one.                      *)
PongStart ==
    /\ game' = NewState
    /\ input' = 0 /\ tried' = 0

(* /pong/stop                                                              *)
PongStop ==
    /\ game # None
    /\ game' = None
    /\ input' = 0 /\ tried' = 0

(* /pong/input for player 1: the last one before a tick counts.  The       *)
(* adversary's engine does not look at the input of player 2.              *)
PongInput ==
    /\ game # None
    /\ input' \in {-1, 0, 1}
    /\ UNCHANGED <<game, tried>>

(* /pong/reset keeps the input.                                            *)
PongReset ==
    /\ game # None
    /\ game' = NewState
    /\ tried' = 0
    /\ UNCHANGED input

(* Decide: the flow decides between moving to the target and waiting; the  *)
(* target is where the ball is predicted to arrive, give or take an error  *)
(* that the flow decides as well.                                          *)
Decide == {-1, 0, 1}

(* tickWithAdversary, and TickQuantum with its pressure.                   *)
Tick ==
    /\ game # None
    /\ ~ GameOver(game)
    /\ \E h \in Hash, q \in Pressure, decision \in Decide :
         LET inputs == <<input, decision>>
         IN  /\ game' = ComputeNextStateQuantum(game, inputs, h, q)
             /\ tried' = IF game'.score # game.score THEN 0 ELSE Tried(Moved(game, inputs, h, q))
    /\ input' = 0

(* The network has no hash.                                                *)
TickLost ==
    /\ game # None
    /\ ~ GameOver(game)
    /\ input' = 0
    /\ UNCHANGED <<game, tried>>

Next == PongStart \/ PongStop \/ PongInput \/ PongReset \/ Tick \/ TickLost

Spec == Init /\ [][Next]_vars

-----------------------------------------------------------------------------
(* However fast the ball got, nobody scores past a paddle that was not in  *)
(* play: before a point the ball was compared with the paddle of the       *)
(* player who loses it, and was missed.                                    *)
PointsAreMisses ==
    [][\A p \in {1, 2} :
         (game # None /\ game' # None /\ game'.score[p] > game.score[p]) => tried = 3 - p]_vars
=============================================================================
