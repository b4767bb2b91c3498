------------------------------- MODULE Snakes -------------------------------
(***************************************************************************)
(* The game of Userland/SampleCodeModule/snakes.c, for one or two players. *)
(*                                                                         *)
(* A round of check_state takes a key, moves and judges player 1, then     *)
(* moves and judges player 2; `phase' says which of the three comes next.  *)
(* The head of a snake is the first element of its body, `grown' says that *)
(* its last move was to food; points and drawing are left out.  What the   *)
(* static structs hold from the game before is kept: setPlayers touches    *)
(* player 2 only if there are two.                                         *)
(***************************************************************************)
EXTENDS SequencesExt, Integers

CONSTANTS
    Columns_, Rows_,  \* the screen in cells: its width and height over SIZE
    MinX, MinY,       \* first column and row inside the borders
    FoodX, FoodY,     \* margins that are added to food too close to them
    Length,           \* of a new snake
    MAX_LENGTH,
    Word64,           \* number of values of a coordinate
    MaxTurns          \* bound on the turns in all games

ASSUME SnakesAssumption ==
    /\ {Columns_, Rows_, MinX, MinY, FoodX, FoodY, Length} \subseteq Nat \ {0}
    /\ MAX_LENGTH \in Nat /\ MAX_LENGTH >= Length
    /\ Word64 \in Nat /\ Word64 > 2 * Columns_ /\ Word64 > 2 * Rows_
    \* the heads of new snakes are inside the borders, and their tails on the screen
    /\ Columns_ \div 4 >= MinX /\ Columns_ \div 4 >= 2 /\ Rows_ \div 2 \in MinY..(Rows_ - 2)
    /\ Columns_ \div 4 >= Length - 1
    /\ MaxTurns \in Nat

VARIABLES phase, playersChoice, player, food,
          turns    \* how many there were

snakeVars == <<phase, playersChoice, player, food, turns>>

Players == {1, 2}
Other(p) == 3 - p

Directions == {"up", "left", "down", "right"}
Opposite   == [up |-> "down", down |-> "up", left |-> "right", right |-> "left"]
Ahead      == [up |-> <<0, -1>>, down |-> <<0, 1>>, left |-> <<-1, 0>>, right |-> <<1, 0>>]

Coordinates == (0..(Word64 - 1)) \X (0..(Word64 - 1))
From(c, d)  == <<(c[1] + Ahead[d][1]) % Word64, (c[2] + Ahead[d][2]) % Word64>>

NoPlayer == [direction |-> "up", state |-> FALSE, body |-> <<>>, grown |-> FALSE]
Cells(q) == ToSet(q.body)

---------------------------------------------------------------------------
checkInSnake(pl, f) == \E p \in Players : f \in Cells(pl[p])

(* generateRandomPosition takes both coordinates from one tick count and   *)
(* tries again when they do not fit.                                       *)
Place(seed) ==
    LET x == seed % Columns_
        y == seed % Rows_
    IN  <<IF x <= FoodX THEN x + FoodX ELSE x, IF y <= FoodY THEN y + FoodY ELSE y>>

Places_ == {Place(seed) : seed \in 0..(Columns_ * Rows_ - 1)}

setFood(pl) == {f \in Places_ : f[1] < Columns_ /\ f[2] < Rows_ /\ ~checkInSnake(pl, f)}

addNewTail(q) == From(Last(q.body), Opposite[q.direction])

increaseSnake(q) ==
    IF Len(q.body) < MAX_LENGTH
    THEN [q EXCEPT !.body = Append(@, addNewTail(q)), !.grown = TRUE] ELSE q

(* Every segment takes the place of the one in front of it.                *)
Shift(body, head) == [i \in DOMAIN body |-> IF i = 1 THEN head ELSE body[i - 1]]

(* What updatePosition may leave for a move of p in direction d.  Food is  *)
(* eaten before anybody looks whether the snake is still alive.            *)
Moves(pl, f, p, d) ==
    LET head  == From(pl[p].body[1], d)
        moved == [pl[p] EXCEPT !.direction = d, !.body = Shift(@, head), !.grown = FALSE]
        fed   == [pl EXCEPT ![p] = increaseSnake(moved)]
    IN  IF head = f THEN {<<fed, g>> : g \in setFood(fed)}
        ELSE {<<[pl EXCEPT ![p] = moved], f>>}

---------------------------------------------------------------------------
outOfBorders(q) ==
    LET head == q.body[1]
    IN  ~(head[1] \in MinX..(Columns_ - 2) /\ head[2] \in MinY..(Rows_ - 2))

(* Mutant: the last segment is not looked at.                              *)
checkCollisionShort(q, r) == r.state /\ \E i \in 2..(Len(r.body) - 1) : q.body[1] = r.body[i]

(* A dead snake is no obstacle.                                            *)
checkCollision(q, r) == r.state /\ \E i \in 2..Len(r.body) : q.body[1] = r.body[i]

HeadOn(pl) == pl[1].state /\ pl[2].state /\ pl[1].body[1] = pl[2].body[1]

(* The players after p, which is alive, was judged.                        *)
Judged(pl, p) ==
    CASE outOfBorders(pl[p])                -> [pl EXCEPT ![p].state = FALSE]
      [] ~outOfBorders(pl[p]) /\ HeadOn(pl) -> [q \in Players |-> [pl[q] EXCEPT !.state = FALSE]]
      [] OTHER -> [pl EXCEPT ![p].state = ~(checkCollision(pl[p], pl[p]) \/ checkCollision(pl[p], pl[Other(p)]))]

---------------------------------------------------------------------------
Body(head, n) == [i \in 1..Length |-> <<head[1] + n * (i - 1), head[2]>>]

setPlayers(choice) ==
    LET first  == [direction |-> "right", state |-> TRUE, grown |-> FALSE,
                   body |-> Body(<<Columns_ \div 4, Rows_ \div 2>>, -1)]
        second == [direction |-> "left", state |-> TRUE, grown |-> FALSE,
                   body |-> Body(<<Columns_ - Columns_ \div 4, Rows_ \div 2>>, 1)]
    IN  IF choice = 2 THEN <<first, second>> ELSE <<first, player[2]>>

play_snakes(choice) ==
    /\ phase = "over"
    /\ playersChoice' = choice
    /\ player' = setPlayers(choice)
    /\ food' \in setFood(player')
    /\ phase' = "key"
    /\ UNCHANGED turns

SomebodyAlive == player[1].state \/ player[2].state

(* A key that turns a snake moves it, and the round moves it once more; a  *)
(* dead snake can be moved too.                                            *)
Turn(p, d) ==
    /\ phase = "key" /\ SomebodyAlive
    /\ p <= playersChoice
    /\ turns < MaxTurns /\ turns' = turns + 1
    /\ d \notin {player[p].direction, Opposite[player[p].direction]}
    /\ \E m \in Moves(player, food, p, d) : player' = m[1] /\ food' = m[2]
    /\ phase' = "first"
    /\ UNCHANGED playersChoice

(* Any other key.                                                          *)
KeepOn ==
    /\ phase = "key" /\ SomebodyAlive
    /\ phase' = "first"
    /\ UNCHANGED <<playersChoice, player, food, turns>>

MoveOn(p, from, to) ==
    /\ phase = from
    /\ \/ /\ player[p].state
          /\ \E m \in Moves(player, food, p, player[p].direction) :
                player' = Judged(m[1], p) /\ food' = m[2]
       \/ ~player[p].state /\ UNCHANGED <<player, food>>
    /\ phase' = to
    /\ UNCHANGED <<playersChoice, turns>>

GameOver ==
    /\ phase = "key" /\ ~SomebodyAlive
    /\ phase' = "over"
    /\ UNCHANGED <<playersChoice, player, food, turns>>

---------------------------------------------------------------------------
SnakesInit ==
    /\ phase = "over"
    /\ playersChoice = 1
    /\ player = <<NoPlayer, NoPlayer>>
    /\ food = <<0, 0>>
    /\ turns = 0

SnakesNext ==
    \/ \E choice \in {1, 2} : play_snakes(choice)
    \/ \E p \in Players, d \in Directions : Turn(p, d)
    \/ KeepOn \/ GameOver
    \/ MoveOn(1, "first", "second") \/ MoveOn(2, "second", "key")

---------------------------------------------------------------------------
(* A snake never outgrows its arrays, and its segments are coordinates.    *)
SnakesTypeOK ==
    /\ phase \in {"over", "key", "first", "second"}
    /\ playersChoice \in {1, 2} /\ turns \in 0..MaxTurns
    /\ food \in Coordinates
    /\ \A p \in Players :
          /\ player[p].direction \in Directions /\ player[p].state \in BOOLEAN
          /\ Len(player[p].body) <= MAX_LENGTH
          /\ Cells(player[p]) \subseteq Coordinates

(* A snake hangs together: every segment is next to the one in front of    *)
(* it, also the one that was added behind a curled tail.                   *)
HangsTogether == \A p \in Players : \A i \in 2..Len(player[p].body) :
    \E d \in Directions : player[p].body[i] = From(player[p].body[i - 1], d)

(* Food never lies under a snake, alive or dead or left from another game: *)
(* whoever comes to it eats it.                                            *)
FoodFree == phase # "over" => \A p \in Players : food \notin Cells(player[p])

(* At the end of a round the head of a snake that is alive is inside the   *)
(* borders and on no snake that is alive, except that the tail of player 2 *)
(* may have grown under player 1, which was judged before.                 *)
LiveHeadsFree == phase = "key" =>
    \A p, q \in {r \in Players : player[r].state} :
        /\ ~outOfBorders(player[p])
        /\ \A i \in 1..Len(player[q].body) :
              player[p].body[1] = player[q].body[i]
                  => \/ p = q /\ i = 1
                     \/ p = 1 /\ q = 2 /\ i = Len(player[q].body) /\ player[q].grown

(* Alone on the screen, player 1 does not meet the snake of a game before. *)
OnePlayer == phase # "over" /\ playersChoice = 1 => ~player[2].state
=============================================================================
