------------------------------- MODULE MCSaga --------------------------------
\* Model checking of Saga: three steps, as create_with_saga has (create_order,
\* deduct_stock, initiate_payment).  The first two write row by row without a
\* transaction and may fail half way; restore_stock adds, so a repeated one adds again.
EXTENDS Saga

OrderSteps == 3
RowByRow == {1, 2}
Absolute == {1, 3}
================================================================================
